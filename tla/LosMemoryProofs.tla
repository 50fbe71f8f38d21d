-------------------------- MODULE LosMemoryProofs --------------------------
(***************************************************************************)
(* Theorems about LosMemory: the nodes tile the pool, the free ones are in *)
(* the lists of their sizes and have no free neighbours, the blocks of the *)
(* application lie apart, and what fits is found, in pools of any size     *)
(* with headers of any size.                                               *)
(***************************************************************************)
EXTENDS LosMemory, SequenceTheorems, FiniteSetTheorems, WellFoundedInduction, TLAPS

-----------------------------------------------------------------------------
(***************************************************************************)
(* Lists.                                                                  *)
(***************************************************************************)

\* Taking the i-th element out of a sequence.
LEMMA RemoveAtElements ==
  ASSUME NEW S, NEW s \in Seq(S), NEW i \in 1 .. Len(s)
  PROVE  /\ RemoveAt(s, i) \in Seq(S)
         /\ Len(RemoveAt(s, i)) = Len(s) - 1
         /\ \A k \in 1 .. Len(s) - 1 :
              RemoveAt(s, i)[k] = IF k < i THEN s[k] ELSE s[k + 1]
<1> DEFINE u == SubSeq(s, 1, i - 1)
           v == SubSeq(s, i + 1, Len(s))
<1>0. /\ 1 \in Int /\ i \in Int /\ i - 1 \in Int /\ i + 1 \in Int
      /\ Len(s) \in Nat /\ Len(s) \in Int
  BY LenProperties
<1>2. /\ u \in Seq(S) /\ Len(u) = i - 1
      /\ \A k \in 1 .. i - 1 : u[k] = s[k]
  BY <1>0
<1>3. /\ v \in Seq(S) /\ Len(v) = Len(s) - i
      /\ \A k \in 1 .. Len(s) - i : v[k] = s[k + i]
  BY <1>0
<1>4. RemoveAt(s, i) = u \o v
  BY DEF RemoveAt
<1> HIDE DEF u, v
<1>5. /\ u \o v \in Seq(S)
      /\ Len(u \o v) = Len(u) + Len(v)
      /\ \A k \in 1 .. Len(u) + Len(v) :
           (u \o v)[k] = IF k <= Len(u) THEN u[k] ELSE v[k - Len(u)]
  BY <1>2, <1>3, ConcatProperties
<1>6. Len(u \o v) = Len(s) - 1
  BY <1>0, <1>2, <1>3, <1>5
<1>7. ASSUME NEW k \in 1 .. Len(s) - 1
      PROVE  (u \o v)[k] = IF k < i THEN s[k] ELSE s[k + 1]
  <2>1. CASE k < i
    BY <2>1, <1>0, <1>2, <1>3, <1>5
  <2>2. CASE ~(k < i)
    <3>1. (u \o v)[k] = v[k - (i - 1)]
      <4>1. Len(u) = i - 1 /\ Len(v) = Len(s) - i
        BY <1>2, <1>3
      <4>2. k \in 1 .. Len(u) + Len(v) /\ ~(k <= Len(u))
        BY <4>1, <2>2, <1>0
      <4> QED BY <4>1, <4>2, <1>5
    <3>2. v[k - (i - 1)] = s[k + 1]
      BY <2>2, <1>0, <1>3
    <3> QED BY <2>2, <1>0, <3>1, <3>2
  <2> QED BY <2>1, <2>2
<1> QED BY <1>4, <1>5, <1>6, <1>7

\* A list without one of its elements.
LEMMA WithoutFacts ==
  ASSUME NEW S, NEW s \in Seq(S), NEW t
  PROVE  /\ Without(s, t) \in Seq(S)
         /\ IsInjective(s) =>
              /\ IsInjective(Without(s, t))
              /\ Range(Without(s, t)) = Range(s) \ {t}
<1>0. /\ DOMAIN s = 1 .. Len(s) /\ Len(s) \in Nat
      /\ Range(s) = {s[k] : k \in 1 .. Len(s)}
  BY LenProperties, RangeEquality
<1>1. CASE t \in Range(s)
  <2>1. PICK i \in 1 .. Len(s) : s[i] = t /\ Without(s, t) = RemoveAt(s, i)
    <3>1. \E j \in DOMAIN s : s[j] = t
      BY <1>0, <1>1
    <3> QED BY <1>0, <1>1, <3>1, Zenon DEF Without
  <2> DEFINE w == RemoveAt(s, i)
  <2>2. /\ w \in Seq(S)
        /\ Len(w) = Len(s) - 1
        /\ \A k \in 1 .. Len(s) - 1 : w[k] = IF k < i THEN s[k] ELSE s[k + 1]
    BY RemoveAtElements
  <2> HIDE DEF w
  <2>3. /\ DOMAIN w = 1 .. Len(s) - 1
        /\ Range(w) = {w[k] : k \in 1 .. Len(s) - 1}
    BY <2>2, LenProperties, RangeEquality
  <2>4. ASSUME IsInjective(s)
        PROVE  IsInjective(w)
    <3> SUFFICES ASSUME NEW j \in 1 .. Len(s) - 1, NEW k \in 1 .. Len(s) - 1,
                        w[j] = w[k]
                 PROVE  j = k
      BY <2>3 DEF IsInjective
    <3>1. \A m, n \in 1 .. Len(s) : s[m] = s[n] => m = n
      BY <1>0, <2>4 DEF IsInjective
    <3> QED BY <1>0, <2>2, <3>1
  <2>5. ASSUME IsInjective(s)
        PROVE  Range(w) = Range(s) \ {t}
    <3>1. \A m, n \in 1 .. Len(s) : s[m] = s[n] => m = n
      BY <1>0, <2>5 DEF IsInjective
    <3>2. ASSUME NEW k \in 1 .. Len(s) - 1
          PROVE  w[k] \in Range(s) \ {t}
      BY <1>0, <2>1, <2>2, <3>1
    <3>3. ASSUME NEW n \in 1 .. Len(s), s[n] # t
          PROVE  \E k \in 1 .. Len(s) - 1 : w[k] = s[n]
      <4>1. CASE n < i
        BY <4>1, <1>0, <2>2
      <4>2. CASE n > i
        <5>1. n - 1 \in 1 .. Len(s) - 1 /\ w[n - 1] = s[n]
          BY <4>2, <1>0, <2>2
        <5> QED BY <5>1
      <4> QED BY <4>1, <4>2, <3>3, <2>1, <1>0
    <3>4. Range(w) \subseteq Range(s) \ {t}
      BY <2>3, <3>2
    <3>5. ASSUME NEW x \in Range(s) \ {t}
          PROVE  x \in Range(w)
      <4>1. PICK n \in 1 .. Len(s) : s[n] = x
        BY <1>0
      <4>2. \E k \in 1 .. Len(s) - 1 : w[k] = s[n]
        BY <4>1, <3>3
      <4> QED BY <4>1, <4>2, <2>3
    <3> QED BY <3>4, <3>5
  <2> QED BY <2>1, <2>2, <2>4, <2>5 DEF w
<1>2. CASE t \notin Range(s)
  BY <1>2 DEF Without
<1> QED BY <1>1, <1>2

\* A list with one more at the front.
LEMMA ConsFacts ==
  ASSUME NEW S, NEW s \in Seq(S), NEW a \in S
  PROVE  /\ <<a>> \o s \in Seq(S)
         /\ Range(<<a>> \o s) = Range(s) \cup {a}
         /\ IsInjective(s) /\ a \notin Range(s) => IsInjective(<<a>> \o s)
<1>m. PICK m : m = <<a>>
  OBVIOUS
<1>0. m \in Seq(S) /\ Len(m) = 1 /\ m[1] = a
  BY <1>m
<1>w. PICK w : w = m \o s
  OBVIOUS
<1>1. /\ w \in Seq(S) /\ Len(w) = Len(s) + 1 /\ Len(s) \in Nat
      /\ \A k \in 1 .. Len(s) + 1 : w[k] = IF k <= 1 THEN m[k] ELSE s[k - 1]
  <2>1. /\ m \o s \in Seq(S)
        /\ Len(m \o s) = Len(m) + Len(s)
        /\ \A k \in 1 .. Len(m) + Len(s) :
             (m \o s)[k] = IF k <= Len(m) THEN m[k] ELSE s[k - Len(m)]
    BY <1>0, ConcatProperties
  <2> QED BY <1>0, <1>w, <2>1
<1>2. w[1] = a /\ \A k \in 1 .. Len(s) : w[k + 1] = s[k]
  BY <1>0, <1>1
<1>3. /\ DOMAIN w = 1 .. Len(s) + 1 /\ DOMAIN s = 1 .. Len(s)
      /\ Range(w) = {w[k] : k \in 1 .. Len(s) + 1}
      /\ Range(s) = {s[k] : k \in 1 .. Len(s)}
  BY <1>1, LenProperties, RangeEquality
<1>4. Range(w) = Range(s) \cup {a}
  <2>1. ASSUME NEW k \in 1 .. Len(s) + 1 PROVE w[k] \in Range(s) \cup {a}
    <3>1. CASE k = 1
      BY <1>2, <3>1
    <3>2. CASE k # 1
      <4>1. k - 1 \in 1 .. Len(s) /\ (k - 1) + 1 = k
        BY <1>1, <2>1, <3>2
      <4>2. w[k] = s[k - 1]
        BY <1>2, <4>1
      <4> QED BY <1>3, <4>1, <4>2
    <3> QED BY <3>1, <3>2
  <2>2. ASSUME NEW k \in 1 .. Len(s) PROVE s[k] \in Range(w)
    <3>1. k + 1 \in 1 .. Len(s) + 1
      BY <1>1
    <3> QED BY <1>2, <1>3, <3>1
  <2>3. a \in Range(w)
    BY <1>1, <1>2, <1>3
  <2> QED BY <1>3, <2>1, <2>2, <2>3
<1>5. ASSUME IsInjective(s), a \notin Range(s) PROVE IsInjective(w)
  <2>1. \A j, k \in 1 .. Len(s) : s[j] = s[k] => j = k
    BY <1>3, <1>5 DEF IsInjective
  <2>2. \A k \in 1 .. Len(s) : s[k] # a
    BY <1>3, <1>5
  <2>3. ASSUME NEW j \in 1 .. Len(s) + 1, NEW k \in 1 .. Len(s) + 1, w[j] = w[k]
        PROVE  j = k
    <3>1. /\ w[j] = IF j = 1 THEN a ELSE s[j - 1]
          /\ w[k] = IF k = 1 THEN a ELSE s[k - 1]
      BY <1>0, <1>1, <2>3
    <3>2. j # 1 => j - 1 \in 1 .. Len(s)
      BY <1>1
    <3>3. k # 1 => k - 1 \in 1 .. Len(s)
      BY <1>1
    <3>4. j # 1 /\ k # 1 => j - 1 = k - 1
      BY <2>1, <2>3, <3>1, <3>2, <3>3
    <3>5. j = 1 <=> k = 1
      BY <2>2, <2>3, <3>1, <3>2, <3>3
    <3> QED BY <3>4, <3>5
  <2> QED BY <1>3, <2>3 DEF IsInjective
<1> QED BY <1>1, <1>4, <1>5, <1>m, <1>w

-----------------------------------------------------------------------------
(***************************************************************************)
(* The class of a size.                                                    *)
(***************************************************************************)
\* A set of naturals has a least element.
LEMMA LeastNat ==
  ASSUME NEW T, T \subseteq Nat, T # {}
  PROVE  \E x \in T : \A y \in T : x <= y
<1>1. IsWellFoundedOn(OpToRel(<, Nat), Nat)
  BY NatLessThanWellFounded
<1>2. PICK x \in T : \A y \in T : ~(<<y, x>> \in OpToRel(<, Nat))
  BY <1>1, WFMin
<1>3. \A y \in T : ~(y < x)
  BY <1>2 DEF OpToRel
<1> QED BY <1>3

\* A power of two counts the subsets of a set.
LEMMA Power ==
  ASSUME NEW n \in Nat
  PROVE  /\ IsFiniteSet(SUBSET (1 .. n))
         /\ 2^n = Cardinality(SUBSET (1 .. n))
         /\ 2^n \in Nat
<1>1. IsFiniteSet(1 .. n) /\ Cardinality(1 .. n) = n
  BY FS_Interval
<1>2. IsFiniteSet(SUBSET (1 .. n)) /\ Cardinality(SUBSET (1 .. n)) = 2^n
  <2>1. PICK S : S = 1 .. n
    OBVIOUS
  <2>2. IsFiniteSet(SUBSET S) /\ Cardinality(SUBSET S) = 2^Cardinality(S)
    BY <1>1, <2>1, FS_SUBSET
  <2> QED BY <1>1, <2>1, <2>2
<1> QED BY <1>2, FS_CardinalityType

\* Powers of two grow.
LEMMA PowersGrow ==
  ASSUME NEW m \in Nat, NEW n \in Nat, m <= n
  PROVE  2^m <= 2^n
<1>1. SUBSET (1 .. m) \in SUBSET (SUBSET (1 .. n))
  OBVIOUS
<1>2. PICK S, T : S = SUBSET (1 .. n) /\ T = SUBSET (1 .. m)
  OBVIOUS
<1>3. Cardinality(T) <= Cardinality(S)
  BY <1>1, <1>2, Power, FS_Subset
<1> QED BY <1>2, <1>3, Power

\* So do their multiples.
LEMMA TimesGrow ==
  ASSUME NEW k \in Nat, NEW m \in Nat, NEW n \in Nat, m <= n
  PROVE  k * m <= k * n /\ k * m \in Nat
OBVIOUS

Bound(c) == MinSize * 2^c

\* The bounds of the classes are numbers, the larger the higher the class.
LEMMA BoundFacts ==
  /\ \A c \in Nat : Bound(c) \in Nat
  /\ \A c, d \in Nat : c <= d => Bound(c) <= Bound(d)
  /\ Bound(0) = MinSize
<1>1. ASSUME NEW c \in Nat PROVE Bound(c) \in Nat
  <2>1. 2^c \in Nat
    BY Power
  <2> QED BY <2>1, TimesGrow, MemoryAssumption DEF Bound
<1>2. ASSUME NEW c \in Nat, NEW d \in Nat, c <= d PROVE Bound(c) <= Bound(d)
  <2>1. 2^c \in Nat /\ 2^d \in Nat /\ 2^c <= 2^d
    BY <1>2, Power, PowersGrow
  <2> QED BY <2>1, TimesGrow, MemoryAssumption DEF Bound
<1>3. Bound(0) = MinSize
  BY MemoryAssumption DEF Bound
<1> QED BY <1>1, <1>2, <1>3

\* LOS_Log2: a size has a class, whose bounds it lies between.
LEMMA ClassFacts ==
  ASSUME NEW n \in 0 .. Top
  PROVE  /\ ClassOf[n] \in Classes
         /\ n < MinSize => ClassOf[n] = 0
         /\ n >= MinSize => /\ Bound(ClassOf[n]) <= n
                            /\ n < Bound(ClassOf[n] + 1)
<1>n. n \in Nat /\ n <= Top /\ Top \in Nat /\ MinSize \in Nat /\ LastClass \in Nat
  BY MemoryAssumption
<1>1. CASE n < MinSize
  <2>1. ClassOf[n] = 0
    BY <1>1 DEF ClassOf
  <2> QED BY <1>1, <1>n, <2>1 DEF Classes
<1>2. CASE n >= MinSize
  <2> DEFINE T == {c \in Classes : n < Bound(c + 1)}
  <2>1. T \subseteq Nat /\ LastClass \in T
    <3>1. Top < Bound(LastClass + 1) /\ Bound(LastClass + 1) \in Nat
      BY MemoryAssumption, BoundFacts DEF Bound
    <3> QED BY <1>n, <3>1 DEF Classes
  <2>2. PICK c \in T : \A d \in T : c <= d
    <3> HIDE DEF T
    <3> QED BY <2>1, LeastNat
  <2>3. Bound(c) <= n
    <3>1. CASE c = 0
      BY <1>2, <3>1, BoundFacts
    <3>2. CASE c # 0
      <4>1. c - 1 \in Classes /\ (c - 1) + 1 = c /\ ~(c <= c - 1)
        BY <2>2, <3>2, MemoryAssumption DEF Classes
      <4>2. c - 1 \notin T
        BY <2>2, <4>1
      <4>3. Bound(c) \in Nat
        BY <4>1, BoundFacts DEF Classes
      <4> QED BY <1>n, <4>1, <4>2, <4>3
    <3> QED BY <3>1, <3>2
  <2>4. \E d \in Classes : Bound(d) <= n /\ n < Bound(d + 1)
    BY <2>2, <2>3
  <2>5. ClassOf[n] = CHOOSE d \in Classes : Bound(d) <= n /\ n < Bound(d + 1)
    BY <1>2, <1>n DEF ClassOf, Bound
  <2>6. ClassOf[n] \in Classes /\ Bound(ClassOf[n]) <= n /\ n < Bound(ClassOf[n] + 1)
    BY <2>4, <2>5, Zenon
  <2> QED BY <1>2, <1>n, <2>6
<1> QED BY <1>1, <1>2, <1>n

\* A larger size has no lower class: the search may begin at that of the size.
LEMMA ClassesGrow ==
  ASSUME NEW m \in 0 .. Top, NEW n \in 0 .. Top, m <= n
  PROVE  ClassOf[m] <= ClassOf[n]
<1>0. /\ ClassOf[m] \in Nat /\ ClassOf[n] \in Nat /\ ClassOf[n] + 1 \in Nat
      /\ m \in Nat /\ n \in Nat /\ MinSize \in Nat
  BY ClassFacts, MemoryAssumption DEF Classes
<1>1. CASE m < MinSize
  BY <1>0, <1>1, ClassFacts
<1>2. CASE m >= MinSize
  <2> SUFFICES ASSUME ClassOf[m] > ClassOf[n] PROVE FALSE
    BY <1>0
  <2>1. n >= MinSize
    BY <1>0, <1>2
  <2>2. PICK c \in Nat, d \in Nat : c = ClassOf[m] /\ d = ClassOf[n] + 1
    BY <1>0
  <2>3. Bound(c) <= m /\ n < Bound(d)
    BY <1>2, <2>1, <2>2, ClassFacts
  <2>4. Bound(d) <= Bound(c) /\ Bound(c) \in Nat /\ Bound(d) \in Nat
    BY <1>0, <2>2, BoundFacts
  <2> QED BY <1>0, <2>3, <2>4
<1> QED BY <1>0, <1>1, <1>2

-----------------------------------------------------------------------------
(***************************************************************************)
(* The tiling.                                                             *)
(***************************************************************************)
NodeRecord == [size : Nat, used : BOOLEAN, pre : Addresses \cup {Null}]
NodeMaps == [Addresses -> NodeRecord]
ListMaps == [Classes -> Seq(Addresses)]
HeapType(h) == h \in [node : NodeMaps, free : ListMaps]

NodesOf(h) == {a \in Addresses : h.node[a] # NoNode}

\* The node a ends where another begins, which points back to it, and no node
\* begins in between.
Tile(h, a) ==
  /\ h.node[a].size >= HeadSize
  /\ h.node[a].size > HeadSize \/ Top = HeadSize
  /\ Behind(h, a) \in NodesOf(h)
  /\ h.node[Behind(h, a)].pre = a
  /\ \A b \in NodesOf(h) : b <= a \/ Behind(h, a) <= b

Tiled(h) ==
  /\ 0 \in NodesOf(h) /\ Top \in NodesOf(h)
  /\ h.node[Top].size = HeadSize /\ h.node[Top].used
  /\ \A a \in NodesOf(h) : h.node[a].pre = Null <=> a = 0
  /\ \A a \in NodesOf(h) \ {Top} : Tile(h, a)
  /\ \A a \in NodesOf(h) \ {0} :
       h.node[a].pre \in NodesOf(h) \ {Top} /\ Behind(h, h.node[a].pre) = a

\* Only the nodes in A differ in size or use.
SameBut(g, h, A) ==
  \A b \in Addresses \ A :
    g.node[b].size = h.node[b].size /\ g.node[b].used = h.node[b].used

\* A heap is its nodes and its lists.
LEMMA HeapParts ==
  ASSUME NEW h, HeapType(h)
  PROVE  h = [node |-> h.node, free |-> h.free] /\ h.node \in NodeMaps /\ h.free \in ListMaps
BY DEF HeapType

\* Nodes and lists make a heap.
LEMMA PartsHeap ==
  ASSUME NEW N \in NodeMaps, NEW F \in ListMaps, NEW h, h = [node |-> N, free |-> F]
  PROVE  HeapType(h) /\ h.node = N /\ h.free = F
BY DEF HeapType

\* The header fields, one at a time.
WithSize(N, a, v) == [N EXCEPT ![a].size = v]
WithUsed(N, a, v) == [N EXCEPT ![a].used = v]
WithPre(N, a, v) == [N EXCEPT ![a].pre = v]
WithNode(N, a, v) == [N EXCEPT ![a] = v]

\* Assigning to a field of a header leaves the lists alone.
LEMMA SizeSet ==
  ASSUME NEW N, NEW F, NEW h, h = [node |-> N, free |-> F], NEW a, NEW v
  PROVE  [h EXCEPT !.node[a].size = v] = [node |-> WithSize(N, a, v), free |-> F]
BY DEF WithSize

\* The same of the used flag,
LEMMA UsedSet ==
  ASSUME NEW N, NEW F, NEW h, h = [node |-> N, free |-> F], NEW a, NEW v
  PROVE  [h EXCEPT !.node[a].used = v] = [node |-> WithUsed(N, a, v), free |-> F]
BY DEF WithUsed

\* of the pointer to the node before,
LEMMA PreSet ==
  ASSUME NEW N, NEW F, NEW h, h = [node |-> N, free |-> F], NEW a, NEW v
  PROVE  [h EXCEPT !.node[a].pre = v] = [node |-> WithPre(N, a, v), free |-> F]
BY DEF WithPre

\* and of a whole header.
LEMMA NodeSet ==
  ASSUME NEW N, NEW F, NEW h, h = [node |-> N, free |-> F], NEW a, NEW v
  PROVE  [h EXCEPT !.node[a] = v] = [node |-> WithNode(N, a, v), free |-> F]
BY DEF WithNode

\* Setting the size of a node leaves its other fields and the other nodes.
LEMMA MapSizeSet ==
  ASSUME NEW N \in NodeMaps, NEW a \in Addresses, NEW v \in Nat,
         NEW M, M = WithSize(N, a, v)
  PROVE  /\ M \in NodeMaps
         /\ M[a] = [size |-> v, used |-> N[a].used, pre |-> N[a].pre]
         /\ \A b \in Addresses \ {a} : M[b] = N[b]
BY DEF NodeMaps, NodeRecord, WithSize

\* Setting its flag does,
LEMMA MapUsedSet ==
  ASSUME NEW N \in NodeMaps, NEW a \in Addresses, NEW v \in BOOLEAN,
         NEW M, M = WithUsed(N, a, v)
  PROVE  /\ M \in NodeMaps
         /\ M[a] = [size |-> N[a].size, used |-> v, pre |-> N[a].pre]
         /\ \A b \in Addresses \ {a} : M[b] = N[b]
BY DEF NodeMaps, NodeRecord, WithUsed

\* setting its pointer to the node before does,
LEMMA MapPreSet ==
  ASSUME NEW N \in NodeMaps, NEW a \in Addresses, NEW v \in Addresses \cup {Null},
         NEW M, M = WithPre(N, a, v)
  PROVE  /\ M \in NodeMaps
         /\ M[a] = [size |-> N[a].size, used |-> N[a].used, pre |-> v]
         /\ \A b \in Addresses \ {a} : M[b] = N[b]
BY DEF NodeMaps, NodeRecord, WithPre

\* and writing a header leaves the other nodes.
LEMMA MapNodeSet ==
  ASSUME NEW N \in NodeMaps, NEW a \in Addresses, NEW v \in NodeRecord,
         NEW M, M = WithNode(N, a, v)
  PROVE  /\ M \in NodeMaps
         /\ M[a] = v
         /\ \A b \in Addresses \ {a} : M[b] = N[b]
BY DEF NodeMaps, NodeRecord, WithNode

\* What a merge leaves of a header.
LEMMA NoNodeType == NoNode \in NodeRecord /\ NoNode.size = 0 /\ NoNode.used = FALSE
BY DEF NoNode, NodeRecord

\* What osMemMergeNode does to the headers.
LEMMA MergeNodes ==
  ASSUME NEW h, HeapType(h), NEW a \in Addresses, NEW p \in Addresses, p = h.node[a].pre,
         NEW n \in Addresses, n = Behind(h, a), p # a, n # a, n # p
  PROVE  /\ HeapType(Merge(h, a))
         /\ Merge(h, a).free = h.free
         /\ Merge(h, a).node[a] = NoNode
         /\ Merge(h, a).node[p] = [size |-> h.node[p].size + h.node[a].size,
                                   used |-> h.node[p].used, pre |-> h.node[p].pre]
         /\ Merge(h, a).node[n] = [size |-> h.node[n].size, used |-> h.node[n].used,
                                   pre |-> p]
         /\ \A b \in Addresses \ {a, p, n} : Merge(h, a).node[b] = h.node[b]
<1>1. PICK N \in NodeMaps, F \in ListMaps :
        N = h.node /\ F = h.free /\ h = [node |-> N, free |-> F]
  BY HeapParts
<1>2. PICK x \in Nat : x = h.node[p].size + h.node[a].size
  BY <1>1 DEF NodeMaps, NodeRecord
<1>3. Merge(h, a) =
        [[[h EXCEPT !.node[p].size = x] EXCEPT !.node[n].pre = p] EXCEPT !.node[a] = NoNode]
  BY <1>2 DEF Merge
<1>4. PICK N1 : N1 = WithSize(N, p, x)
  OBVIOUS
<1>5. PICK N2 : N2 = WithPre(N1, n, p)
  OBVIOUS
<1>6. PICK N3 : N3 = WithNode(N2, a, NoNode)
  OBVIOUS
<1>7. Merge(h, a) = [node |-> N3, free |-> F]
  <2>1. PICK h1 : h1 = [h EXCEPT !.node[p].size = x]
    OBVIOUS
  <2>2. PICK h2 : h2 = [h1 EXCEPT !.node[n].pre = p]
    OBVIOUS
  <2>3. h1 = [node |-> N1, free |-> F]
    BY <1>1, <1>4, <2>1, SizeSet
  <2>4. h2 = [node |-> N2, free |-> F]
    BY <1>5, <2>2, <2>3, PreSet
  <2>5. Merge(h, a) = [h2 EXCEPT !.node[a] = NoNode]
    BY <1>3, <2>1, <2>2
  <2> QED BY <1>6, <2>4, <2>5, NodeSet
<1>8. /\ N1 \in NodeMaps /\ N1[p] = [size |-> x, used |-> N[p].used, pre |-> N[p].pre]
      /\ \A b \in Addresses \ {p} : N1[b] = N[b]
  BY <1>2, <1>4, MapSizeSet
<1>9. /\ N2 \in NodeMaps /\ N2[n] = [size |-> N1[n].size, used |-> N1[n].used, pre |-> p]
      /\ \A b \in Addresses \ {n} : N2[b] = N1[b]
  BY <1>5, <1>8, MapPreSet
<1>10. /\ N3 \in NodeMaps /\ N3[a] = NoNode
       /\ \A b \in Addresses \ {a} : N3[b] = N2[b]
  BY <1>6, <1>9, MapNodeSet, NoNodeType
<1>11. HeapType(Merge(h, a)) /\ Merge(h, a).node = N3 /\ Merge(h, a).free = F
  BY <1>1, <1>7, <1>10, PartsHeap
<1> QED BY <1>1, <1>2, <1>8, <1>9, <1>10, <1>11

-----------------------------------------------------------------------------
\* What the tiling says of addresses and sizes.
LEMMA NodeFacts ==
  ASSUME NEW h, HeapType(h), Tiled(h)
  PROVE  /\ Top \in Nat /\ 0 \in Addresses /\ Top \in Addresses
         /\ HeadSize \in Nat /\ HeadSize > 0
         /\ NodesOf(h) \subseteq Addresses
         /\ \A a \in Addresses : /\ a \in Nat /\ a <= Top /\ h.node[a] \in NodeRecord
                                 /\ h.node[a].size \in Nat /\ h.node[a].used \in BOOLEAN
                                 /\ Behind(h, a) = a + h.node[a].size
         /\ \A a \in NodesOf(h) \ {Top} :
              /\ Behind(h, a) \in NodesOf(h) \ {0} /\ a < Behind(h, a)
              /\ h.node[a].size > 0
<1>1. /\ Top \in Nat /\ 0 \in Addresses /\ Top \in Addresses /\ HeadSize \in Nat /\ HeadSize > 0
  BY MemoryAssumption DEF Addresses
<1>2. ASSUME NEW a \in Addresses
      PROVE  /\ a \in Nat /\ a <= Top /\ h.node[a] \in NodeRecord
             /\ h.node[a].size \in Nat /\ h.node[a].used \in BOOLEAN
             /\ Behind(h, a) = a + h.node[a].size
  BY <1>1, <1>2 DEF Addresses, HeapType, NodeMaps, NodeRecord, Behind
<1>3. ASSUME NEW a \in NodesOf(h) \ {Top}
      PROVE  /\ Behind(h, a) \in NodesOf(h) \ {0} /\ a < Behind(h, a)
             /\ h.node[a].size > 0
  <2>1. Tile(h, a) /\ a \in Addresses
    BY <1>3 DEF Tiled, NodesOf
  <2>2. h.node[a].size >= HeadSize /\ Behind(h, a) \in NodesOf(h)
    BY <2>1 DEF Tile
  <2> QED BY <1>1, <1>2, <2>1, <2>2
<1> QED BY <1>1, <1>2, <1>3 DEF NodesOf

\* A header of size 0 is none; every other node has one.
LEMMA IsNode ==
  ASSUME NEW h, NEW b, b \in Addresses, h.node[b].size # 0
  PROVE  b \in NodesOf(h)
BY NoNodeType DEF NodesOf

\* osMemMergeNode keeps the tiling: one node less, and the one before it as much longer.
LEMMA MergeTiled ==
  ASSUME NEW h, HeapType(h), Tiled(h), NEW a \in NodesOf(h) \ {0, Top},
         NEW p, p = h.node[a].pre, NEW n, n = Behind(h, a), NEW g, g = Merge(h, a)
  PROVE  /\ HeapType(g) /\ Tiled(g) /\ g.free = h.free
         /\ NodesOf(g) = NodesOf(h) \ {a}
         /\ p \in NodesOf(h) \ {Top, a} /\ n \in NodesOf(h) \ {0, a, p} /\ Behind(h, p) = a
         /\ SameBut(g, h, {a, p}) /\ ~g.node[a].used
         /\ g.node[p].size = h.node[p].size + h.node[a].size
         /\ g.node[p].used = h.node[p].used
         /\ Behind(g, p) = n
<1>f. /\ Top \in Nat /\ 0 \in Addresses /\ Top \in Addresses /\ HeadSize \in Nat /\ HeadSize > 0
      /\ NodesOf(h) \subseteq Addresses
      /\ \A b \in Addresses : /\ b \in Nat /\ b <= Top /\ h.node[b] \in NodeRecord
                              /\ h.node[b].size \in Nat /\ h.node[b].used \in BOOLEAN
                              /\ Behind(h, b) = b + h.node[b].size
      /\ \A b \in NodesOf(h) \ {Top} :
           /\ Behind(h, b) \in NodesOf(h) \ {0} /\ b < Behind(h, b)
           /\ h.node[b].size > 0
  BY NodeFacts
<1>1. a \in Addresses /\ p \in NodesOf(h) \ {Top} /\ Behind(h, p) = a
  BY <1>f DEF Tiled
<1>2. p < a /\ a < n /\ n \in NodesOf(h) \ {0} /\ p \in Nat /\ a \in Nat /\ n \in Nat
  BY <1>1, <1>f
<1>3. p \in Addresses /\ n \in Addresses /\ p # a /\ n # a /\ n # p
  BY <1>1, <1>2, <1>f
<1>4. /\ HeapType(g) /\ g.free = h.free /\ g.node[a] = NoNode
      /\ g.node[p] = [size |-> h.node[p].size + h.node[a].size,
                      used |-> h.node[p].used, pre |-> h.node[p].pre]
      /\ g.node[n] = [size |-> h.node[n].size, used |-> h.node[n].used, pre |-> p]
      /\ \A b \in Addresses \ {a, p, n} : g.node[b] = h.node[b]
  BY <1>1, <1>3, MergeNodes
<1>5. /\ g.node[p].size = h.node[p].size + h.node[a].size /\ g.node[p].used = h.node[p].used
      /\ g.node[p].pre = h.node[p].pre
      /\ g.node[n].size = h.node[n].size /\ g.node[n].used = h.node[n].used /\ g.node[n].pre = p
      /\ \A b \in Addresses \ {a, p, n} : g.node[b] = h.node[b]
  BY <1>4
<1>6. SameBut(g, h, {a, p})
  BY <1>5 DEF SameBut
<1>7. NodesOf(g) = NodesOf(h) \ {a}
  <2>1. a \notin NodesOf(g)
    BY <1>4 DEF NodesOf
  <2>2. p \in NodesOf(g)
    BY <1>1, <1>3, <1>5, <1>f, IsNode
  <2>3. n \in NodesOf(g)
    <3>1. h.node[n].size > 0
      <4>1. CASE n = Top
        BY <1>f, <4>1 DEF Tiled
      <4>2. CASE n # Top
        BY <1>2, <1>f, <4>2
      <4> QED BY <4>1, <4>2
    <3> QED BY <1>3, <1>5, <3>1, <1>f, IsNode
  <2>4. \A b \in Addresses \ {a, p, n} : b \in NodesOf(g) <=> b \in NodesOf(h)
    BY <1>5 DEF NodesOf
  <2>5. NodesOf(g) \subseteq Addresses
    BY DEF NodesOf
  <2> QED BY <1>1, <1>2, <1>3, <1>f, <2>1, <2>2, <2>3, <2>4, <2>5
<1>8. \A b \in Addresses \ {a, p} : Behind(g, b) = Behind(h, b)
  BY <1>6 DEF SameBut, Behind
<1>9. Behind(g, p) = n
  BY <1>1, <1>3, <1>5, <1>f DEF Behind
<1>10. Tiled(g)
  <2>1. 0 \in NodesOf(g) /\ Top \in NodesOf(g)
    BY <1>7 DEF Tiled
  <2>2. g.node[Top].size = HeadSize /\ g.node[Top].used
    BY <1>1, <1>6, <1>f DEF Tiled, SameBut
  <2>3. \A b \in NodesOf(g) : g.node[b].pre = Null <=> b = 0
    <3>1. ASSUME NEW b \in NodesOf(g) PROVE g.node[b].pre = Null <=> b = 0
      <4>1. CASE b = n
        BY <1>2, <1>5, <4>1, MemoryAssumption
      <4>2. CASE b = p
        BY <1>1, <1>5, <4>2 DEF Tiled
      <4>3. CASE b \notin {n, p}
        BY <1>5, <1>7, <1>f, <3>1, <4>3 DEF Tiled
      <4> QED BY <4>1, <4>2, <4>3
    <3> QED BY <3>1
  <2>4. ASSUME NEW b \in NodesOf(g) \ {Top} PROVE Tile(g, b)
    <3>0. b \in NodesOf(h) \ {Top, a} /\ b \in Addresses /\ Tile(h, b)
      BY <1>7, <1>f, <2>4 DEF Tiled
    <3>1. CASE b = p
      <4>1. g.node[p].size >= HeadSize /\ (g.node[p].size > HeadSize \/ Top = HeadSize)
        BY <1>1, <1>3, <1>5, <1>f, <3>0, <3>1 DEF Tile
      <4>2. n \in NodesOf(g)
        BY <1>2, <1>7
      <4>3. ASSUME NEW c \in NodesOf(g) PROVE c <= p \/ n <= c
        <5>1. c \in NodesOf(h) /\ c # a
          BY <1>7, <4>3
        <5>2. c <= p \/ a <= c
          BY <1>1, <3>0, <3>1, <5>1 DEF Tile
        <5>3. c <= a \/ n <= c
          BY <1>f, <5>1 DEF Tiled, Tile
        <5> QED BY <1>2, <1>f, <5>1, <5>2, <5>3
      <4> QED BY <1>5, <1>9, <3>1, <4>1, <4>2, <4>3 DEF Tile
    <3>2. CASE b # p
      <4>1. Behind(g, b) = Behind(h, b) /\ g.node[b].size = h.node[b].size
        BY <1>6, <1>8, <3>0, <3>2 DEF SameBut
      <4>2. Behind(h, b) # a
        <5>1. Behind(h, b) = a => h.node[a].pre = b
          BY <3>0 DEF Tile
        <5> QED BY <3>2, <5>1
      <4>3. Behind(h, b) # n
        <5>1. h.node[n].pre = a
          BY DEF Tiled, Tile
        <5>2. Behind(h, b) = n => h.node[n].pre = b
          BY <3>0 DEF Tile
        <5> QED BY <3>0, <5>1, <5>2
      <4>4. Behind(h, b) \in NodesOf(g) /\ h.node[Behind(h, b)].pre = b
        BY <1>7, <3>0, <4>2 DEF Tile
      <4>5. g.node[Behind(h, b)].pre = b
        BY <1>5, <1>f, <1>7, <4>2, <4>3, <4>4
      <4>6. \A c \in NodesOf(g) : c <= b \/ Behind(h, b) <= c
        BY <1>7, <3>0 DEF Tile
      <4> QED BY <3>0, <4>1, <4>4, <4>5, <4>6 DEF Tile
    <3> QED BY <3>1, <3>2
  <2>5. ASSUME NEW b \in NodesOf(g) \ {0}
        PROVE  g.node[b].pre \in NodesOf(g) \ {Top} /\ Behind(g, g.node[b].pre) = b
    <3>0. b \in NodesOf(h) \ {0, a} /\ b \in Addresses
      BY <1>7, <1>f, <2>5
    <3>1. CASE b = n
      BY <1>1, <1>3, <1>5, <1>7, <1>9, <3>1
    <3>2. CASE b # n
      <4>1. g.node[b].pre = h.node[b].pre
        BY <1>5, <3>0, <3>2
      <4>2. h.node[b].pre \in NodesOf(h) \ {Top} /\ Behind(h, h.node[b].pre) = b
        BY <3>0 DEF Tiled
      <4>3. h.node[b].pre \notin {a, p}
        BY <1>1, <3>0, <3>2, <4>2
      <4> QED BY <1>7, <1>8, <1>f, <4>1, <4>2, <4>3
    <3> QED BY <3>1, <3>2
  <2> QED BY <2>1, <2>2, <2>3, <2>4, <2>5 DEF Tiled
<1>11. ~g.node[a].used
  BY <1>4, NoNodeType
<1> QED BY <1>1, <1>2, <1>3, <1>4, <1>5, <1>6, <1>7, <1>9, <1>10, <1>11

\* The node a of h is cut at z, k words before its end y.
CutAt(h, a, n, z, k, y) ==
  /\ z = a + n /\ k = h.node[a].size - n /\ y = Behind(h, a)
  /\ z # a /\ y # a /\ y # z

CutTo(g, h, a, n, z, k, y) ==
  /\ HeapType(g) /\ g.free = h.free
  /\ g.node[a].size = n /\ g.node[a].used = h.node[a].used /\ g.node[a].pre = h.node[a].pre
  /\ g.node[z].size = k /\ g.node[z].used = FALSE /\ g.node[z].pre = a
  /\ g.node[y].size = h.node[y].size /\ g.node[y].used = h.node[y].used /\ g.node[y].pre = z
  /\ \A b \in Addresses \ {a, z, y} : g.node[b] = h.node[b]

\* What the first half of osMemSpitNode does to the headers.
LEMMA CutNodes ==
  ASSUME NEW h, HeapType(h), NEW a \in Addresses, NEW n \in Nat, NEW z \in Addresses,
         NEW k \in Nat, NEW y \in Addresses, CutAt(h, a, n, z, k, y), NEW g, g = Cut(h, a, n)
  PROVE  CutTo(g, h, a, n, z, k, y)
<1>1. PICK N \in NodeMaps, F \in ListMaps :
        N = h.node /\ F = h.free /\ h = [node |-> N, free |-> F]
  BY HeapParts
<1>2. PICK r \in NodeRecord : r = [size |-> k, used |-> FALSE, pre |-> a]
  BY DEF NodeRecord
<1>3. g = [[[h EXCEPT !.node[a].size = n] EXCEPT !.node[z] = r] EXCEPT !.node[y].pre = z]
  BY <1>2 DEF Cut, CutAt
<1>4. PICK N1 : N1 = WithSize(N, a, n)
  OBVIOUS
<1>5. PICK N2 : N2 = WithNode(N1, z, r)
  OBVIOUS
<1>6. PICK N3 : N3 = WithPre(N2, y, z)
  OBVIOUS
<1>7. g = [node |-> N3, free |-> F]
  <2>1. PICK h1 : h1 = [h EXCEPT !.node[a].size = n]
    OBVIOUS
  <2>2. PICK h2 : h2 = [h1 EXCEPT !.node[z] = r]
    OBVIOUS
  <2>3. h1 = [node |-> N1, free |-> F]
    BY <1>1, <1>4, <2>1, SizeSet
  <2>4. h2 = [node |-> N2, free |-> F]
    BY <1>5, <2>2, <2>3, NodeSet
  <2>5. g = [h2 EXCEPT !.node[y].pre = z]
    BY <1>3, <2>1, <2>2
  <2> QED BY <1>6, <2>4, <2>5, PreSet
<1>8. /\ N1 \in NodeMaps /\ N1[a] = [size |-> n, used |-> N[a].used, pre |-> N[a].pre]
      /\ \A b \in Addresses \ {a} : N1[b] = N[b]
  BY <1>4, MapSizeSet
<1>9. /\ N2 \in NodeMaps /\ N2[z] = r
      /\ \A b \in Addresses \ {z} : N2[b] = N1[b]
  BY <1>5, <1>8, MapNodeSet
<1>10. /\ N3 \in NodeMaps /\ N3[y] = [size |-> N2[y].size, used |-> N2[y].used, pre |-> z]
       /\ \A b \in Addresses \ {y} : N3[b] = N2[b]
  BY <1>6, <1>9, MapPreSet
<1>11. HeapType(g) /\ g.node = N3 /\ g.free = F
  BY <1>7, <1>10, PartsHeap
<1> QED BY <1>1, <1>2, <1>8, <1>9, <1>10, <1>11 DEF CutAt, CutTo

\* The node a has kept n words, and z is a free node.
CutOff(g, h, a, n, z) ==
  /\ HeapType(g) /\ Tiled(g) /\ g.free = h.free
  /\ NodesOf(g) = NodesOf(h) \cup {z}
  /\ z \in Addresses \ {0, Top} /\ z \notin NodesOf(h)
  /\ Behind(g, a) = z /\ Behind(g, z) = Behind(h, a) /\ a < z
  /\ SameBut(g, h, {a, z})
  /\ g.node[a].size = n /\ g.node[a].used = h.node[a].used
  /\ ~g.node[z].used

\* It keeps the tiling: one node more, which ends where the node that is cut did.
LEMMA CutTiled ==
  ASSUME NEW h, HeapType(h), Tiled(h), NEW a \in NodesOf(h) \ {Top},
         NEW n \in Nat, HeadSize < n, n + HeadSize < h.node[a].size,
         NEW z, z = a + n, NEW g, g = Cut(h, a, n)
  PROVE  CutOff(g, h, a, n, z)
<1>f. /\ Top \in Nat /\ 0 \in Addresses /\ Top \in Addresses /\ HeadSize \in Nat /\ HeadSize > 0
      /\ NodesOf(h) \subseteq Addresses
      /\ \A b \in Addresses : /\ b \in Nat /\ b <= Top /\ h.node[b] \in NodeRecord
                              /\ h.node[b].size \in Nat /\ h.node[b].used \in BOOLEAN
                              /\ Behind(h, b) = b + h.node[b].size
      /\ \A b \in NodesOf(h) \ {Top} :
           /\ Behind(h, b) \in NodesOf(h) \ {0} /\ b < Behind(h, b)
           /\ h.node[b].size > 0
  BY NodeFacts
<1>y. PICK y : y = Behind(h, a)
  OBVIOUS
<1>k. PICK k : k = h.node[a].size - n
  OBVIOUS
<1>1. /\ a \in Addresses /\ a \in Nat /\ y \in NodesOf(h) \ {0} /\ y \in Addresses /\ y \in Nat
      /\ y <= Top /\ y = a + h.node[a].size /\ k \in Nat /\ k > HeadSize
      /\ h.node[a].size \in Nat
  <2>1. a \in Addresses /\ a \in Nat /\ h.node[a].size \in Nat
    BY <1>f
  <2>2. y \in NodesOf(h) \ {0}
    BY <1>f, <1>y
  <2>3. y \in Addresses /\ y \in Nat /\ y <= Top
    BY <1>f, <2>2
  <2>4. y = a + h.node[a].size
    BY <1>f, <1>y
  <2>5. k \in Nat /\ k > HeadSize
    <3>1. PICK s \in Nat : s = h.node[a].size
      BY <2>1
    <3> QED BY <1>f, <1>k, <3>1
  <2> QED BY <2>1, <2>2, <2>3, <2>4, <2>5
<1>2. a < z /\ z < y /\ z \in Addresses \ {0, Top} /\ z + k = y /\ z \in Nat
  BY <1>1, <1>f, <1>k DEF Addresses
<1>3. /\ HeapType(g) /\ g.free = h.free
      /\ g.node[a].size = n /\ g.node[a].used = h.node[a].used /\ g.node[a].pre = h.node[a].pre
      /\ g.node[z].size = k /\ g.node[z].used = FALSE /\ g.node[z].pre = a
      /\ g.node[y].size = h.node[y].size /\ g.node[y].used = h.node[y].used /\ g.node[y].pre = z
      /\ \A b \in Addresses \ {a, z, y} : g.node[b] = h.node[b]
  <2>1. z # a /\ y # a /\ y # z
    BY <1>1, <1>2
  <2>2. CutAt(h, a, n, z, k, y)
    BY <1>1, <1>k, <1>y, <2>1 DEF CutAt
  <2>3. CutTo(g, h, a, n, z, k, y)
    BY <1>1, <1>2, <2>2, CutNodes
  <2> QED BY <2>3 DEF CutTo
<1>5. z \notin NodesOf(h)
  <2>1. \A b \in NodesOf(h) : b <= a \/ y <= b
    BY <1>y DEF Tiled, Tile
  <2> QED BY <1>1, <1>2, <2>1
<1>6. SameBut(g, h, {a, z})
  BY <1>3 DEF SameBut
<1>7. NodesOf(g) = NodesOf(h) \cup {z}
  <2>1. z \in NodesOf(g)
    BY <1>1, <1>2, <1>3, <1>f, IsNode
  <2>2. a \in NodesOf(g)
    BY <1>1, <1>3, <1>f, IsNode
  <2>3. y \in NodesOf(g)
    <3>1. h.node[y].size > 0
      <4>1. CASE y = Top
        BY <1>f, <4>1 DEF Tiled
      <4>2. CASE y # Top
        BY <1>1, <1>f, <4>2
      <4> QED BY <4>1, <4>2
    <3> QED BY <1>1, <1>3, <1>f, <3>1, IsNode
  <2>4. \A b \in Addresses \ {a, z, y} : b \in NodesOf(g) <=> b \in NodesOf(h)
    BY <1>3 DEF NodesOf
  <2>5. NodesOf(g) \subseteq Addresses
    BY DEF NodesOf
  <2> QED BY <1>1, <1>2, <1>f, <2>1, <2>2, <2>3, <2>4, <2>5
<1>8. /\ \A b \in Addresses \ {a, z} : Behind(g, b) = Behind(h, b)
      /\ Behind(g, a) = z /\ Behind(g, z) = y
  <2>1. \A b \in Addresses \ {a, z} : Behind(g, b) = Behind(h, b)
    BY <1>6 DEF SameBut, Behind
  <2> QED BY <1>2, <1>3, <2>1 DEF Behind
<1>9. Tiled(g)
  <2>1. 0 \in NodesOf(g) /\ Top \in NodesOf(g)
    BY <1>7 DEF Tiled
  <2>2. g.node[Top].size = HeadSize /\ g.node[Top].used
    BY <1>2, <1>6, <1>f DEF Tiled, SameBut
  <2>3. ASSUME NEW b \in NodesOf(g) PROVE g.node[b].pre = Null <=> b = 0
    <3>1. CASE b = y
      BY <1>1, <1>2, <1>3, <3>1, MemoryAssumption
    <3>2. CASE b = z
      BY <1>1, <1>2, <1>3, <3>2, MemoryAssumption
    <3>3. CASE b = a
      BY <1>3, <3>3 DEF Tiled
    <3>4. CASE b \notin {a, y, z}
      <4>1. b \in NodesOf(h) /\ b \in Addresses
        BY <1>7, <1>f, <2>3, <3>4
      <4>2. g.node[b] = h.node[b]
        BY <1>3, <3>4, <4>1
      <4> QED BY <4>1, <4>2 DEF Tiled
    <3> QED BY <3>1, <3>2, <3>3, <3>4
  <2>4. ASSUME NEW b \in NodesOf(g) \ {Top} PROVE Tile(g, b)
    <3>0. \A c \in NodesOf(h) : c <= a \/ y <= c
      BY <1>y DEF Tiled, Tile
    <3>1. CASE b = a
      <4>1. ASSUME NEW c \in NodesOf(g) PROVE c <= a \/ z <= c
        <5>1. CASE c = z
          BY <1>2, <5>1
        <5>2. CASE c # z
          <6>1. c \in NodesOf(h) /\ c \in Nat
            BY <1>7, <1>f, <4>1, <5>2
          <6>2. c <= a \/ y <= c
            BY <3>0, <6>1
          <6> QED BY <1>1, <1>2, <6>1, <6>2
        <5> QED BY <5>1, <5>2
      <4> QED BY <1>1, <1>2, <1>3, <1>7, <1>8, <1>f, <3>1, <4>1 DEF Tile
    <3>2. CASE b = z
      <4>1. ASSUME NEW c \in NodesOf(g) PROVE c <= z \/ y <= c
        <5>1. CASE c = z
          BY <1>2, <5>1
        <5>2. CASE c # z
          <6>1. c \in NodesOf(h) /\ c \in Nat
            BY <1>7, <1>f, <4>1, <5>2
          <6>2. c <= a \/ y <= c
            BY <3>0, <6>1
          <6> QED BY <1>1, <1>2, <6>1, <6>2
        <5> QED BY <5>1, <5>2
      <4> QED BY <1>1, <1>2, <1>3, <1>7, <1>8, <1>f, <3>2, <4>1 DEF Tile
    <3>3. CASE b \notin {a, z}
      <4>0. b \in NodesOf(h) \ {Top, a} /\ b \in Addresses /\ Tile(h, b)
        BY <1>7, <1>f, <2>4, <3>3 DEF Tiled
      <4>1. Behind(g, b) = Behind(h, b) /\ g.node[b].size = h.node[b].size
        BY <1>6, <1>8, <3>3, <4>0 DEF SameBut
      <4>2. Behind(h, b) # y
        <5>1. h.node[y].pre = a
          BY <1>y DEF Tiled, Tile
        <5>2. Behind(h, b) = y => h.node[y].pre = b
          BY <4>0 DEF Tile
        <5> QED BY <4>0, <5>1, <5>2
      <4>3. Behind(h, b) \in NodesOf(h) /\ h.node[Behind(h, b)].pre = b
        BY <4>0 DEF Tile
      <4>4. g.node[Behind(h, b)].pre = b
        <5>1. CASE Behind(h, b) = a
          BY <1>3, <4>3, <5>1
        <5>2. CASE Behind(h, b) # a
          BY <1>3, <1>5, <1>f, <4>2, <4>3, <5>2
        <5> QED BY <5>1, <5>2
      <4>5. ASSUME NEW c \in NodesOf(g) PROVE c <= b \/ Behind(h, b) <= c
        <5>1. CASE c # z
          BY <1>7, <4>0, <4>5, <5>1 DEF Tile
        <5>2. CASE c = z
          <6>1. a <= b \/ Behind(h, b) <= a
            BY <4>0 DEF Tile
          <6>2. b <= a \/ y <= b
            BY <3>0, <4>0
          <6>3. b # a /\ b \in Nat /\ Behind(h, b) \in Nat
            BY <1>f, <4>0, <4>3
          <6> QED BY <1>1, <1>2, <5>2, <6>1, <6>2, <6>3
        <5> QED BY <5>1, <5>2
      <4> QED BY <1>7, <4>0, <4>1, <4>3, <4>4, <4>5 DEF Tile
    <3> QED BY <3>1, <3>2, <3>3
  <2>5. ASSUME NEW b \in NodesOf(g) \ {0}
        PROVE  g.node[b].pre \in NodesOf(g) \ {Top} /\ Behind(g, g.node[b].pre) = b
    <3>1. CASE b = y
      BY <1>2, <1>3, <1>7, <1>8, <3>1
    <3>2. CASE b = z
      BY <1>3, <1>7, <1>8, <3>2
    <3>3. CASE b \notin {y, z}
      <4>0. b \in NodesOf(h) \ {0} /\ b \in Addresses
        BY <1>7, <1>f, <2>5, <3>3
      <4>1. g.node[b].pre = h.node[b].pre
        BY <1>3, <3>3, <4>0
      <4>2. h.node[b].pre \in NodesOf(h) \ {Top} /\ Behind(h, h.node[b].pre) = b
        BY <4>0 DEF Tiled
      <4>3. h.node[b].pre \notin {a, z}
        BY <1>5, <1>y, <3>3, <4>2
      <4> QED BY <1>7, <1>8, <1>f, <4>1, <4>2, <4>3
    <3> QED BY <3>1, <3>2, <3>3
  <2> QED BY <2>1, <2>2, <2>3, <2>4, <2>5 DEF Tiled
<1> QED BY <1>2, <1>3, <1>5, <1>6, <1>7, <1>8, <1>9, <1>y DEF CutOff

\* Taking a node into use, or out of it.
SetUsed(h, a, u) == [h EXCEPT !.node[a].used = u]

Switched(g, h, a, u) ==
  /\ HeapType(g) /\ Tiled(g) /\ g.free = h.free
  /\ NodesOf(g) = NodesOf(h)
  /\ SameBut(g, h, {a}) /\ g.node[a].size = h.node[a].size /\ g.node[a].used = u
  /\ \A b \in Addresses : Behind(g, b) = Behind(h, b) /\ g.node[b].pre = h.node[b].pre

\* The used flag does not matter to the tiling.
LEMMA UsedTiled ==
  ASSUME NEW h, HeapType(h), Tiled(h), NEW a \in NodesOf(h) \ {Top}, NEW u \in BOOLEAN,
         NEW g, g = SetUsed(h, a, u)
  PROVE  Switched(g, h, a, u)
<1>f. /\ 0 \in Addresses /\ Top \in Addresses
      /\ NodesOf(h) \subseteq Addresses
      /\ \A b \in NodesOf(h) \ {Top} : Behind(h, b) \in NodesOf(h) /\ h.node[b].size > 0
  BY NodeFacts
<1>1. PICK N \in NodeMaps, F \in ListMaps :
        N = h.node /\ F = h.free /\ h = [node |-> N, free |-> F]
  BY HeapParts
<1>2. PICK M : M = WithUsed(N, a, u)
  OBVIOUS
<1>3. g = [node |-> M, free |-> F]
  BY <1>1, <1>2, UsedSet DEF SetUsed
<1>4. /\ M \in NodeMaps /\ M[a] = [size |-> N[a].size, used |-> u, pre |-> N[a].pre]
      /\ \A b \in Addresses \ {a} : M[b] = N[b]
  BY <1>2, <1>f, MapUsedSet
<1>5. HeapType(g) /\ g.node = M /\ g.free = F
  BY <1>3, <1>4, PartsHeap
<1>6. /\ g.node[a].size = h.node[a].size /\ g.node[a].used = u /\ g.node[a].pre = h.node[a].pre
      /\ \A b \in Addresses \ {a} : g.node[b] = h.node[b]
  BY <1>1, <1>4, <1>5
<1>7. \A b \in Addresses : g.node[b].size = h.node[b].size /\ g.node[b].pre = h.node[b].pre
  BY <1>6
<1>8. \A b \in Addresses : Behind(g, b) = Behind(h, b)
  BY <1>7 DEF Behind
<1>9. NodesOf(g) = NodesOf(h)
  <2>1. a \in NodesOf(g)
    <3>1. a \in Addresses /\ h.node[a].size > 0
      BY <1>f
    <3>2. g.node[a].size # 0
      BY <1>6, <3>1
    <3> QED BY <3>1, <3>2, IsNode
  <2>2. \A b \in Addresses \ {a} : b \in NodesOf(g) <=> b \in NodesOf(h)
    BY <1>6 DEF NodesOf
  <2>3. NodesOf(g) \subseteq Addresses
    BY DEF NodesOf
  <2> QED BY <1>f, <2>1, <2>2, <2>3
<1>10. Tiled(g)
  <2>1. g.node[Top].size = HeadSize /\ g.node[Top].used
    BY <1>6, <1>f DEF Tiled
  <2>2. ASSUME NEW b \in NodesOf(h) \ {Top} PROVE Tile(g, b)
    BY <1>7, <1>8, <1>9, <1>f, <2>2 DEF Tiled, Tile
  <2>3. \A b \in NodesOf(h) : g.node[b].pre = Null <=> b = 0
    BY <1>7, <1>f DEF Tiled
  <2>4. \A b \in NodesOf(h) \ {0} :
          g.node[b].pre \in NodesOf(h) \ {Top} /\ Behind(g, g.node[b].pre) = b
    BY <1>7, <1>8, <1>f DEF Tiled
  <2>5. 0 \in NodesOf(h) /\ Top \in NodesOf(h)
    BY DEF Tiled
  <2> QED BY <1>9, <2>1, <2>2, <2>3, <2>4, <2>5 DEF Tiled
<1> QED BY <1>1, <1>5, <1>6, <1>7, <1>8, <1>9, <1>10 DEF SameBut, Switched

-----------------------------------------------------------------------------
(***************************************************************************)
(* The lists of the free nodes.                                            *)
(***************************************************************************)
InNoList(h, x) == \A c \in Classes : x \notin Range(h.free[c])

FreeOf(h, c) == {a \in NodesOf(h) : ~h.node[a].used /\ ClassOf[h.node[a].size] = c}

\* Each list has the free nodes of its class, each once; nothing is said of X.
ListedBut(h, X) ==
  \A c \in Classes : /\ IsInjective(h.free[c])
                     /\ Range(h.free[c]) \ X = FreeOf(h, c) \ X

\* Behind a free node is a used one; nothing is said of the free nodes in X.
Alone(h, X) ==
  \A b \in NodesOf(h) \ X : ~h.node[b].used => h.node[Behind(h, b)].used

Sound(h, X) == HeapType(h) /\ Tiled(h) /\ ListedBut(h, X) /\ Alone(h, X)

\* Outside A the same nodes are used, and end where they did.
KeepsUsed(g, h, A) ==
  \A b \in Addresses \ A :
    /\ g.node[b].used = h.node[b].used
    /\ h.node[b].used => g.node[b].size = h.node[b].size

\* All of that depends on the headers only.
LEMMA SameNodes ==
  ASSUME NEW h, NEW g, g.node = h.node
  PROVE  /\ NodesOf(g) = NodesOf(h)
         /\ \A b : Behind(g, b) = Behind(h, b)
         /\ \A c : FreeOf(g, c) = FreeOf(h, c)
         /\ Tiled(h) => Tiled(g)
         /\ \A X : Alone(h, X) => Alone(g, X)
         /\ \A A : KeepsUsed(g, h, A)
<1>1. NodesOf(g) = NodesOf(h)
  BY DEF NodesOf
<1>2. \A b : Behind(g, b) = Behind(h, b)
  BY DEF Behind
<1>3. \A c : FreeOf(g, c) = FreeOf(h, c)
  BY <1>1 DEF FreeOf
<1>4. ASSUME Tiled(h) PROVE Tiled(g)
  <2>1. \A a : Tile(h, a) => Tile(g, a)
    BY <1>1, <1>2 DEF Tile
  <2> QED BY <1>1, <1>2, <1>4, <2>1 DEF Tiled
<1>5. \A X : Alone(h, X) => Alone(g, X)
  BY <1>1, <1>2 DEF Alone
<1>6. \A A : KeepsUsed(g, h, A)
  BY DEF KeepsUsed
<1> QED BY <1>1, <1>2, <1>3, <1>4, <1>5, <1>6

\* LOS_ListDelete changes no header.
LEMMA TakeLists ==
  ASSUME NEW h, HeapType(h), NEW x, NEW g, g = Take(h, x)
  PROVE  /\ HeapType(g) /\ g.node = h.node
         /\ \A c \in Classes : g.free[c] = Without(h.free[c], x)
<1>1. PICK N \in NodeMaps, F \in ListMaps :
        N = h.node /\ F = h.free /\ h = [node |-> N, free |-> F]
  BY HeapParts
<1>2. PICK G : G = [c \in Classes |-> Without(F[c], x)]
  OBVIOUS
<1>3. g = [node |-> N, free |-> G]
  BY <1>1, <1>2 DEF Take
<1>4. G \in ListMaps
  <2>1. ASSUME NEW c \in Classes PROVE Without(F[c], x) \in Seq(Addresses)
    <3>1. F[c] \in Seq(Addresses)
      BY DEF ListMaps
    <3> QED BY <3>1, WithoutFacts
  <2> QED BY <1>2, <2>1 DEF ListMaps
<1>5. HeapType(g) /\ g.node = N /\ g.free = G
  BY <1>3, <1>4, PartsHeap
<1> QED BY <1>1, <1>2, <1>5

\* A node taken out of its list is in none, and the lists are right but for it.
LEMMA TakeSound ==
  ASSUME NEW h, NEW X, Sound(h, X), NEW x, NEW g, g = Take(h, x)
  PROVE  /\ Sound(g, X \cup {x}) /\ g.node = h.node
         /\ InNoList(g, x)
         /\ \A y : InNoList(h, y) => InNoList(g, y)
<1>1. /\ HeapType(g) /\ g.node = h.node
      /\ \A c \in Classes : g.free[c] = Without(h.free[c], x)
  BY TakeLists DEF Sound
<1>2. ASSUME NEW c \in Classes
      PROVE  IsInjective(g.free[c]) /\ Range(g.free[c]) = Range(h.free[c]) \ {x}
  <2>1. h.free[c] \in Seq(Addresses) /\ IsInjective(h.free[c])
    BY DEF Sound, HeapType, ListMaps, ListedBut
  <2>2. PICK s \in Seq(Addresses) : s = h.free[c] /\ IsInjective(s)
    BY <2>1
  <2>3. IsInjective(Without(s, x)) /\ Range(Without(s, x)) = Range(s) \ {x}
    BY <2>2, WithoutFacts
  <2> QED BY <1>1, <2>2, <2>3
<1>3. /\ NodesOf(g) = NodesOf(h) /\ Tiled(g) /\ Alone(g, X)
      /\ \A c : FreeOf(g, c) = FreeOf(h, c)
  BY <1>1, SameNodes DEF Sound
<1>4. Alone(g, X \cup {x})
  BY <1>3 DEF Alone
<1>5. ListedBut(g, X \cup {x})
  <2>1. ASSUME NEW c \in Classes
        PROVE  Range(g.free[c]) \ (X \cup {x}) = FreeOf(g, c) \ (X \cup {x})
    <3>1. Range(h.free[c]) \ X = FreeOf(h, c) \ X
      BY DEF Sound, ListedBut
    <3>2. Range(g.free[c]) = Range(h.free[c]) \ {x} /\ FreeOf(g, c) = FreeOf(h, c)
      BY <1>2, <1>3
    <3> QED BY <3>1, <3>2
  <2> QED BY <1>2, <2>1 DEF ListedBut
<1>6. InNoList(g, x)
  BY <1>2 DEF InNoList
<1>7. \A y : InNoList(h, y) => InNoList(g, y)
  BY <1>2 DEF InNoList
<1> QED BY <1>1, <1>3, <1>4, <1>5, <1>6, <1>7 DEF Sound

PutTo(g, h, x, d) ==
  /\ HeapType(g) /\ g.node = h.node
  /\ g.free[d] = <<x>> \o h.free[d]
  /\ \A c \in Classes \ {d} : g.free[c] = h.free[c]

\* LOS_ListAdd changes one list and no header.
LEMMA PutLists ==
  ASSUME NEW h, HeapType(h), NEW x \in Addresses, NEW d \in Classes,
         d = ClassOf[h.node[x].size], NEW g, g = Put(h, x)
  PROVE  PutTo(g, h, x, d)
<1>1. PICK N \in NodeMaps, F \in ListMaps :
        N = h.node /\ F = h.free /\ h = [node |-> N, free |-> F]
  BY HeapParts
<1>2. PICK t : t = <<x>> \o F[d]
  OBVIOUS
<1>3. PICK G : G = [F EXCEPT ![d] = t]
  OBVIOUS
<1>4. t \in Seq(Addresses)
  <2>1. F[d] \in Seq(Addresses)
    BY DEF ListMaps
  <2> QED BY <1>2, <2>1, ConsFacts
<1>5. G \in ListMaps /\ G[d] = t /\ \A c \in Classes \ {d} : G[c] = F[c]
  BY <1>3, <1>4 DEF ListMaps
<1>6. g = [h EXCEPT !.free[d] = t]
  BY <1>1, <1>2 DEF Put
<1>7. g = [node |-> N, free |-> G]
  BY <1>1, <1>3, <1>6
<1>8. HeapType(g) /\ g.node = N /\ g.free = G
  BY <1>5, <1>7, PartsHeap
<1> QED BY <1>1, <1>2, <1>5, <1>8 DEF PutTo

\* No node is larger than the pool.
LEMMA SizeFits ==
  ASSUME NEW h, HeapType(h), Tiled(h), NEW a \in NodesOf(h)
  PROVE  h.node[a].size \in 0 .. Top
<1>f. /\ Top \in Nat /\ Top \in Addresses /\ HeadSize \in Nat /\ a \in Addresses
      /\ NodesOf(h) \subseteq Addresses
      /\ \A b \in Addresses : /\ b \in Nat /\ b <= Top
                              /\ h.node[b].size \in Nat
                              /\ Behind(h, b) = b + h.node[b].size
  BY NodeFacts
<1>1. CASE a = Top
  BY <1>f, <1>1, MemoryAssumption DEF Tiled
<1>2. CASE a # Top
  <2>1. Behind(h, a) \in Addresses
    BY <1>2, <1>f DEF Tiled, Tile
  <2>2. a + h.node[a].size <= Top /\ a \in Nat /\ h.node[a].size \in Nat
    BY <1>f, <2>1
  <2> QED BY <1>f, <2>2
<1> QED BY <1>1, <1>2

\* A free node put into the list of its size completes the lists.
LEMMA PutSound ==
  ASSUME NEW h, NEW X, NEW x, Sound(h, X \cup {x}), x \in NodesOf(h),
         ~h.node[x].used, InNoList(h, x), h.node[Behind(h, x)].used,
         NEW g, g = Put(h, x)
  PROVE  /\ Sound(g, X) /\ g.node = h.node
         /\ \A y : InNoList(h, y) /\ y # x => InNoList(g, y)
<1>0. HeapType(h) /\ Tiled(h) /\ x \in Addresses
  BY DEF Sound, NodesOf
<1>1. PICK d \in Classes : d = ClassOf[h.node[x].size]
  <2>1. h.node[x].size \in 0 .. Top
    BY <1>0, SizeFits
  <2> QED BY <2>1, ClassFacts
<1>2. /\ HeapType(g) /\ g.node = h.node
      /\ g.free[d] = <<x>> \o h.free[d]
      /\ \A c \in Classes \ {d} : g.free[c] = h.free[c]
  <2>1. PutTo(g, h, x, d)
    BY <1>0, <1>1, PutLists
  <2> QED BY <2>1 DEF PutTo
<1>3. /\ NodesOf(g) = NodesOf(h) /\ Tiled(g) /\ Alone(g, X \cup {x})
      /\ \A c : FreeOf(g, c) = FreeOf(h, c)
      /\ \A b : Behind(g, b) = Behind(h, b)
  BY <1>2, SameNodes DEF Sound
<1>4. Alone(g, X)
  BY <1>2, <1>3 DEF Alone
<1>5. /\ Range(g.free[d]) = Range(h.free[d]) \cup {x}
      /\ IsInjective(g.free[d])
  <2>1. PICK s \in Seq(Addresses) : s = h.free[d] /\ IsInjective(s) /\ x \notin Range(s)
    BY DEF Sound, HeapType, ListMaps, ListedBut, InNoList
  <2>2. Range(<<x>> \o s) = Range(s) \cup {x} /\ IsInjective(<<x>> \o s)
    BY <1>0, <2>1, ConsFacts
  <2> QED BY <1>2, <2>1, <2>2
<1>6. ListedBut(g, X)
  <2>1. ASSUME NEW c \in Classes
        PROVE  IsInjective(g.free[c]) /\ Range(g.free[c]) \ X = FreeOf(g, c) \ X
    <3>0. /\ IsInjective(h.free[c])
          /\ Range(h.free[c]) \ (X \cup {x}) = FreeOf(h, c) \ (X \cup {x})
          /\ x \notin Range(h.free[c])
      BY DEF Sound, ListedBut, InNoList
    <3>1. CASE c = d
      <4>1. x \in FreeOf(h, c)
        BY <1>1, <3>1 DEF FreeOf
      <4> QED BY <1>3, <1>5, <3>0, <3>1, <4>1
    <3>2. CASE c # d
      <4>1. x \notin FreeOf(h, c)
        BY <1>1, <3>2 DEF FreeOf
      <4>2. g.free[c] = h.free[c]
        BY <1>2, <3>2
      <4> QED BY <1>3, <3>0, <4>1, <4>2
    <3> QED BY <3>1, <3>2
  <2> QED BY <2>1 DEF ListedBut
<1>7. ASSUME NEW y, InNoList(h, y), y # x PROVE InNoList(g, y)
  <2>1. ASSUME NEW c \in Classes PROVE y \notin Range(g.free[c])
    <3>1. CASE c = d
      BY <1>5, <1>7, <3>1 DEF InNoList
    <3>2. CASE c # d
      BY <1>2, <1>7, <3>2 DEF InNoList
    <3> QED BY <3>1, <3>2
  <2> QED BY <2>1 DEF InNoList
<1> QED BY <1>2, <1>3, <1>4, <1>6, <1>7 DEF Sound

-----------------------------------------------------------------------------
(***************************************************************************)
(* The steps of the functions.                                             *)
(***************************************************************************)
\* One step after another.
LEMMA KeepsOn ==
  ASSUME NEW f, NEW g, NEW h, NEW A, KeepsUsed(f, g, A), KeepsUsed(g, h, A)
  PROVE  KeepsUsed(f, h, A)
BY DEF KeepsUsed

\* Nothing is said of more of them.
LEMMA SoundBut ==
  ASSUME NEW h, NEW X, NEW Y, X \subseteq Y, Sound(h, X)
  PROVE  Sound(h, Y)
<1>1. ListedBut(h, Y)
  <2>1. ASSUME NEW c \in Classes
        PROVE  IsInjective(h.free[c]) /\ Range(h.free[c]) \ Y = FreeOf(h, c) \ Y
    <3>1. IsInjective(h.free[c]) /\ Range(h.free[c]) \ X = FreeOf(h, c) \ X
      BY DEF Sound, ListedBut
    <3> QED BY <3>1
  <2> QED BY <2>1 DEF ListedBut
<1>2. Alone(h, Y)
  BY DEF Sound, Alone
<1> QED BY <1>1, <1>2 DEF Sound

\* A used node is in no list.
LEMMA SoundUsed ==
  ASSUME NEW h, NEW a, Sound(h, {a}), InNoList(h, a), h.node[a].used
  PROVE  Sound(h, {})
<1>1. ListedBut(h, {})
  <2>1. ASSUME NEW c \in Classes
        PROVE  IsInjective(h.free[c]) /\ Range(h.free[c]) \ {} = FreeOf(h, c) \ {}
    <3>1. IsInjective(h.free[c]) /\ Range(h.free[c]) \ {a} = FreeOf(h, c) \ {a}
      BY DEF Sound, ListedBut
    <3>2. a \notin Range(h.free[c]) /\ a \notin FreeOf(h, c)
      BY DEF InNoList, FreeOf
    <3> QED BY <3>1, <3>2
  <2> QED BY <2>1 DEF ListedBut
<1>2. Alone(h, {})
  BY DEF Sound, Alone
<1> QED BY <1>1, <1>2 DEF Sound

\* Neither a used node nor an address where none is is in a list.
LEMMA UsedNotListed ==
  ASSUME NEW h, NEW X, Sound(h, X), NEW a, a \notin X, a \notin NodesOf(h) \/ h.node[a].used
  PROVE  InNoList(h, a)
<1>1. ASSUME NEW c \in Classes PROVE a \notin Range(h.free[c])
  <2>1. Range(h.free[c]) \ X = FreeOf(h, c) \ X
    BY DEF Sound, ListedBut
  <2>2. a \notin FreeOf(h, c)
    BY DEF FreeOf
  <2> QED BY <2>1, <2>2
<1> QED BY <1>1 DEF InNoList

\* The node b has become part of the node p.
Merged(g, h, X, b, p) ==
  /\ Sound(g, X) /\ KeepsUsed(g, h, {p}) /\ SameBut(g, h, {b, p})
  /\ p \in NodesOf(g) \ {Top} /\ g.node[p].used = h.node[p].used
  /\ g.node[p].size = h.node[p].size + h.node[b].size
  /\ Behind(h, p) = b /\ Behind(g, p) = Behind(h, b)
  /\ g.node[Behind(h, b)].used = h.node[Behind(h, b)].used
  /\ \A y : InNoList(h, y) => InNoList(g, y)

\* osMemMergeNode of a free node that was taken out of its list.
LEMMA MergeSound ==
  ASSUME NEW h, NEW X, NEW b, Sound(h, X \cup {b}), b \in NodesOf(h) \ {0, Top},
         b \notin X, ~h.node[b].used, InNoList(h, b),
         NEW p, p = h.node[b].pre, p \in X, NEW g, g = Merge(h, b)
  PROVE  Merged(g, h, X, b, p)
<1>n. PICK n : n = Behind(h, b)
  OBVIOUS
<1>1. /\ HeapType(g) /\ Tiled(g) /\ g.free = h.free
      /\ NodesOf(g) = NodesOf(h) \ {b}
      /\ p \in NodesOf(h) \ {Top, b} /\ n \in NodesOf(h) \ {0, b, p} /\ Behind(h, p) = b
      /\ SameBut(g, h, {b, p}) /\ ~g.node[b].used
      /\ g.node[p].size = h.node[p].size + h.node[b].size
      /\ g.node[p].used = h.node[p].used
      /\ Behind(g, p) = n
  BY <1>n, MergeTiled DEF Sound
<1>2. \A y \in Addresses \ {b, p} :
        g.node[y].size = h.node[y].size /\ g.node[y].used = h.node[y].used
  BY <1>1 DEF SameBut
<1>3. NodesOf(h) \subseteq Addresses
  BY DEF NodesOf
<1>4. KeepsUsed(g, h, {p})
  <2>1. ASSUME NEW y \in Addresses \ {p}
        PROVE  /\ g.node[y].used = h.node[y].used
               /\ h.node[y].used => g.node[y].size = h.node[y].size
    <3>1. CASE y = b
      <4>1. h.node[b].used \in BOOLEAN /\ g.node[b].used \in BOOLEAN
        BY <1>1, <2>1, <3>1 DEF HeapType, NodeMaps, NodeRecord, Sound
      <4> QED BY <1>1, <3>1, <4>1
    <3>2. CASE y # b
      BY <1>2, <3>2
    <3> QED BY <3>1, <3>2
  <2> QED BY <2>1 DEF KeepsUsed
<1>5. ListedBut(g, X)
  <2>1. ASSUME NEW c \in Classes
        PROVE  IsInjective(g.free[c]) /\ Range(g.free[c]) \ X = FreeOf(g, c) \ X
    <3>1. /\ IsInjective(g.free[c]) /\ g.free[c] = h.free[c]
          /\ Range(h.free[c]) \ (X \cup {b}) = FreeOf(h, c) \ (X \cup {b})
          /\ b \notin Range(h.free[c])
      BY <1>1 DEF Sound, ListedBut, InNoList
    <3>2. b \notin FreeOf(g, c)
      BY <1>1 DEF FreeOf
    <3>3. \A y \in Addresses \ {b, p} : y \in FreeOf(g, c) <=> y \in FreeOf(h, c)
      BY <1>1, <1>2 DEF FreeOf
    <3>4. FreeOf(g, c) \subseteq Addresses /\ FreeOf(h, c) \subseteq Addresses
      BY DEF FreeOf, NodesOf
    <3> QED BY <3>1, <3>2, <3>3, <3>4
  <2> QED BY <2>1 DEF ListedBut
<1>6. Alone(g, X)
  <2>1. ASSUME NEW y \in NodesOf(g) \ X, ~g.node[y].used PROVE g.node[Behind(g, y)].used
    <3>1. y \in NodesOf(h) \ (X \cup {b}) /\ y \in Addresses \ {b, p}
      BY <1>1, <1>3, <2>1
    <3>2. g.node[y].size = h.node[y].size /\ ~h.node[y].used
      BY <1>2, <2>1, <3>1
    <3>3. Behind(g, y) = Behind(h, y) /\ h.node[Behind(h, y)].used
      BY <3>1, <3>2 DEF Sound, Alone, Behind
    <3>4. y # Top
      BY <1>1, <2>1 DEF Tiled
    <3>5. Behind(h, y) \in NodesOf(g)
      BY <1>1, <2>1, <3>3, <3>4 DEF Tiled, Tile
    <3>6. Behind(h, y) \in Addresses
      BY <1>1, <1>3, <3>5
    <3> QED BY <1>1, <1>2, <3>3, <3>5, <3>6
  <2> QED BY <2>1 DEF Alone
<1>7. g.node[n].used = h.node[n].used
  BY <1>1, <1>2, <1>3
<1>8. \A y : InNoList(h, y) => InNoList(g, y)
  BY <1>1 DEF InNoList
<1> QED BY <1>1, <1>4, <1>5, <1>6, <1>7, <1>8, <1>n DEF Sound, Merged

\* The node x has taken up the one behind it if that was free.
Grown(g, h, X, x) ==
  /\ Sound(g, X) /\ KeepsUsed(g, h, {x}) /\ SameBut(g, h, {x, Behind(h, x)})
  /\ x \in NodesOf(g) \ {Top} /\ g.node[x].used = h.node[x].used
  /\ g.node[x].size >= h.node[x].size
  /\ ~h.node[Behind(h, x)].used =>
       g.node[x].size = h.node[x].size + h.node[Behind(h, x)].size
  /\ g.node[Behind(g, x)].used
  /\ \A y : InNoList(h, y) => InNoList(g, y)

\* The same for the node behind x if it is free: then what is behind x is used.
LEMMA MergeNextSound ==
  ASSUME NEW h, NEW X, Sound(h, X), NEW x \in NodesOf(h) \ {Top}, x \in X,
         Behind(h, x) \notin X, NEW g, g = MergeNext(h, x)
  PROVE  Grown(g, h, X, x)
<1>b. PICK b : b = Behind(h, x)
  OBVIOUS
<1>0. /\ HeapType(h) /\ Tiled(h) /\ b \in NodesOf(h) \ {0} /\ b \in Addresses /\ x \in Addresses
      /\ h.node[x].size \in Nat /\ h.node[b].size \in Nat /\ h.node[b].pre = x
  <2>1. HeapType(h) /\ Tiled(h)
    BY DEF Sound
  <2>2. h.node[b].pre = x
    BY <1>b, <2>1 DEF Tiled, Tile
  <2> QED BY <1>b, <2>1, <2>2, NodeFacts
<1>1. CASE h.node[b].used
  <2>1. g = h
    BY <1>1, <1>b DEF MergeNext, IsUsed
  <2> QED BY <1>0, <1>1, <1>b, <2>1 DEF KeepsUsed, SameBut, Grown
<1>2. CASE ~h.node[b].used
  <2>1. PICK k : k = Take(h, b)
    OBVIOUS
  <2>2. g = Merge(k, b)
    BY <1>2, <1>b, <2>1 DEF MergeNext, IsUsed
  <2>3. /\ Sound(k, X \cup {b}) /\ k.node = h.node /\ InNoList(k, b)
        /\ \A y : InNoList(h, y) => InNoList(k, y)
    BY <2>1, TakeSound
  <2>4. b # Top
    BY <1>0, <1>2 DEF Tiled
  <2>5. b \in NodesOf(k) \ {0, Top} /\ b \notin X /\ ~k.node[b].used /\ x = k.node[b].pre
    BY <1>0, <1>2, <1>b, <2>3, <2>4, SameNodes
  <2>6. /\ Sound(g, X) /\ KeepsUsed(g, k, {x})
        /\ x \in NodesOf(g) \ {Top} /\ g.node[x].used = k.node[x].used
        /\ g.node[x].size = k.node[x].size + k.node[b].size
        /\ Behind(k, x) = b /\ Behind(g, x) = Behind(k, b)
        /\ g.node[Behind(k, b)].used = k.node[Behind(k, b)].used
        /\ \A y : InNoList(k, y) => InNoList(g, y)
    <3>1. Merged(g, k, X, b, x)
      BY <2>2, <2>3, <2>5, MergeSound
    <3> QED BY <3>1 DEF Merged
  <2>12. SameBut(g, h, {x, b})
    <3>1. SameBut(g, k, {b, x})
      <4>1. Merged(g, k, X, b, x)
        BY <2>2, <2>3, <2>5, MergeSound
      <4> QED BY <4>1 DEF Merged
    <3> QED BY <2>3, <3>1 DEF SameBut
  <2>7. h.node[Behind(h, b)].used
    BY <1>0, <1>2, <1>b DEF Sound, Alone
  <2>8. Behind(k, b) = Behind(h, b)
    BY <2>3, SameNodes
  <2>9. KeepsUsed(g, h, {x})
    BY <2>3, <2>6 DEF KeepsUsed
  <2>10. g.node[x].size = h.node[x].size + h.node[b].size
    BY <2>3, <2>6
  <2>11. g.node[x].size >= h.node[x].size
    BY <1>0, <2>10
  <2> QED BY <1>b, <2>3, <2>6, <2>7, <2>8, <2>9, <2>10, <2>11, <2>12 DEF Grown
<1> QED BY <1>1, <1>2

\* A node becomes free only behind a used one.
MayMark(h, X, a, u) ==
  ~u /\ h.node[a].pre # Null => h.node[a].pre \in X \/ h.node[h.node[a].pre].used

\* Only the use of the node a has changed.
Marked(g, h, X, a, u) ==
  /\ Sound(g, X) /\ KeepsUsed(g, h, {a})
  /\ NodesOf(g) = NodesOf(h)
  /\ g.node[a].size = h.node[a].size /\ g.node[a].used = u
  /\ \A b \in Addresses : Behind(g, b) = Behind(h, b) /\ g.node[b].pre = h.node[b].pre
  /\ \A b \in Addresses \ {a} : g.node[b].used = h.node[b].used
  /\ \A y : InNoList(h, y) => InNoList(g, y)

\* Setting the used flag of a node the lists need not be right for.
LEMMA UsedSound ==
  ASSUME NEW h, NEW X, Sound(h, X), NEW a \in NodesOf(h) \ {Top}, a \in X, NEW u \in BOOLEAN,
         MayMark(h, X, a, u),
         NEW g, g = SetUsed(h, a, u)
  PROVE  Marked(g, h, X, a, u)
<1>1. /\ HeapType(g) /\ Tiled(g) /\ g.free = h.free
      /\ NodesOf(g) = NodesOf(h)
      /\ SameBut(g, h, {a}) /\ g.node[a].size = h.node[a].size /\ g.node[a].used = u
      /\ \A b \in Addresses : Behind(g, b) = Behind(h, b) /\ g.node[b].pre = h.node[b].pre
  <2>1. HeapType(h) /\ Tiled(h)
    BY DEF Sound
  <2>2. Switched(g, h, a, u)
    BY <2>1, UsedTiled
  <2> QED BY <2>2 DEF Switched
<1>2. \A b \in Addresses \ {a} :
        g.node[b].size = h.node[b].size /\ g.node[b].used = h.node[b].used
  BY <1>1 DEF SameBut
<1>3. KeepsUsed(g, h, {a})
  BY <1>2 DEF KeepsUsed
<1>4. ListedBut(g, X)
  <2>1. ASSUME NEW c \in Classes
        PROVE  IsInjective(g.free[c]) /\ Range(g.free[c]) \ X = FreeOf(g, c) \ X
    <3>1. /\ IsInjective(h.free[c]) /\ g.free[c] = h.free[c]
          /\ Range(h.free[c]) \ X = FreeOf(h, c) \ X
      BY <1>1 DEF Sound, ListedBut
    <3>2. \A y \in Addresses \ {a} : y \in FreeOf(g, c) <=> y \in FreeOf(h, c)
      BY <1>1, <1>2 DEF FreeOf
    <3>3. FreeOf(g, c) \subseteq Addresses /\ FreeOf(h, c) \subseteq Addresses
      BY DEF FreeOf, NodesOf
    <3> QED BY <3>1, <3>2, <3>3
  <2> QED BY <2>1 DEF ListedBut
<1>5. Alone(g, X)
  <2>1. ASSUME NEW y \in NodesOf(g) \ X, ~g.node[y].used PROVE g.node[Behind(g, y)].used
    <3>1. y \in NodesOf(h) \ X /\ y \in Addresses \ {a}
      BY <1>1, <2>1 DEF NodesOf
    <3>2. ~h.node[y].used /\ Behind(g, y) = Behind(h, y)
      BY <1>1, <1>2, <2>1, <3>1
    <3>3. h.node[Behind(h, y)].used
      BY <3>1, <3>2 DEF Sound, Alone
    <3>4. y # Top
      BY <3>1, <3>2 DEF Sound, Tiled
    <3>5. Behind(h, y) \in NodesOf(h) /\ h.node[Behind(h, y)].pre = y
      BY <3>1, <3>4 DEF Sound, Tiled, Tile
    <3>6. CASE Behind(h, y) # a
      <4>1. Behind(h, y) \in Addresses \ {a}
        BY <3>5, <3>6 DEF NodesOf
      <4> QED BY <1>2, <3>2, <3>3, <4>1
    <3>7. CASE Behind(h, y) = a
      <4>1. h.node[a].pre = y /\ y # Null
        <5>1. y \in Nat
          BY <3>1, MemoryAssumption DEF Addresses
        <5> QED BY <3>5, <3>7, <5>1, MemoryAssumption
      <4>2. u
        BY <3>1, <3>2, <4>1 DEF MayMark
      <4> QED BY <1>1, <3>2, <3>7, <4>2
    <3> QED BY <3>6, <3>7
  <2> QED BY <2>1 DEF Alone
<1>6. \A y : InNoList(h, y) => InNoList(g, y)
  BY <1>1 DEF InNoList
<1> QED BY <1>1, <1>2, <1>3, <1>4, <1>5, <1>6 DEF Sound, Marked

\* The first half of osMemSpitNode: the rest is a free node in no list yet.
LEMMA CutSound ==
  ASSUME NEW h, NEW a \in NodesOf(h) \ {Top}, Sound(h, {a}),
         NEW n \in Nat, HeadSize < n, n + HeadSize < h.node[a].size,
         NEW z, z = a + n, NEW g, g = Cut(h, a, n)
  PROVE  /\ CutOff(g, h, a, n, z) /\ Sound(g, {a, z}) /\ KeepsUsed(g, h, {a})
         /\ InNoList(g, z) /\ Behind(g, z) \notin {a, z}
         /\ \A y : InNoList(h, y) => InNoList(g, y)
<1>0. HeapType(h) /\ Tiled(h) /\ NodesOf(h) \subseteq Addresses
  BY DEF Sound, NodesOf
<1>1. CutOff(g, h, a, n, z)
  BY <1>0, CutTiled
<1>2. /\ HeapType(g) /\ Tiled(g) /\ g.free = h.free
      /\ NodesOf(g) = NodesOf(h) \cup {z}
      /\ z \in Addresses \ {0, Top} /\ z \notin NodesOf(h)
      /\ Behind(g, a) = z /\ Behind(g, z) = Behind(h, a) /\ a < z
      /\ SameBut(g, h, {a, z})
      /\ g.node[a].used = h.node[a].used
      /\ ~g.node[z].used
  BY <1>1 DEF CutOff
<1>3. \A y \in Addresses \ {a, z} :
        g.node[y].size = h.node[y].size /\ g.node[y].used = h.node[y].used
  BY <1>2 DEF SameBut
<1>4. ~h.node[z].used
  BY <1>2, NoNodeType DEF NodesOf
<1>5. KeepsUsed(g, h, {a})
  <2>1. h.node[z].used \in BOOLEAN /\ g.node[z].used \in BOOLEAN
    BY <1>0, <1>2 DEF HeapType, NodeMaps, NodeRecord
  <2>2. ASSUME NEW y \in Addresses \ {a}
        PROVE  /\ g.node[y].used = h.node[y].used
               /\ h.node[y].used => g.node[y].size = h.node[y].size
    <3>1. CASE y = z
      BY <1>2, <1>4, <2>1, <3>1
    <3>2. CASE y # z
      BY <1>3, <2>2, <3>2
    <3> QED BY <3>1, <3>2
  <2> QED BY <2>2 DEF KeepsUsed
<1>6. a # z
  BY <1>2
<1>7. InNoList(g, z)
  <2>1. InNoList(h, z)
    BY <1>2, <1>6, UsedNotListed
  <2> QED BY <1>2, <2>1 DEF InNoList
<1>8. ListedBut(g, {a, z})
  <2>1. ASSUME NEW c \in Classes
        PROVE  IsInjective(g.free[c]) /\ Range(g.free[c]) \ {a, z} = FreeOf(g, c) \ {a, z}
    <3>1. /\ IsInjective(h.free[c]) /\ g.free[c] = h.free[c]
          /\ Range(h.free[c]) \ {a} = FreeOf(h, c) \ {a}
      BY <1>2 DEF Sound, ListedBut
    <3>2. \A y \in Addresses \ {a, z} : y \in FreeOf(g, c) <=> y \in FreeOf(h, c)
      BY <1>2, <1>3 DEF FreeOf
    <3>3. FreeOf(g, c) \subseteq Addresses /\ FreeOf(h, c) \subseteq Addresses
      BY DEF FreeOf, NodesOf
    <3> QED BY <3>1, <3>2, <3>3
  <2> QED BY <2>1 DEF ListedBut
<1>9. Alone(g, {a, z})
  <2>1. ASSUME NEW y \in NodesOf(g) \ {a, z}, ~g.node[y].used PROVE g.node[Behind(g, y)].used
    <3>1. y \in NodesOf(h) \ {a} /\ y \in Addresses \ {a, z}
      BY <1>0, <1>2, <2>1
    <3>2. ~h.node[y].used /\ g.node[y].size = h.node[y].size
      BY <1>3, <2>1, <3>1
    <3>3. Behind(g, y) = Behind(h, y) /\ h.node[Behind(h, y)].used
      BY <3>1, <3>2 DEF Sound, Alone, Behind
    <3>4. y # Top
      BY <1>0, <3>2 DEF Tiled
    <3>5. Behind(h, y) \in NodesOf(h)
      BY <1>0, <3>1, <3>4 DEF Tiled, Tile
    <3>6. Behind(h, y) \in Addresses /\ Behind(h, y) # z
      BY <1>0, <1>2, <3>5
    <3>7. CASE Behind(h, y) = a
      BY <1>2, <3>3, <3>7
    <3>8. CASE Behind(h, y) # a
      BY <1>3, <3>3, <3>6, <3>8
    <3> QED BY <3>7, <3>8
  <2> QED BY <2>1 DEF Alone
<1>10. Behind(g, z) \notin {a, z}
  <2>1. z \in NodesOf(g) \ {Top} /\ a \in Nat /\ z \in Nat
    BY <1>0, <1>2 DEF Addresses
  <2>2. z < Behind(g, z) /\ Behind(g, z) \in NodesOf(g)
    BY <1>2, <2>1, NodeFacts
  <2>3. Behind(g, z) \in Nat
    BY <2>2 DEF NodesOf, Addresses
  <2> QED BY <1>2, <2>1, <2>2, <2>3
<1>11. \A y : InNoList(h, y) => InNoList(g, y)
  BY <1>2 DEF InNoList
<1> QED BY <1>1, <1>2, <1>5, <1>7, <1>8, <1>9, <1>10, <1>11 DEF Sound

\* The node a is still there, of n words at least.
Shrunk(g, h, a, n) ==
  /\ Sound(g, {a}) /\ KeepsUsed(g, h, {a})
  /\ a \in NodesOf(g) \ {Top} /\ g.node[a].used = h.node[a].used
  /\ g.node[a].size >= n
  /\ InNoList(h, a) => InNoList(g, a)

\* The split in osMemAllocWithCheck and osMemReAllocSmaller leaves the lists right but for a.
LEMMA SplitIfSound ==
  ASSUME NEW h, NEW a \in NodesOf(h) \ {Top}, Sound(h, {a}),
         NEW n \in Nat, HeadSize < n, n <= h.node[a].size,
         NEW g, g = SplitIf(h, a, n)
  PROVE  Shrunk(g, h, a, n)
<1>0. h.node[a].size \in Nat /\ HeadSize \in Nat
  BY NodeFacts DEF Sound
<1>1. CASE ~Splits(h.node[a].size, n)
  BY <1>0, <1>1 DEF SplitIf, KeepsUsed, Shrunk
<1>2. CASE Splits(h.node[a].size, n)
  <2>1. n + HeadSize < h.node[a].size
    BY <1>0, <1>2 DEF Splits
  <2>2. PICK z : z = a + n
    OBVIOUS
  <2>3. PICK c : c = Cut(h, a, n)
    OBVIOUS
  <2>4. /\ CutOff(c, h, a, n, z) /\ Sound(c, {a, z}) /\ KeepsUsed(c, h, {a})
        /\ InNoList(c, z) /\ Behind(c, z) \notin {a, z}
        /\ \A y : InNoList(h, y) => InNoList(c, y)
    BY <2>1, <2>2, <2>3, CutSound
  <2>5. /\ NodesOf(c) = NodesOf(h) \cup {z} /\ z \in Addresses \ {0, Top} /\ z \notin NodesOf(h)
        /\ c.node[a].size = n /\ c.node[a].used = h.node[a].used /\ ~c.node[z].used
        /\ Behind(c, a) = z
    BY <2>4 DEF CutOff
  <2>6. PICK m : m = MergeNext(c, z)
    OBVIOUS
  <2>7. z \in NodesOf(c) \ {Top} /\ z \in {a, z} /\ z # a
    BY <2>5
  <2>8. /\ Sound(m, {a, z}) /\ KeepsUsed(m, c, {z}) /\ SameBut(m, c, {z, Behind(c, z)})
        /\ z \in NodesOf(m) \ {Top} /\ m.node[z].used = c.node[z].used
        /\ m.node[Behind(m, z)].used
        /\ \A y : InNoList(c, y) => InNoList(m, y)
    <3>1. Grown(m, c, {a, z}, z)
      BY <2>4, <2>6, <2>7, MergeNextSound
    <3> QED BY <3>1 DEF Grown
  <2>9. g = Put(m, z)
    BY <1>2, <2>2, <2>3, <2>6 DEF SplitIf, Split
  <2>10. Sound(m, {a} \cup {z}) /\ z \in NodesOf(m) /\ ~m.node[z].used /\ InNoList(m, z)
    <3>1. {a} \cup {z} = {a, z}
      OBVIOUS
    <3> QED BY <2>4, <2>5, <2>8, <3>1
  <2>11. /\ Sound(g, {a}) /\ g.node = m.node
         /\ \A y : InNoList(m, y) /\ y # z => InNoList(g, y)
    BY <2>8, <2>9, <2>10, PutSound
  <2>12. m.node[a].size = n /\ m.node[a].used = h.node[a].used
    <3>1. a \in Addresses \ {z, Behind(c, z)}
      BY <2>4, <2>7 DEF NodesOf
    <3> QED BY <2>5, <2>8, <3>1 DEF SameBut
  <2>13. KeepsUsed(g, h, {a})
    <3>1. ASSUME NEW y \in Addresses \ {a}
          PROVE  /\ g.node[y].used = h.node[y].used
                 /\ h.node[y].used => g.node[y].size = h.node[y].size
      <4>1. /\ c.node[y].used = h.node[y].used
            /\ h.node[y].used => c.node[y].size = h.node[y].size
        BY <2>4, <3>1 DEF KeepsUsed
      <4>2. CASE y = z
        BY <2>5, <2>8, <2>11, <4>1, <4>2
      <4>3. CASE y # z
        BY <2>8, <2>11, <3>1, <4>1, <4>3 DEF KeepsUsed
      <4> QED BY <4>2, <4>3
    <3> QED BY <3>1 DEF KeepsUsed
  <2>14. a \in NodesOf(g) \ {Top}
    <3>1. n # 0 /\ a \in Addresses
      BY <1>0 DEF NodesOf
    <3> QED BY <2>11, <2>12, <3>1, IsNode
  <2>15. InNoList(h, a) => InNoList(g, a)
    BY <2>4, <2>7, <2>8, <2>11
  <2>16. n >= n
    OBVIOUS
  <2> QED BY <2>11, <2>12, <2>13, <2>14, <2>15, <2>16 DEF Shrunk
<1> QED BY <1>1, <1>2

\* The free node a is in use, of n words at least.
Allocated(g, h, a, n) ==
  /\ Sound(g, {}) /\ KeepsUsed(g, h, {a})
  /\ a \in NodesOf(g) \ {Top} /\ g.node[a].used
  /\ g.node[a].size >= n

\* osMemAllocWithCheck, once a node is found.
LEMMA AllocAtSound ==
  ASSUME NEW h, NEW a \in NodesOf(h) \ {Top}, Sound(h, {}), ~h.node[a].used,
         NEW n \in Nat, HeadSize < n, n <= h.node[a].size,
         NEW g, g = AllocAt(h, a, n)
  PROVE  Allocated(g, h, a, n)
<1>1. PICK s : s = SplitIf(h, a, n)
  OBVIOUS
<1>2. PICK t : t = Take(s, a)
  OBVIOUS
<1>3. g = SetUsed(t, a, TRUE)
  BY <1>1, <1>2 DEF AllocAt, SetUsed
<1>4. Sound(h, {a})
  BY SoundBut
<1>5. Shrunk(s, h, a, n)
  BY <1>1, <1>4, SplitIfSound
<1>6. /\ Sound(s, {a}) /\ KeepsUsed(s, h, {a})
      /\ a \in NodesOf(s) \ {Top} /\ s.node[a].size >= n
  BY <1>5 DEF Shrunk
<1>7. Sound(t, {a}) /\ t.node = s.node /\ InNoList(t, a)
  <2>1. Sound(t, {a} \cup {a}) /\ t.node = s.node /\ InNoList(t, a)
    BY <1>2, <1>6, TakeSound
  <2>2. {a} \cup {a} = {a}
    OBVIOUS
  <2> QED BY <2>1, <2>2
<1>8. a \in NodesOf(t) \ {Top} /\ a \in {a}
  BY <1>6, <1>7, SameNodes
<1>9. /\ Sound(g, {a}) /\ KeepsUsed(g, t, {a})
      /\ NodesOf(g) = NodesOf(t)
      /\ g.node[a].size = t.node[a].size /\ g.node[a].used = TRUE
      /\ \A y : InNoList(t, y) => InNoList(g, y)
  <2>1. MayMark(t, {a}, a, TRUE)
    BY DEF MayMark
  <2>2. Marked(g, t, {a}, a, TRUE)
    BY <1>3, <1>7, <1>8, <2>1, UsedSound
  <2> QED BY <2>2 DEF Marked
<1>10. Sound(g, {})
  BY <1>7, <1>9, SoundUsed
<1>11. KeepsUsed(g, h, {a})
  BY <1>6, <1>7, <1>9 DEF KeepsUsed
<1> QED BY <1>6, <1>7, <1>8, <1>9, <1>10, <1>11 DEF Allocated

\* The used node a is no longer.
Released(g, h, a) ==
  Sound(g, {}) /\ KeepsUsed(g, h, {a}) /\ ~g.node[a].used

\* osMemFreeNode, with its merges on both sides.
LEMMA FreeNodeSound ==
  ASSUME NEW h, NEW a \in NodesOf(h) \ {Top}, Sound(h, {}), h.node[a].used,
         NEW g, g = FreeNode(h, a)
  PROVE  Released(g, h, a)
<1>p. PICK p : p = h.node[a].pre
  OBVIOUS
<1>f. PICK f : f = SetUsed(h, a, FALSE)
  OBVIOUS
<1>n. PICK n : n = Behind(h, a)
  OBVIOUS
<1>0. /\ HeapType(h) /\ Tiled(h) /\ a \in Addresses /\ a \in Nat /\ n \in Nat /\ a < n
      /\ n \in NodesOf(h) /\ InNoList(h, a)
  <2>1. HeapType(h) /\ Tiled(h) /\ InNoList(h, a)
    BY UsedNotListed DEF Sound
  <2>2. n \in NodesOf(h) /\ a < n
    BY <1>n, <2>1, NodeFacts
  <2> QED BY <2>1, <2>2 DEF NodesOf, Addresses
<1>1. CASE p # Null /\ ~h.node[p].used
  <2>1. /\ a # 0 /\ p \in NodesOf(h) \ {Top} /\ Behind(h, p) = a /\ p \in Nat /\ p < a
        /\ p \in Addresses
    <3>1. a # 0
      BY <1>0, <1>1, <1>p DEF Tiled
    <3>2. p \in NodesOf(h) \ {Top} /\ Behind(h, p) = a
      BY <1>0, <1>p, <3>1 DEF Tiled
    <3>3. p < a
      BY <1>0, <3>2, NodeFacts
    <3> QED BY <3>1, <3>2, <3>3 DEF NodesOf, Addresses
  <2>2. PICK m1 : m1 = Merge(f, a)
    OBVIOUS
  <2>3. PICK m2 : m2 = MergeNext(m1, p)
    OBVIOUS
  <2>4. PICK m3 : m3 = Take(m2, p)
    OBVIOUS
  <2>5. /\ Sound(f, {p, a}) /\ KeepsUsed(f, h, {a}) /\ NodesOf(f) = NodesOf(h)
        /\ f.node[a].used = FALSE /\ f.node[a].pre = p /\ f.node[p].used = h.node[p].used
        /\ InNoList(f, a) /\ Behind(f, a) = n
    <3>1. Sound(h, {p, a})
      BY SoundBut
    <3>2. a \in {p, a} /\ h.node[a].pre \in {p, a}
      BY <1>p
    <3>3. /\ Sound(f, {p, a}) /\ KeepsUsed(f, h, {a})
          /\ NodesOf(f) = NodesOf(h)
          /\ f.node[a].size = h.node[a].size /\ f.node[a].used = FALSE
          /\ \A b \in Addresses : Behind(f, b) = Behind(h, b) /\ f.node[b].pre = h.node[b].pre
          /\ \A b \in Addresses \ {a} : f.node[b].used = h.node[b].used
          /\ \A y : InNoList(h, y) => InNoList(f, y)
      <4>1. MayMark(h, {p, a}, a, FALSE)
        BY <3>2 DEF MayMark
      <4>2. Marked(f, h, {p, a}, a, FALSE)
        BY <1>f, <3>1, <3>2, <4>1, UsedSound
      <4> QED BY <4>2 DEF Marked
    <3>4. p # a
      BY <2>1
    <3> QED BY <1>0, <1>n, <1>p, <2>1, <3>3, <3>4
  <2>6. Merged(m1, f, {p}, a, p)
    <3>1. {p} \cup {a} = {p, a}
      OBVIOUS
    <3>2. a \notin {p} /\ p \in {p} /\ a \in NodesOf(f) \ {0, Top}
      BY <2>1, <2>5
    <3>3. Sound(f, {p} \cup {a}) /\ ~f.node[a].used /\ InNoList(f, a) /\ p = f.node[a].pre
      BY <2>5, <3>1
    <3> QED BY <2>2, <3>2, <3>3, MergeSound
  <2>7. /\ Sound(m1, {p}) /\ KeepsUsed(m1, f, {p})
        /\ p \in NodesOf(m1) \ {Top} /\ m1.node[p].used = f.node[p].used
        /\ Behind(m1, p) = n
    BY <2>5, <2>6 DEF Merged
  <2>8. Grown(m2, m1, {p}, p)
    <3>1. n \notin {p} /\ p \in {p}
      BY <1>0, <2>1
    <3>2. Behind(m1, p) \notin {p}
      BY <2>7, <3>1
    <3> QED BY <2>3, <2>7, <3>1, <3>2, MergeNextSound
  <2>9. /\ Sound(m2, {p}) /\ KeepsUsed(m2, m1, {p})
        /\ p \in NodesOf(m2) \ {Top} /\ m2.node[p].used = m1.node[p].used
        /\ m2.node[Behind(m2, p)].used
    BY <2>8 DEF Grown
  <2>10. Sound(m3, {p}) /\ m3.node = m2.node /\ InNoList(m3, p)
    <3>1. Sound(m3, {p} \cup {p}) /\ m3.node = m2.node /\ InNoList(m3, p)
      BY <2>4, <2>9, TakeSound
    <3>2. {p} \cup {p} = {p}
      OBVIOUS
    <3> QED BY <3>1, <3>2
  <2>11. g = Put(m3, p)
    <3>1. ~IsUsed(h, p)
      BY <1>1 DEF IsUsed
    <3> QED BY <1>1, <1>f, <1>p, <2>2, <2>3, <2>4, <3>1 DEF FreeNode, SetUsed
  <2>12. Sound(g, {}) /\ g.node = m3.node
    <3>1. {} \cup {p} = {p}
      OBVIOUS
    <3>2. Behind(m3, p) = Behind(m2, p) /\ NodesOf(m3) = NodesOf(m2)
      BY <2>10, SameNodes
    <3>3. /\ Sound(m3, {} \cup {p}) /\ p \in NodesOf(m3) /\ ~m3.node[p].used
          /\ m3.node[Behind(m3, p)].used
      BY <1>1, <2>5, <2>7, <2>9, <2>10, <3>1, <3>2
    <3> QED BY <2>10, <2>11, <3>3, PutSound
  <2>13. ~g.node[a].used
    <3>1. m1.node[a].used = f.node[a].used /\ m2.node[a].used = m1.node[a].used
      <4>1. a \in Addresses \ {p}
        BY <1>0, <2>1
      <4> QED BY <2>7, <2>9, <4>1 DEF KeepsUsed
    <3> QED BY <2>5, <2>10, <2>12, <3>1
  <2>14. KeepsUsed(g, h, {a})
    <3>1. ASSUME NEW y \in Addresses \ {a}
          PROVE  /\ g.node[y].used = h.node[y].used
                 /\ h.node[y].used => g.node[y].size = h.node[y].size
      <4>0. g.node = m2.node
        BY <2>10, <2>12
      <4>1. CASE y = p
        BY <1>1, <2>5, <2>7, <2>9, <4>0, <4>1
      <4>2. CASE y # p
        <5>1. /\ f.node[y].used = h.node[y].used
              /\ h.node[y].used => f.node[y].size = h.node[y].size
          BY <2>5, <3>1 DEF KeepsUsed
        <5>2. /\ m1.node[y].used = f.node[y].used
              /\ f.node[y].used => m1.node[y].size = f.node[y].size
          BY <2>7, <3>1, <4>2 DEF KeepsUsed
        <5>3. /\ m2.node[y].used = m1.node[y].used
              /\ m1.node[y].used => m2.node[y].size = m1.node[y].size
          BY <2>9, <3>1, <4>2 DEF KeepsUsed
        <5> QED BY <4>0, <5>1, <5>2, <5>3
      <4> QED BY <4>1, <4>2
    <3> QED BY <3>1 DEF KeepsUsed
  <2> QED BY <2>12, <2>13, <2>14 DEF Released
<1>2. CASE ~(p # Null /\ ~h.node[p].used)
  <2>1. PICK m : m = MergeNext(f, a)
    OBVIOUS
  <2>2. g = Put(m, a)
    BY <1>2, <1>f, <1>p, <2>1 DEF FreeNode, SetUsed, IsUsed
  <2>3. /\ Sound(f, {a}) /\ KeepsUsed(f, h, {a}) /\ NodesOf(f) = NodesOf(h)
        /\ f.node[a].used = FALSE /\ InNoList(f, a) /\ Behind(f, a) = n
    <3>1. Sound(h, {a}) /\ a \in {a}
      BY SoundBut
    <3>2. h.node[a].pre # Null => h.node[h.node[a].pre].used
      BY <1>2, <1>p
    <3>3. /\ Sound(f, {a}) /\ KeepsUsed(f, h, {a})
          /\ NodesOf(f) = NodesOf(h)
          /\ f.node[a].size = h.node[a].size /\ f.node[a].used = FALSE
          /\ \A b \in Addresses : Behind(f, b) = Behind(h, b) /\ f.node[b].pre = h.node[b].pre
          /\ \A b \in Addresses \ {a} : f.node[b].used = h.node[b].used
          /\ \A y : InNoList(h, y) => InNoList(f, y)
      <4>1. MayMark(h, {a}, a, FALSE)
        BY <3>2 DEF MayMark
      <4>2. Marked(f, h, {a}, a, FALSE)
        BY <1>f, <3>1, <3>2, <4>1, UsedSound
      <4> QED BY <4>2 DEF Marked
    <3> QED BY <1>0, <1>n, <3>3
  <2>4. Grown(m, f, {a}, a)
    <3>1. a \in NodesOf(f) \ {Top} /\ a \in {a} /\ Behind(f, a) \notin {a}
      BY <1>0, <2>3
    <3> QED BY <2>1, <2>3, <3>1, MergeNextSound
  <2>5. /\ Sound(m, {a}) /\ KeepsUsed(m, f, {a})
        /\ a \in NodesOf(m) \ {Top} /\ m.node[a].used = f.node[a].used
        /\ m.node[Behind(m, a)].used /\ InNoList(m, a)
    BY <2>3, <2>4 DEF Grown
  <2>6. Sound(g, {}) /\ g.node = m.node
    <3>1. {} \cup {a} = {a}
      OBVIOUS
    <3>2. Sound(m, {} \cup {a}) /\ a \in NodesOf(m) /\ ~m.node[a].used
      BY <2>3, <2>5, <3>1
    <3> QED BY <2>2, <2>5, <3>2, PutSound
  <2>7. KeepsUsed(g, h, {a})
    BY <2>3, <2>5, <2>6 DEF KeepsUsed
  <2> QED BY <2>3, <2>5, <2>6, <2>7 DEF Released
<1> QED BY <1>1, <1>2

-----------------------------------------------------------------------------
(***************************************************************************)
(* Finding a node.                                                         *)
(***************************************************************************)
\* The least element is one.
LEMMA MinIsLeast ==
  ASSUME NEW T, T \subseteq Nat, T # {}
  PROVE  Min(T) \in T
<1>1. \E x \in T : \A y \in T : x <= y
  BY LeastNat
<1> QED BY <1>1, Zenon DEF Min

\* What is found is a free node, large enough.
LEMMA FirstFitFacts ==
  ASSUME NEW h, Sound(h, {}), NEW n \in Nat, Fitting(h, n) # {},
         NEW a, a = FirstFit(h, n)
  PROVE  a \in NodesOf(h) \ {Top} /\ ~h.node[a].used /\ n <= h.node[a].size
<1>1. PICK c : c = Min(Fitting(h, n))
  OBVIOUS
<1>2. c \in Fitting(h, n)
  <2>1. Fitting(h, n) \subseteq Nat
    BY MemoryAssumption DEF Fitting, Classes
  <2> QED BY <1>1, <2>1, MinIsLeast
<1>3. c \in Classes /\ Large(h, n, c) # {}
  BY <1>2 DEF Fitting
<1>4. PICK s \in Seq(Addresses) : s = h.free[c]
  BY <1>3 DEF Sound, HeapType, ListMaps
<1>5. PICK i : i = Min(Large(h, n, c))
  OBVIOUS
<1>6. i \in Large(h, n, c)
  <2>1. Large(h, n, c) \subseteq Nat
    BY <1>4 DEF Large
  <2> QED BY <1>3, <1>5, <2>1, MinIsLeast
<1>7. a = s[i] /\ i \in DOMAIN s /\ h.node[a].size >= n
  BY <1>1, <1>4, <1>5, <1>6 DEF FirstFit, Large
<1>8. a \in Range(s)
  BY <1>7 DEF Range
<1>9. a \in FreeOf(h, c)
  <2>1. Range(h.free[c]) \ {} = FreeOf(h, c) \ {}
    BY <1>3 DEF Sound, ListedBut
  <2> QED BY <1>4, <1>8, <2>1
<1>10. a \in NodesOf(h) /\ ~h.node[a].used
  BY <1>9 DEF FreeOf
<1>11. a # Top
  BY <1>10 DEF Sound, Tiled
<1>12. n <= h.node[a].size
  <2>1. h.node[a].size \in Nat
    BY <1>10, NodeFacts DEF Sound
  <2> QED BY <1>7, <2>1
<1> QED BY <1>10, <1>11, <1>12

\* OS_MEM_ALIGN: the gap in front of an aligned block is shorter than the boundary.
LEMMA AlignedBounds ==
  ASSUME NEW p \in Nat, NEW b \in Nat \ {0}
  PROVE  Aligned(p, b) \in Nat /\ p <= Aligned(p, b) /\ Aligned(p, b) <= p + b - 1
<1>0. Base \in Nat
  BY MemoryAssumption
<1>1. PICK m \in Nat : m = Base + p + b - 1
  BY <1>0
<1>2. PICK q : q = m \div b
  OBVIOUS
<1>3. q \in Nat /\ q * b <= m /\ m < q * b + b
  BY <1>1, <1>2
<1>4. PICK x : x = q * b
  OBVIOUS
<1>5. x \in Nat
  BY <1>3, <1>4
<1>6. Aligned(p, b) = x - Base
  BY <1>1, <1>2, <1>4 DEF Aligned
<1> QED BY <1>0, <1>1, <1>3, <1>4, <1>5, <1>6

-----------------------------------------------------------------------------
(***************************************************************************)
(* The blocks of the application.                                          *)
(***************************************************************************)
NodeIn(d, p) == p - d[p].gap - HeadSize

\* The block r at the address p lies in the used node a, behind its header.
Block(h, a, p, r) ==
  /\ a \in NodesOf(h) \ {Top} /\ h.node[a].used
  /\ r.size \in Nat \ {0} /\ r.gap \in Nat
  /\ p = a + HeadSize + r.gap /\ p + r.size <= Behind(h, a)

\* The used nodes but those in A have a block each, and there are no others.
BlocksIn(h, d, A) ==
  /\ \A p \in DOMAIN d : Block(h, NodeIn(d, p), p, d[p]) /\ NodeIn(d, p) \notin A
  /\ \A p, q \in DOMAIN d : NodeIn(d, p) = NodeIn(d, q) => p = q
  /\ \A a \in NodesOf(h) \ ({Top} \cup A) :
       h.node[a].used => \E p \in DOMAIN d : NodeIn(d, p) = a

With(d, p, r) == [q \in DOMAIN d \cup {p} |-> IF q = p THEN r ELSE d[q]]
But(d, p) == [q \in DOMAIN d \ {p} |-> d[q]]

\* The address and the gap of a block give back its node.
LEMMA BlockNode ==
  ASSUME NEW h, HeapType(h), NEW a, NEW p, NEW d, Block(h, a, p, d[p])
  PROVE  NodeIn(d, p) = a
<1>1. a \in Nat
  BY DEF Block, NodesOf, Addresses
<1>2. PICK g \in Nat : g = d[p].gap
  BY DEF Block
<1>3. HeadSize \in Nat
  BY MemoryAssumption
<1>4. p = a + HeadSize + g
  BY <1>2 DEF Block
<1>5. p - g - HeadSize = a
  BY <1>1, <1>2, <1>3, <1>4
<1> QED BY <1>2, <1>5 DEF NodeIn

\* A node nobody uses has no block.
LEMMA BlocksFree ==
  ASSUME NEW h, NEW d, NEW a, ~h.node[a].used
  PROVE  BlocksIn(h, d, {}) <=> BlocksIn(h, d, {a})
BY DEF BlocksIn, Block

\* Without its block.
LEMMA BlocksDrop ==
  ASSUME NEW h, NEW d, BlocksIn(h, d, {}), NEW p \in DOMAIN d
  PROVE  BlocksIn(h, But(d, p), {NodeIn(d, p)})
<1>1. PICK e : e = But(d, p)
  OBVIOUS
<1>2. DOMAIN e = DOMAIN d \ {p} /\ \A q \in DOMAIN d \ {p} : e[q] = d[q]
  BY <1>1 DEF But
<1>3. \A q \in DOMAIN e : NodeIn(e, q) = NodeIn(d, q) /\ e[q] = d[q] /\ q \in DOMAIN d /\ q # p
  BY <1>2 DEF NodeIn
<1>4. ASSUME NEW q \in DOMAIN e
      PROVE  Block(h, NodeIn(e, q), q, e[q]) /\ NodeIn(e, q) \notin {NodeIn(d, p)}
  BY <1>3, <1>4 DEF BlocksIn
<1>5. ASSUME NEW q \in DOMAIN e, NEW r \in DOMAIN e, NodeIn(e, q) = NodeIn(e, r)
      PROVE  q = r
  BY <1>3, <1>5 DEF BlocksIn
<1>6. ASSUME NEW a \in NodesOf(h) \ ({Top} \cup {NodeIn(d, p)}), h.node[a].used
      PROVE  \E q \in DOMAIN e : NodeIn(e, q) = a
  <2>1. PICK q \in DOMAIN d : NodeIn(d, q) = a
    BY <1>6 DEF BlocksIn
  <2>2. q # p
    BY <1>6, <2>1
  <2>3. q \in DOMAIN e /\ NodeIn(e, q) = a
    BY <1>2, <1>3, <2>1, <2>2
  <2> QED BY <2>3
<1>7. BlocksIn(h, e, {NodeIn(d, p)})
  BY <1>4, <1>5, <1>6 DEF BlocksIn
<1> QED BY <1>1, <1>7

\* The other nodes stay as they are.
LEMMA BlocksStay ==
  ASSUME NEW g, NEW h, HeapType(g), HeapType(h), NEW d, NEW a,
         BlocksIn(h, d, {a}), KeepsUsed(g, h, {a})
  PROVE  BlocksIn(g, d, {a})
<1>1. ASSUME NEW b \in Addresses \ {a}
      PROVE  /\ g.node[b].used = h.node[b].used
             /\ h.node[b].used => Behind(g, b) = Behind(h, b)
  BY <1>1 DEF KeepsUsed, Behind
<1>2. \A b \in Addresses : g.node[b].used => b \in NodesOf(g)
  BY NoNodeType DEF NodesOf
<1>3. \A b \in Addresses : h.node[b].used => b \in NodesOf(h)
  BY NoNodeType DEF NodesOf
<1>4. NodesOf(g) \subseteq Addresses /\ NodesOf(h) \subseteq Addresses
  BY DEF NodesOf
<1>5. ASSUME NEW p \in DOMAIN d
      PROVE  Block(g, NodeIn(d, p), p, d[p]) /\ NodeIn(d, p) \notin {a}
  <2>1. Block(h, NodeIn(d, p), p, d[p]) /\ NodeIn(d, p) \notin {a}
    BY DEF BlocksIn
  <2>2. PICK b : b = NodeIn(d, p)
    OBVIOUS
  <2>3. b \in NodesOf(h) \ {Top} /\ h.node[b].used /\ b # a
    BY <2>1, <2>2 DEF Block
  <2>4. b \in NodesOf(g) \ {Top} /\ g.node[b].used /\ Behind(g, b) = Behind(h, b)
    BY <1>1, <1>2, <1>4, <2>3
  <2> QED BY <2>1, <2>2, <2>4 DEF Block
<1>6. ASSUME NEW b \in NodesOf(g) \ ({Top} \cup {a}), g.node[b].used
      PROVE  \E p \in DOMAIN d : NodeIn(d, p) = b
  <2>1. b \in NodesOf(h) \ ({Top} \cup {a}) /\ h.node[b].used
    BY <1>1, <1>3, <1>4, <1>6
  <2> QED BY <2>1 DEF BlocksIn
<1>7. \A p, q \in DOMAIN d : NodeIn(d, p) = NodeIn(d, q) => p = q
  BY DEF BlocksIn
<1> QED BY <1>5, <1>6, <1>7 DEF BlocksIn

\* Two blocks at one address are in one node.
LEMMA BlockOnce ==
  ASSUME NEW h, HeapType(h), Tiled(h), NEW a, NEW b, NEW p, NEW r, NEW s,
         Block(h, a, p, r), Block(h, b, p, s)
  PROVE  a = b
<1>1. a \in NodesOf(h) \ {Top} /\ b \in NodesOf(h) \ {Top}
  BY DEF Block
<1>2. /\ a \in Nat /\ b \in Nat /\ Behind(h, a) \in Nat /\ Behind(h, b) \in Nat
      /\ HeadSize \in Nat /\ HeadSize > 0
  <2>1. Behind(h, a) \in NodesOf(h) /\ Behind(h, b) \in NodesOf(h)
    BY <1>1, NodeFacts
  <2> QED BY <1>1, <2>1, MemoryAssumption DEF NodesOf, Addresses
<1>3. p \in Nat /\ a < p /\ p < Behind(h, a)
  <2>1. PICK x \in Nat, y \in Nat : x = r.gap /\ y = r.size /\ y > 0
    BY DEF Block
  <2>2. p = a + HeadSize + x /\ p + y <= Behind(h, a)
    BY <2>1 DEF Block
  <2> QED BY <1>2, <2>1, <2>2
<1>4. b < p /\ p < Behind(h, b)
  <2>1. PICK x \in Nat, y \in Nat : x = s.gap /\ y = s.size /\ y > 0
    BY DEF Block
  <2>2. p = b + HeadSize + x /\ p + y <= Behind(h, b)
    BY <2>1 DEF Block
  <2> QED BY <1>2, <2>1, <2>2
<1>5. (b <= a \/ Behind(h, a) <= b) /\ (a <= b \/ Behind(h, b) <= a)
  BY <1>1 DEF Tiled, Tile
<1> QED BY <1>2, <1>3, <1>4, <1>5

\* A block for the node that has none.
LEMMA BlocksFill ==
  ASSUME NEW h, HeapType(h), Tiled(h), NEW d, NEW a, BlocksIn(h, d, {a}),
         NEW p, NEW r, Block(h, a, p, r)
  PROVE  p \notin DOMAIN d /\ BlocksIn(h, With(d, p, r), {})
<1>1. p \notin DOMAIN d
  <2>1. ASSUME p \in DOMAIN d PROVE FALSE
    <3>1. Block(h, NodeIn(d, p), p, d[p]) /\ NodeIn(d, p) # a
      BY <2>1 DEF BlocksIn
    <3> QED BY <3>1, BlockOnce
  <2> QED BY <2>1
<1>2. PICK e : e = With(d, p, r)
  OBVIOUS
<1>3. DOMAIN e = DOMAIN d \cup {p} /\ e[p] = r /\ \A q \in DOMAIN d : e[q] = d[q]
  BY <1>1, <1>2 DEF With
<1>4. NodeIn(e, p) = a
  BY <1>3, BlockNode
<1>5. \A q \in DOMAIN d : NodeIn(e, q) = NodeIn(d, q)
  BY <1>3 DEF NodeIn
<1>6. ASSUME NEW q \in DOMAIN e
      PROVE  Block(h, NodeIn(e, q), q, e[q])
  <2>1. CASE q = p
    BY <1>3, <1>4, <2>1
  <2>2. CASE q # p
    BY <1>3, <1>5, <1>6, <2>2 DEF BlocksIn
  <2> QED BY <2>1, <2>2
<1>7. ASSUME NEW q \in DOMAIN e, NEW s \in DOMAIN e, NodeIn(e, q) = NodeIn(e, s)
      PROVE  q = s
  <2>1. \A t \in DOMAIN d : NodeIn(e, t) # a
    BY <1>5 DEF BlocksIn
  <2>2. CASE q # p /\ s # p
    BY <1>3, <1>5, <1>7, <2>2 DEF BlocksIn
  <2>3. CASE q = p \/ s = p
    BY <1>3, <1>4, <1>7, <2>1, <2>3
  <2> QED BY <2>2, <2>3
<1>8. ASSUME NEW b \in NodesOf(h) \ ({Top} \cup {}), h.node[b].used
      PROVE  \E q \in DOMAIN e : NodeIn(e, q) = b
  <2>1. CASE b = a
    BY <1>3, <1>4, <2>1
  <2>2. CASE b # a
    <3>1. PICK q \in DOMAIN d : NodeIn(d, q) = b
      BY <1>8, <2>2 DEF BlocksIn
    <3> QED BY <1>3, <1>5, <3>1
  <2> QED BY <2>1, <2>2
<1>9. BlocksIn(h, e, {})
  BY <1>6, <1>7, <1>8 DEF BlocksIn
<1> QED BY <1>1, <1>2, <1>9

-----------------------------------------------------------------------------
(***************************************************************************)
(* The invariant.                                                          *)
(***************************************************************************)
Inv == Sound(heap, {}) /\ BlocksIn(heap, held, {})

\* A request is longer by the header.
LEMMA WordsFacts ==
  ASSUME NEW n \in Nat \ {0}
  PROVE  Words(n) \in Nat /\ Words(n) = n + HeadSize /\ HeadSize < Words(n) /\ HeadSize \in Nat
BY MemoryAssumption DEF Words

\* LOS_MemInit: one free node and the end node.
LEMMA InitInv ==
  ASSUME Init
  PROVE  Inv
<1>0. /\ Top \in Nat /\ HeadSize \in Nat /\ HeadSize > 0 /\ HeadSize <= Top /\ Top > 0
      /\ 0 \in Addresses /\ Top \in Addresses
  BY MemoryAssumption DEF Addresses
<1>1. PICK N : N = [a \in Addresses |->
                      CASE a = 0 -> [size |-> Top, used |-> FALSE, pre |-> Null]
                        [] a = Top -> [size |-> HeadSize, used |-> TRUE, pre |-> 0]
                        [] OTHER -> NoNode]
  OBVIOUS
<1>2. PICK F : F = [c \in Classes |-> IF c = ClassOf[Top] THEN <<0>> ELSE <<>>]
  OBVIOUS
<1>3. heap = [node |-> N, free |-> F] /\ held = <<>>
  BY <1>1, <1>2 DEF Init
<1>4. /\ N[0] = [size |-> Top, used |-> FALSE, pre |-> Null]
      /\ N[Top] = [size |-> HeadSize, used |-> TRUE, pre |-> 0]
      /\ \A a \in Addresses \ {0, Top} : N[a] = NoNode
  BY <1>0, <1>1
<1>5. N \in NodeMaps
  <2>1. ASSUME NEW a \in Addresses PROVE N[a] \in NodeRecord
    <3>1. CASE a = 0
      <4>1. [size |-> Top, used |-> FALSE, pre |-> Null] \in NodeRecord
        BY <1>0 DEF NodeRecord
      <4> QED BY <1>4, <3>1, <4>1
    <3>2. CASE a = Top
      <4>1. [size |-> HeadSize, used |-> TRUE, pre |-> 0] \in NodeRecord
        BY <1>0 DEF NodeRecord
      <4> QED BY <1>4, <3>2, <4>1
    <3>3. CASE a \notin {0, Top}
      BY <1>4, <3>3, NoNodeType
    <3> QED BY <3>1, <3>2, <3>3
  <2> QED BY <1>1, <2>1 DEF NodeMaps
<1>6. F \in ListMaps
  <2>1. <<0>> \in Seq(Addresses) /\ <<>> \in Seq(Addresses)
    BY <1>0
  <2> QED BY <1>2, <2>1 DEF ListMaps
<1>7. HeapType(heap) /\ heap.node = N /\ heap.free = F
  BY <1>3, <1>5, <1>6, PartsHeap
<1>8. /\ heap.node[0].size = Top /\ ~heap.node[0].used /\ heap.node[0].pre = Null
      /\ heap.node[Top].size = HeadSize /\ heap.node[Top].used /\ heap.node[Top].pre = 0
  BY <1>4, <1>7
<1>9. NodesOf(heap) = {0, Top}
  <2>1. 0 \in NodesOf(heap) /\ Top \in NodesOf(heap)
    BY <1>0, <1>8, IsNode
  <2>2. \A a \in Addresses \ {0, Top} : a \notin NodesOf(heap)
    BY <1>4, <1>7 DEF NodesOf
  <2> QED BY <2>1, <2>2 DEF NodesOf
<1>10. Behind(heap, 0) = Top
  BY <1>0, <1>8 DEF Behind
<1>11. Tiled(heap)
  <2>1. \A a \in NodesOf(heap) : heap.node[a].pre = Null <=> a = 0
    BY <1>0, <1>8, <1>9, MemoryAssumption
  <2>2. Tile(heap, 0)
    BY <1>0, <1>8, <1>9, <1>10 DEF Tile
  <2>3. heap.node[Top].pre \in NodesOf(heap) \ {Top} /\ Behind(heap, heap.node[Top].pre) = Top
    BY <1>0, <1>8, <1>9, <1>10
  <2> QED BY <1>0, <1>8, <1>9, <2>1, <2>2, <2>3 DEF Tiled
<1>12. ListedBut(heap, {})
  <2>1. ASSUME NEW c \in Classes
        PROVE  IsInjective(heap.free[c]) /\ Range(heap.free[c]) \ {} = FreeOf(heap, c) \ {}
    <3>1. CASE c = ClassOf[Top]
      <4>1. PICK s : s = <<0>>
        OBVIOUS
      <4>2. heap.free[c] = s
        BY <1>2, <1>7, <3>1, <4>1
      <4>3. IsInjective(s) /\ Range(s) = {0}
        BY <4>1 DEF IsInjective, Range
      <4>4. FreeOf(heap, c) = {0}
        BY <1>0, <1>8, <1>9, <3>1 DEF FreeOf
      <4> QED BY <4>2, <4>3, <4>4
    <3>2. CASE c # ClassOf[Top]
      <4>1. PICK s : s = <<>>
        OBVIOUS
      <4>2. heap.free[c] = s
        BY <1>2, <1>7, <3>2, <4>1
      <4>3. IsInjective(s) /\ Range(s) = {}
        BY <4>1 DEF IsInjective, Range
      <4>4. FreeOf(heap, c) = {}
        BY <1>0, <1>8, <1>9, <3>2 DEF FreeOf
      <4> QED BY <4>2, <4>3, <4>4
    <3> QED BY <3>1, <3>2
  <2> QED BY <2>1 DEF ListedBut
<1>13. Alone(heap, {})
  BY <1>8, <1>9, <1>10 DEF Alone
<1>14. BlocksIn(heap, held, {})
  <2>1. DOMAIN held = {}
    BY <1>3
  <2> QED BY <1>8, <1>9, <2>1 DEF BlocksIn
<1> QED BY <1>7, <1>11, <1>12, <1>13, <1>14 DEF Inv, Sound

\* The node a gets its block.
LEMMA AllocBlocks ==
  ASSUME NEW h, NEW d, Sound(h, {}), BlocksIn(h, d, {}),
         NEW a \in NodesOf(h) \ {Top}, ~h.node[a].used, NEW n, NEW g, Allocated(g, h, a, n),
         NEW p, NEW r, Block(g, a, p, r)
  PROVE  Sound(g, {}) /\ p \notin DOMAIN d /\ BlocksIn(g, With(d, p, r), {})
<1>1. Sound(g, {}) /\ KeepsUsed(g, h, {a})
  BY DEF Allocated
<1>2. BlocksIn(h, d, {a})
  BY BlocksFree
<1>3. BlocksIn(g, d, {a})
  BY <1>1, <1>2, BlocksStay DEF Sound
<1> QED BY <1>1, <1>3, BlocksFill DEF Sound

\* The block p is gone.
LEMMA FreeBlocks ==
  ASSUME NEW h, NEW d, Sound(h, {}), BlocksIn(h, d, {}), NEW p \in DOMAIN d,
         NEW g, g = FreeNode(h, NodeIn(d, p))
  PROVE  Sound(g, {}) /\ BlocksIn(g, But(d, p), {})
<1>1. PICK a : a = NodeIn(d, p)
  OBVIOUS
<1>2. a \in NodesOf(h) \ {Top} /\ h.node[a].used
  BY <1>1 DEF BlocksIn, Block
<1>3. Released(g, h, a)
  BY <1>1, <1>2, FreeNodeSound
<1>4. Sound(g, {}) /\ KeepsUsed(g, h, {a}) /\ ~g.node[a].used
  BY <1>3 DEF Released
<1>5. BlocksIn(h, But(d, p), {a})
  BY <1>1, BlocksDrop
<1>6. BlocksIn(g, But(d, p), {a})
  BY <1>4, <1>5, BlocksStay DEF Sound
<1> QED BY <1>4, <1>6, BlocksFree

\* The node of the block p has another block.
LEMMA ChangeBlocks ==
  ASSUME NEW h, NEW d, Sound(h, {}), BlocksIn(h, d, {}), NEW p \in DOMAIN d,
         NEW a, a = NodeIn(d, p), NEW g, Sound(g, {}), KeepsUsed(g, h, {a}),
         NEW q, NEW r, Block(g, a, q, r)
  PROVE  BlocksIn(g, With(But(d, p), q, r), {})
<1>1. BlocksIn(h, But(d, p), {a})
  BY BlocksDrop
<1>2. BlocksIn(g, But(d, p), {a})
  BY <1>1, BlocksStay DEF Sound
<1> QED BY <1>2, BlocksFill DEF Sound

-----------------------------------------------------------------------------
(***************************************************************************)
(* The steps.                                                              *)
(***************************************************************************)
Header(n) == [size |-> n, gap |-> 0]

\* Addresses and sizes of nodes are numbers.
LEMMA NodeType ==
  ASSUME NEW h, HeapType(h), NEW a \in NodesOf(h)
  PROVE  a \in Nat /\ h.node[a].size \in Nat
<1>1. a \in Addresses /\ h.node \in NodeMaps
  BY HeapParts DEF NodesOf
<1>2. h.node[a] \in NodeRecord
  BY <1>1 DEF NodeMaps
<1> QED BY <1>1, <1>2 DEF NodeRecord, Addresses

\* A block right behind the header of a node that is large enough.
LEMMA PlainBlock ==
  ASSUME NEW h, HeapType(h), NEW a \in NodesOf(h) \ {Top}, h.node[a].used,
         NEW n \in Nat \ {0}, h.node[a].size >= Words(n)
  PROVE  Block(h, a, a + HeadSize, Header(n))
<1>1. a \in Nat /\ h.node[a].size \in Nat
  BY NodeType
<1>2. Words(n) = n + HeadSize /\ HeadSize \in Nat
  BY WordsFacts
<1>3. Header(n).size = n /\ Header(n).gap = 0
  BY DEF Header
<1>4. a + HeadSize = a + HeadSize + 0 /\ (a + HeadSize) + n <= a + h.node[a].size
  BY <1>1, <1>2
<1> QED BY <1>3, <1>4 DEF Block, Behind

\* LOS_MemAlloc keeps the invariant.
LEMMA AllocStep ==
  ASSUME Inv, NEW n \in Nat \ {0}, LOS_MemAlloc(n)
  PROVE  Inv'
<1>1. PICK a : a = FirstFit(heap, Words(n))
  OBVIOUS
<1>2. /\ Fitting(heap, Words(n)) # {} /\ heap' = AllocAt(heap, a, Words(n))
      /\ held' = With(held, a + HeadSize, Header(n))
  BY <1>1 DEF LOS_MemAlloc, Holds, With, Header
<1>3. Words(n) \in Nat /\ HeadSize < Words(n)
  BY WordsFacts
<1>4. a \in NodesOf(heap) \ {Top} /\ ~heap.node[a].used /\ Words(n) <= heap.node[a].size
  BY <1>1, <1>2, <1>3, FirstFitFacts DEF Inv
<1>5. PICK g : g = heap'
  OBVIOUS
<1>6. Allocated(g, heap, a, Words(n))
  BY <1>2, <1>3, <1>4, <1>5, AllocAtSound DEF Inv
<1>7. Block(g, a, a + HeadSize, Header(n))
  BY <1>6, PlainBlock DEF Allocated, Sound
<1>8. Sound(g, {}) /\ BlocksIn(g, With(held, a + HeadSize, Header(n)), {})
  BY <1>4, <1>6, <1>7, AllocBlocks DEF Inv
<1>9. PICK d : d = held'
  OBVIOUS
<1>10. Sound(g, {}) /\ BlocksIn(g, d, {})
  BY <1>2, <1>8, <1>9
<1> QED BY <1>5, <1>9, <1>10 DEF Inv

\* LOS_MemAllocAlign keeps it, the gap and the word that stores it included.
LEMMA AllocAlignStep ==
  ASSUME Inv, NEW n \in Nat \ {0}, NEW b \in Nat \ {0}, LOS_MemAllocAlign(n, b)
  PROVE  Inv'
<1>w. PICK w : w = AlignWords(n, b)
  OBVIOUS
<1>1. PICK a : a = FirstFit(heap, w)
  OBVIOUS
<1>p. PICK p : p = Aligned(a + HeadSize, b)
  OBVIOUS
<1>r. PICK r : r = [size |-> n, gap |-> p - (a + HeadSize)]
  OBVIOUS
<1>2. /\ Fitting(heap, w) # {} /\ heap' = AllocAt(heap, a, w)
      /\ held' = With(held, p, r)
  BY <1>1, <1>p, <1>r, <1>w DEF LOS_MemAllocAlign, Holds, With
<1>3. w \in Nat /\ HeadSize < w /\ w = n + b + 1 + HeadSize /\ HeadSize \in Nat
  <2>1. n + b + 1 \in Nat \ {0}
    OBVIOUS
  <2> QED BY <1>w, <2>1, WordsFacts DEF AlignWords
<1>4. a \in NodesOf(heap) \ {Top} /\ ~heap.node[a].used /\ w <= heap.node[a].size
  BY <1>1, <1>2, <1>3, FirstFitFacts DEF Inv
<1>5. PICK g : g = heap'
  OBVIOUS
<1>6. Allocated(g, heap, a, w)
  BY <1>2, <1>3, <1>4, <1>5, AllocAtSound DEF Inv
<1>7. Block(g, a, p, r)
  <2>1. a \in NodesOf(g) \ {Top} /\ g.node[a].used /\ g.node[a].size >= w
    BY <1>6 DEF Allocated
  <2>2. a \in Nat /\ g.node[a].size \in Nat
    BY <1>6, <2>1, NodeType DEF Allocated, Sound
  <2>3. p \in Nat /\ a + HeadSize <= p /\ p <= a + HeadSize + b - 1
    <3>1. a + HeadSize \in Nat
      BY <1>3, <2>2
    <3> QED BY <1>p, <3>1, AlignedBounds
  <2>4. r.size = n /\ r.gap = p - (a + HeadSize)
    BY <1>r
  <2>5. PICK k : k = p - (a + HeadSize)
    OBVIOUS
  <2>6. k \in Nat /\ p = a + HeadSize + k
    BY <1>3, <2>2, <2>3, <2>5
  <2>7. p + n <= a + g.node[a].size
    BY <1>3, <2>1, <2>2, <2>3
  <2> QED BY <2>1, <2>4, <2>5, <2>6, <2>7 DEF Block, Behind
<1>8. Sound(g, {}) /\ BlocksIn(g, With(held, p, r), {})
  BY <1>4, <1>6, <1>7, AllocBlocks DEF Inv
<1>9. PICK d : d = held'
  OBVIOUS
<1>10. Sound(g, {}) /\ BlocksIn(g, d, {})
  BY <1>2, <1>8, <1>9
<1> QED BY <1>5, <1>9, <1>10 DEF Inv

\* LOS_MemFree keeps it, which finds the node through the gap.
LEMMA FreeStep ==
  ASSUME Inv, NEW p \in DOMAIN held, LOS_MemFree(p)
  PROVE  Inv'
<1>1. heap' = FreeNode(heap, NodeIn(held, p)) /\ held' = But(held, p)
  BY DEF LOS_MemFree, NodeOf, NodeIn, Drops, But
<1>2. PICK g, d : g = heap' /\ d = held'
  OBVIOUS
<1>3. Sound(g, {}) /\ BlocksIn(g, But(held, p), {})
  BY <1>1, <1>2, FreeBlocks DEF Inv
<1>4. Sound(g, {}) /\ BlocksIn(g, d, {})
  BY <1>1, <1>2, <1>3
<1> QED BY <1>2, <1>4 DEF Inv

\* A reallocated block is one dropped and one added.
LEMMA MovedIs ==
  ASSUME NEW p, NEW q, NEW n
  PROVE  Moved(p, q, n) = With(But(held, p), q, Header(n))
BY DEF Moved, With, But, Header

\* Reallocation in place: the node a of h, in use and in no list, is cut to size.
LEMMA CutBack ==
  ASSUME NEW h, NEW a \in NodesOf(h) \ {Top}, Sound(h, {a}), InNoList(h, a), h.node[a].used,
         NEW n \in Nat \ {0}, h.node[a].size >= Words(n),
         NEW g, g = SplitIf(h, a, Words(n))
  PROVE  Sound(g, {}) /\ KeepsUsed(g, h, {a}) /\ Block(g, a, a + HeadSize, Header(n))
<1>1. Words(n) \in Nat /\ HeadSize < Words(n)
  BY WordsFacts
<1>2. Words(n) <= h.node[a].size
  <2>1. h.node[a].size \in Nat
    BY NodeFacts DEF Sound
  <2> QED BY <1>1, <2>1
<1>3. Shrunk(g, h, a, Words(n))
  BY <1>1, <1>2, SplitIfSound
<1>4. /\ Sound(g, {a}) /\ KeepsUsed(g, h, {a}) /\ InNoList(g, a)
      /\ a \in NodesOf(g) \ {Top} /\ g.node[a].used /\ g.node[a].size >= Words(n)
  BY <1>3 DEF Shrunk
<1>5. Sound(g, {})
  BY <1>4, SoundUsed
<1>6. Block(g, a, a + HeadSize, Header(n))
  BY <1>4, PlainBlock DEF Sound
<1> QED BY <1>4, <1>5, <1>6

\* LOS_MemRealloc keeps it where the node is large enough,
LEMMA SmallerStep ==
  ASSUME Inv, NEW p \in DOMAIN held, NEW n \in Nat \ {0}, ReAllocSmaller(p, n)
  PROVE  Inv'
<1>1. PICK a : a = NodeIn(held, p)
  OBVIOUS
<1>2. /\ heap.node[a].size >= Words(n) /\ heap' = SplitIf(heap, a, Words(n))
      /\ held' = With(But(held, p), a + HeadSize, Header(n))
  BY <1>1, MovedIs DEF ReAllocSmaller, NodeOf, NodeIn
<1>3. a \in NodesOf(heap) \ {Top} /\ heap.node[a].used
  BY <1>1 DEF Inv, BlocksIn, Block
<1>4. Sound(heap, {a}) /\ InNoList(heap, a)
  BY <1>3, SoundBut, UsedNotListed DEF Inv
<1>5. PICK g, d : g = heap' /\ d = held'
  OBVIOUS
<1>6. Sound(g, {}) /\ KeepsUsed(g, heap, {a}) /\ Block(g, a, a + HeadSize, Header(n))
  BY <1>2, <1>3, <1>4, <1>5, CutBack
<1>7. BlocksIn(g, With(But(held, p), a + HeadSize, Header(n)), {})
  BY <1>1, <1>6, ChangeBlocks DEF Inv
<1>8. Sound(g, {}) /\ BlocksIn(g, d, {})
  BY <1>2, <1>5, <1>6, <1>7
<1> QED BY <1>5, <1>8 DEF Inv

\* where it grows into the free node behind it,
LEMMA BiggerStep ==
  ASSUME Inv, NEW p \in DOMAIN held, NEW n \in Nat \ {0}, ReAllocBigger(p, n)
  PROVE  Inv'
<1>1. PICK a : a = NodeIn(held, p)
  OBVIOUS
<1>m. PICK m : m = MergeNext(heap, a)
  OBVIOUS
<1>b. PICK b : b = Behind(heap, a)
  OBVIOUS
<1>2. /\ ~heap.node[b].used /\ heap.node[a].size + heap.node[b].size >= Words(n)
      /\ heap' = SplitIf(m, a, Words(n))
      /\ held' = With(But(held, p), a + HeadSize, Header(n))
  BY <1>1, <1>b, <1>m, MovedIs DEF ReAllocBigger, Grows, IsUsed, NodeOf, NodeIn
<1>3. a \in NodesOf(heap) \ {Top} /\ heap.node[a].used
  BY <1>1 DEF Inv, BlocksIn, Block
<1>4. Sound(heap, {a}) /\ InNoList(heap, a)
  BY <1>3, SoundBut, UsedNotListed DEF Inv
<1>5. Grown(m, heap, {a}, a)
  <2>1. a < b /\ a \in Nat
    BY <1>3, <1>4, <1>b, NodeFacts DEF Sound, NodesOf
  <2>2. b \notin {a} /\ a \in {a}
    BY <2>1
  <2> QED BY <1>3, <1>4, <1>b, <1>m, <2>2, MergeNextSound
<1>6. /\ Sound(m, {a}) /\ KeepsUsed(m, heap, {a}) /\ InNoList(m, a)
      /\ a \in NodesOf(m) \ {Top} /\ m.node[a].used
      /\ m.node[a].size >= Words(n)
  BY <1>2, <1>3, <1>4, <1>5, <1>b DEF Grown
<1>7. PICK g, d : g = heap' /\ d = held'
  OBVIOUS
<1>8. Sound(g, {}) /\ KeepsUsed(g, m, {a}) /\ Block(g, a, a + HeadSize, Header(n))
  BY <1>2, <1>6, <1>7, CutBack
<1>9. KeepsUsed(g, heap, {a})
  BY <1>6, <1>8, KeepsOn
<1>10. BlocksIn(g, With(But(held, p), a + HeadSize, Header(n)), {})
  BY <1>1, <1>8, <1>9, ChangeBlocks DEF Inv
<1>11. Sound(g, {}) /\ BlocksIn(g, d, {})
  BY <1>2, <1>7, <1>8, <1>10
<1> QED BY <1>7, <1>11 DEF Inv

\* and where the block moves.
LEMMA ElsewhereStep ==
  ASSUME Inv, NEW p \in DOMAIN held, NEW n \in Nat \ {0}, ReAllocElsewhere(p, n)
  PROVE  Inv'
<1>1. PICK b : b = FirstFit(heap, Words(n))
  OBVIOUS
<1>k. PICK k : k = AllocAt(heap, b, Words(n))
  OBVIOUS
<1>q. PICK q : q = b + HeadSize
  OBVIOUS
<1>e. PICK e : e = With(held, q, Header(n))
  OBVIOUS
<1>2. /\ Fitting(heap, Words(n)) # {}
      /\ heap' = FreeNode(k, NodeIn(held, p))
      /\ held' = With(But(held, p), q, Header(n))
  BY <1>1, <1>k, <1>q, MovedIs DEF ReAllocElsewhere, NodeOf, NodeIn
<1>3. Words(n) \in Nat /\ HeadSize < Words(n)
  BY WordsFacts
<1>4. b \in NodesOf(heap) \ {Top} /\ ~heap.node[b].used /\ Words(n) <= heap.node[b].size
  BY <1>1, <1>2, <1>3, FirstFitFacts DEF Inv
<1>5. Allocated(k, heap, b, Words(n))
  BY <1>3, <1>4, <1>k, AllocAtSound DEF Inv
<1>6. Block(k, b, q, Header(n))
  BY <1>5, <1>q, PlainBlock DEF Allocated, Sound
<1>7. Sound(k, {}) /\ q \notin DOMAIN held /\ BlocksIn(k, e, {})
  BY <1>4, <1>5, <1>6, <1>e, AllocBlocks DEF Inv
<1>8. p \in DOMAIN e /\ e[p] = held[p] /\ p # q
  BY <1>7, <1>e DEF With
<1>9. NodeIn(e, p) = NodeIn(held, p)
  BY <1>8 DEF NodeIn
<1>10. But(e, p) = With(But(held, p), q, Header(n))
  BY <1>7, <1>8, <1>e DEF With, But
<1>11. PICK g, d : g = heap' /\ d = held'
  OBVIOUS
<1>12. Sound(g, {}) /\ BlocksIn(g, But(e, p), {})
  BY <1>2, <1>7, <1>8, <1>9, <1>11, FreeBlocks
<1>13. Sound(g, {}) /\ BlocksIn(g, d, {})
  BY <1>2, <1>10, <1>11, <1>12
<1> QED BY <1>11, <1>13 DEF Inv

\* Every step keeps the invariant.
LEMMA NextInv ==
  ASSUME Inv, [Next]_vars
  PROVE  Inv'
<1>r. Requests \subseteq Nat \ {0} /\ Boundaries \subseteq Nat \ {0}
  BY MemoryAssumption
<1>1. ASSUME NEW n \in Requests, LOS_MemAlloc(n) PROVE Inv'
  BY <1>1, <1>r, AllocStep
<1>2. ASSUME NEW n \in Requests, NEW b \in Boundaries, LOS_MemAllocAlign(n, b) PROVE Inv'
  BY <1>2, <1>r, AllocAlignStep
<1>3. ASSUME NEW n \in Requests, NEW p \in DOMAIN held, LOS_MemRealloc(p, n) PROVE Inv'
  <2>1. n \in Nat \ {0}
    BY <1>r, <1>3
  <2>2. CASE ReAllocSmaller(p, n)
    BY <1>3, <2>1, <2>2, SmallerStep
  <2>3. CASE ReAllocBigger(p, n)
    BY <1>3, <2>1, <2>3, BiggerStep
  <2>4. CASE ReAllocElsewhere(p, n)
    BY <1>3, <2>1, <2>4, ElsewhereStep
  <2> QED BY <1>3, <2>2, <2>3, <2>4 DEF LOS_MemRealloc
<1>4. ASSUME NEW p \in DOMAIN held, LOS_MemFree(p) PROVE Inv'
  BY <1>4, FreeStep
<1>5. CASE UNCHANGED vars
  <2>1. heap' = heap /\ held' = held
    BY <1>5 DEF vars
  <2> QED BY <2>1 DEF Inv
<1> QED BY <1>1, <1>2, <1>3, <1>4, <1>5 DEF Next

\* The inductive invariant holds in every state.
LEMMA Invariant == Spec => []Inv
<1>1. Init => Inv
  BY InitInv
<1>2. Inv /\ [Next]_vars => Inv'
  BY NextInv
<1> QED BY <1>1, <1>2, PTL DEF Spec

-----------------------------------------------------------------------------
(***************************************************************************)
(* The properties.                                                         *)
(***************************************************************************)
\* The tiling, from the invariant.
LEMMA InvTiled == Inv => HeapTiled
<1> SUFFICES ASSUME Inv PROVE HeapTiled
  OBVIOUS
<1>1. HeapType(heap) /\ Tiled(heap) /\ Nodes = NodesOf(heap)
  BY DEF Inv, Sound, Nodes, NodesOf
<1>2. heap.node[Top] = [heap.node[Top] EXCEPT !.size = HeadSize, !.used = TRUE]
  <2>1. PICK r \in NodeRecord : r = heap.node[Top]
    BY <1>1, NodeFacts
  <2>2. r.size = HeadSize /\ r.used = TRUE
    BY <1>1, <2>1 DEF Tiled, NodeRecord
  <2>3. r = [r EXCEPT !.size = HeadSize, !.used = TRUE]
    BY <2>2 DEF NodeRecord
  <2> QED BY <2>1, <2>3
<1>3. \A a \in NodesOf(heap) \ {Top} : Tile(heap, a)
  BY <1>1 DEF Tiled
<1>4. \A a \in NodesOf(heap) : heap.node[a].pre = Null <=> a = 0
  BY <1>1 DEF Tiled
<1> QED BY <1>1, <1>2, <1>3, <1>4 DEF HeapTiled, Tile

\* The lists, from the invariant.
LEMMA InvListed == Inv => FreeListed
<1> SUFFICES ASSUME Inv PROVE FreeListed
  OBVIOUS
<1>1. Sound(heap, {}) /\ Nodes = NodesOf(heap)
  BY DEF Inv, Nodes, NodesOf
<1>2. ASSUME NEW c \in Classes
      PROVE  /\ IsInjective(heap.free[c])
             /\ Range(heap.free[c]) =
                  {a \in Nodes : ~IsUsed(heap, a) /\ ClassOf[heap.node[a].size] = c}
  <2>1. IsInjective(heap.free[c]) /\ Range(heap.free[c]) \ {} = FreeOf(heap, c) \ {}
    BY <1>1 DEF Sound, ListedBut
  <2>2. FreeOf(heap, c) = {a \in Nodes : ~IsUsed(heap, a) /\ ClassOf[heap.node[a].size] = c}
    BY <1>1 DEF FreeOf, IsUsed
  <2> QED BY <2>1, <2>2
<1>3. \A a \in Nodes : ~IsUsed(heap, a) => IsUsed(heap, Behind(heap, a))
  BY <1>1 DEF Sound, Alone, IsUsed
<1> QED BY <1>2, <1>3 DEF FreeListed

\* The blocks, from the invariant.
LEMMA InvApart == Inv => BlocksApart
<1> SUFFICES ASSUME Inv PROVE BlocksApart
  OBVIOUS
<1>1. BlocksIn(heap, held, {}) /\ Nodes = NodesOf(heap)
  BY DEF Inv, Nodes, NodesOf
<1>2. \A p : NodeOf(p) = NodeIn(held, p)
  BY DEF NodeOf, NodeIn
<1>3. ASSUME NEW p \in DOMAIN held
      PROVE  /\ NodeOf(p) \in Nodes \ {Top} /\ IsUsed(heap, NodeOf(p))
             /\ p + held[p].size <= Behind(heap, NodeOf(p))
             /\ \A q \in DOMAIN held : NodeOf(p) = NodeOf(q) => p = q
  BY <1>1, <1>2, <1>3 DEF BlocksIn, Block, IsUsed
<1>4. ASSUME NEW a \in Nodes \ {Top}, IsUsed(heap, a)
      PROVE  \E p \in DOMAIN held : NodeOf(p) = a
  BY <1>1, <1>2, <1>4 DEF BlocksIn, IsUsed
<1> QED BY <1>3, <1>4 DEF BlocksApart

\* The search, from the invariant and the order of the classes.
LEMMA InvFinds == Inv => FindsWhatFits
<1> SUFFICES ASSUME Inv, NEW n \in Requests, Fitting(heap, Words(n)) = {},
                    NEW a \in Nodes, ~IsUsed(heap, a), ~(heap.node[a].size < Words(n))
             PROVE  FALSE
  BY DEF FindsWhatFits
<1>1. Sound(heap, {}) /\ a \in NodesOf(heap) /\ ~heap.node[a].used
  BY DEF Inv, Nodes, NodesOf, IsUsed
<1>2. PICK w \in Nat : w = Words(n)
  BY WordsFacts, MemoryAssumption
<1>3. PICK s \in 0 .. Top : s = heap.node[a].size
  BY <1>1, SizeFits DEF Sound
<1>4. w <= s /\ w \in 0 .. Top /\ ~(w > Top)
  <2>1. Top \in Nat
    BY MemoryAssumption
  <2> QED BY <1>2, <1>3, <2>1
<1>5. PICK c : c = ClassOf[s]
  OBVIOUS
<1>6. c \in Classes /\ c >= FirstClass(w)
  <2>1. ClassOf[w] <= ClassOf[s] /\ ClassOf[s] \in Classes /\ ClassOf[w] \in Classes
    BY <1>3, <1>4, ClassesGrow, ClassFacts
  <2>2. ClassOf[w] \in Nat /\ ClassOf[s] \in Nat
    BY <2>1 DEF Classes
  <2> QED BY <1>5, <2>1, <2>2 DEF FirstClass
<1>7. a \in Range(heap.free[c])
  <2>1. a \in FreeOf(heap, c)
    BY <1>1, <1>3, <1>5 DEF FreeOf
  <2>2. Range(heap.free[c]) \ {} = FreeOf(heap, c) \ {}
    BY <1>1, <1>6 DEF Sound, ListedBut
  <2> QED BY <2>1, <2>2
<1>8. PICK i \in DOMAIN heap.free[c] : heap.free[c][i] = a
  BY <1>7 DEF Range
<1>9. i \in Large(heap, w, c)
  BY <1>3, <1>4, <1>8, MemoryAssumption DEF Large
<1>10. c \in Fitting(heap, w)
  BY <1>4, <1>6, <1>9 DEF Fitting
<1> QED BY <1>2, <1>10

\* Whatever is allocated, freed and reallocated, the nodes tile the pool: osMemMergeNode
\* and osMemSpitNode lose no word and overlap no header.
THEOREM PoolIsTiled == Spec => []HeapTiled
BY Invariant, InvTiled, PTL

\* Every free node is in the list of its size, once, and has no free neighbour: what
\* osMemFreeNode and osMemSpitNode merge was taken out of its old list.
THEOREM FreeNodesListed == Spec => []FreeListed
BY Invariant, InvListed, PTL

\* The blocks LOS_MemAlloc, LOS_MemAllocAlign and LOS_MemRealloc return lie each in a
\* used node of its own, and a used node has a block.
THEOREM BlocksStayApart == Spec => []BlocksApart
BY Invariant, InvApart, PTL

\* osMemFindSuitableFreeBlock finds a node whenever one is large enough, although it begins
\* at the class of the size.
THEOREM FitIsFound == Spec => []FindsWhatFits
BY Invariant, InvFinds, PTL
=============================================================================
