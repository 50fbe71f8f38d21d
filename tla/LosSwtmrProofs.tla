--------------------------- MODULE LosSwtmrProofs ---------------------------
(***************************************************************************)
(* Proofs about LosSwtmr, for any number of timers and all intervals.      *)
(***************************************************************************)
EXTENDS LosSwtmr, SequenceTheorems, FiniteSetTheorems, TLAPS

\* A timer that can be started has a period.
Periods == \A t \in Timers : state[t] # "unused" => interval[t] > 0

\* A block that LOS_SwtmrCreate has taken waits to be filled: no call and no
\* tick finds a timer in it.
Fresh == \A t \in taken : state[t] = "unused"

\* The walk of osSwTmrStart: the ticks it has not passed yet are those that
\* remain of the interval behind the timer it has passed last.
Walks ==
  /\ cs.in = "no" => cs.timer = NoTimer
  /\ cs.in = "call" => cs.timer # NoTimer
  /\ cs.timer # NoTimer =>
       /\ cs.pos <= Len(list) + 1
       /\ state[cs.timer] = (IF cs.in = "call" THEN "created" ELSE "ticking")
       /\ cs.rest + (IF cs.pos = 1 THEN 0 ELSE left[list[cs.pos - 1]])
            = interval[cs.timer]

\* The timers stand in the order in which they are due.
Ordered == \A i, j \in DOMAIN list : i <= j => left[list[i]] <= left[list[j]]

\* Outside the tick interrupt none is overdue.
Coming == cs.in # "tick" => \A i \in DOMAIN list : left[list[i]] > 0

\* What the interrupt has still to queue.
Due == {t \in Timers : t \in Range(list) /\ left[t] = 0}

\* An item is in the pool, in the queue, or in the hand of osSwTmrTask; when
\* that kept up, there is room for every timer that is due.
Items ==
  /\ pool + queued + (IF hand = "read" THEN 1 ELSE 0) = HandleQueueSize
  /\ cs.in = "tick" /\ ~behind =>
       hand # "read" /\ queued + Cardinality(Due) <= HandleQueueSize

\* The inductive invariant.
SwtmrInv ==
  /\ SwtmrTypeOK
  /\ OneLink
  /\ Fresh
  /\ CountsAddUp
  /\ Periods
  /\ Walks
  /\ Ordered
  /\ Coming
  /\ Items
  /\ LostOnlyWhenBehind

-----------------------------------------------------------------------------
(***************************************************************************)
(* Lists.                                                                  *)
(***************************************************************************)

\* s links each element of M once, and nothing else.
Links(s, M) == s \in Seq(M) /\ IsInjective(s) /\ Range(s) = M

\* The same, by positions.
LEMMA LinksFacts ==
  ASSUME NEW s, NEW M, Links(s, M)
  PROVE  /\ s \in Seq(M) /\ Len(s) \in Nat
         /\ \A i \in 1 .. Len(s) : s[i] \in M
         /\ \A i, j \in 1 .. Len(s) : s[i] = s[j] => i = j
         /\ \A x \in M : \E i \in 1 .. Len(s) : s[i] = x
<1>1. s \in Seq(M)
  BY DEF Links
<1>2. /\ Len(s) \in Nat /\ DOMAIN s = 1 .. Len(s)
      /\ Range(s) = {s[i] : i \in 1 .. Len(s)}
      /\ \A i \in 1 .. Len(s) : s[i] \in M
  BY <1>1, LenProperties, RangeEquality, ElementOfSeq
<1>3. \A i, j \in 1 .. Len(s) : s[i] = s[j] => i = j
  BY <1>2 DEF Links, IsInjective
<1>4. \A x \in M : \E i \in 1 .. Len(s) : s[i] = x
  BY <1>2 DEF Links
<1> QED BY <1>1, <1>2, <1>3, <1>4

LEMMA LinksIntro ==
  ASSUME NEW M, NEW s \in Seq(M),
         \A i, j \in 1 .. Len(s) : s[i] = s[j] => i = j,
         \A x \in M : \E i \in 1 .. Len(s) : s[i] = x
  PROVE  Links(s, M)
<1>1. /\ DOMAIN s = 1 .. Len(s)
      /\ Range(s) = {s[i] : i \in 1 .. Len(s)}
      /\ \A i \in 1 .. Len(s) : s[i] \in M
  BY LenProperties, RangeEquality, ElementOfSeq
<1>2. IsInjective(s)
  BY <1>1 DEF IsInjective
<1>3. Range(s) = M
  BY <1>1
<1> QED BY <1>2, <1>3 DEF Links

\* Taking out the i-th element.
LEMMA RemoveFacts ==
  ASSUME NEW s, NEW M, Links(s, M), NEW i \in 1 .. Len(s)
  PROVE  /\ Links(RemoveAt(s, i), M \ {s[i]})
         /\ Len(RemoveAt(s, i)) = Len(s) - 1
         /\ \A k \in 1 .. Len(s) - 1 :
              RemoveAt(s, i)[k] = IF k < i THEN s[k] ELSE s[k + 1]
<1> DEFINE u == SubSeq(s, 1, i - 1)
           v == SubSeq(s, i + 1, Len(s))
           w == RemoveAt(s, i)
<1>0. /\ s \in Seq(M) /\ Len(s) \in Nat
      /\ 1 \in Int /\ i \in Int /\ i - 1 \in Int /\ i + 1 \in Int /\ Len(s) \in Int
  BY LinksFacts
<1>1. \A k \in 1 .. Len(s) : s[k] \in M
  BY LinksFacts
<1>2. /\ u \in Seq(M) /\ Len(u) = i - 1
      /\ \A k \in 1 .. i - 1 : u[k] = s[k]
  BY <1>0
<1>3. /\ v \in Seq(M) /\ Len(v) = Len(s) - i
      /\ \A k \in 1 .. Len(s) - i : v[k] = s[k + i]
  BY <1>0
<1>4. w = u \o v
  BY DEF RemoveAt
<1> HIDE DEF u, v, w
<1>5. /\ w \in Seq(M)
      /\ Len(w) = Len(u) + Len(v)
      /\ \A k \in 1 .. Len(u) + Len(v) :
           w[k] = IF k <= Len(u) THEN u[k] ELSE v[k - Len(u)]
  BY <1>2, <1>3, <1>4, ConcatProperties
<1>6. Len(w) = Len(s) - 1
  BY <1>0, <1>2, <1>3, <1>5
<1>7. ASSUME NEW k \in 1 .. Len(s) - 1
      PROVE  w[k] = IF k < i THEN s[k] ELSE s[k + 1]
  <2>0. Len(u) = i - 1 /\ Len(v) = Len(s) - i /\ k \in 1 .. Len(u) + Len(v)
    BY <1>0, <1>2, <1>3
  <2>1. CASE k < i
    <3>1. k <= Len(u) /\ k \in 1 .. i - 1
      BY <1>0, <2>0, <2>1
    <3>2. w[k] = u[k]
      BY <1>5, <2>0, <3>1
    <3> QED BY <1>2, <2>1, <3>1, <3>2
  <2>2. CASE ~(k < i)
    <3>1. ~(k <= Len(u))
      BY <1>0, <2>0, <2>2
    <3>2. w[k] = v[k - (i - 1)]
      BY <1>5, <2>0, <3>1
    <3>3. k - (i - 1) \in 1 .. Len(s) - i /\ k - (i - 1) + i = k + 1
      BY <2>2, <1>0
    <3>4. v[k - (i - 1)] = s[k + 1]
      BY <3>3, <1>3
    <3> QED BY <2>2, <3>2, <3>4
  <2> QED BY <2>1, <2>2
<1>8. ASSUME NEW k \in 1 .. Len(w)
      PROVE  \E n \in 1 .. Len(s) :
               n # i /\ w[k] = s[n] /\ n = IF k < i THEN k ELSE k + 1
  BY <1>0, <1>6, <1>7
<1>9. \A j, k \in 1 .. Len(s) : s[j] = s[k] => j = k
  BY LinksFacts
<1>10. w \in Seq(M \ {s[i]})
  <2>1. ASSUME NEW k \in 1 .. Len(w) PROVE w[k] \in M \ {s[i]}
    BY <1>1, <1>8, <1>9
  <2>2. w \in [1 .. Len(w) -> M] /\ Len(w) \in Nat
    BY <1>5, LenProperties
  <2>3. w \in [1 .. Len(w) -> M \ {s[i]}]
    BY <2>1, <2>2
  <2> QED BY <2>2, <2>3
<1>11. ASSUME NEW j \in 1 .. Len(w), NEW k \in 1 .. Len(w), w[j] = w[k]
       PROVE  j = k
  <2>1. PICK m \in 1 .. Len(s) : w[j] = s[m] /\ m = IF j < i THEN j ELSE j + 1
    BY <1>8
  <2>2. PICK n \in 1 .. Len(s) : w[k] = s[n] /\ n = IF k < i THEN k ELSE k + 1
    BY <1>8
  <2>3. m = n
    BY <1>9, <1>11, <2>1, <2>2
  <2> QED BY <1>0, <1>6, <2>1, <2>2, <2>3
<1>12. ASSUME NEW x \in M \ {s[i]}
       PROVE  \E k \in 1 .. Len(w) : w[k] = x
  <2>1. PICK n \in 1 .. Len(s) : s[n] = x
    BY LinksFacts
  <2>2. CASE n < i
    BY <1>0, <1>6, <1>7, <2>1, <2>2
  <2>3. CASE n > i
    <3>1. n - 1 \in 1 .. Len(s) - 1 /\ w[n - 1] = s[n]
      BY <1>0, <1>7, <2>3
    <3> QED BY <1>6, <2>1, <3>1
  <2> QED BY <1>0, <2>1, <2>2, <2>3
<1>13. Links(w, M \ {s[i]})
  BY <1>10, <1>11, <1>12, LinksIntro
<1> QED BY <1>6, <1>7, <1>13 DEF w

\* Linking an element in the i-th place: where the others are then, and that
\* each is linked once.
LEMMA InsertElements ==
  ASSUME NEW s, NEW M, Links(s, M), NEW e, NEW i \in 1 .. Len(s) + 1
  PROVE  /\ InsertAt(s, i, e) = [k \in 1 .. Len(s) + 1 |-> InsertAt(s, i, e)[k]]
         /\ Len(InsertAt(s, i, e)) = Len(s) + 1
         /\ InsertAt(s, i, e)[i] = e
         /\ \A k \in 1 .. Len(s) + 1 :
              /\ k < i => InsertAt(s, i, e)[k] = s[k]
              /\ k > i => InsertAt(s, i, e)[k] = s[k - 1]
<1> DEFINE N == M \cup {e}
           u == SubSeq(s, 1, i - 1)
           m == <<e>>
           v == SubSeq(s, i, Len(s))
           w == InsertAt(s, i, e)
<1>0. /\ s \in Seq(M) /\ Len(s) \in Nat
      /\ 1 \in Int /\ i \in Int /\ i - 1 \in Int /\ Len(s) \in Int
  BY LinksFacts
<1>1. /\ \A k \in 1 .. Len(s) : s[k] \in M
      /\ \A k \in 1 .. Len(s) : s[k] \in N
  BY LinksFacts
<1>2. /\ u \in Seq(N) /\ Len(u) = i - 1
      /\ \A k \in 1 .. i - 1 : u[k] = s[k]
  <2> HIDE DEF N
  <2>1. /\ u \in Seq(N)
        /\ Len(u) = IF 1 <= i - 1 THEN i - 1 - 1 + 1 ELSE 0
        /\ \A k \in 1 .. i - 1 - 1 + 1 : u[k] = s[1 + k - 1]
    BY <1>1, <1>0, SubSeqProperties
  <2> HIDE DEF u
  <2> QED BY <1>0, <2>1
<1>3. /\ v \in Seq(N) /\ Len(v) = Len(s) - i + 1
      /\ \A k \in 1 .. Len(s) - i + 1 : v[k] = s[k + i - 1]
  <2> HIDE DEF N
  <2>1. /\ v \in Seq(N)
        /\ Len(v) = IF i <= Len(s) THEN Len(s) - i + 1 ELSE 0
        /\ \A k \in 1 .. Len(s) - i + 1 : v[k] = s[i + k - 1]
    BY <1>1, <1>0, SubSeqProperties
  <2> HIDE DEF v
  <2> QED BY <1>0, <2>1
<1>4. m \in Seq(N) /\ Len(m) = 1 /\ m[1] = e
  OBVIOUS
<1>5. w = (u \o m) \o v
  BY DEF InsertAt
<1> HIDE DEF u, v, m, w
<1> DEFINE um == u \o m
<1>6. /\ um \in Seq(N) /\ Len(um) = i
      /\ \A k \in 1 .. i : um[k] = IF k < i THEN s[k] ELSE e
  <2>1. /\ um \in Seq(N)
        /\ Len(um) = Len(u) + Len(m)
        /\ \A k \in 1 .. Len(u) + Len(m) :
             um[k] = IF k <= Len(u) THEN u[k] ELSE m[k - Len(u)]
    BY <1>2, <1>4, ConcatProperties
  <2> HIDE DEF um
  <2>2. Len(u) + Len(m) = i
    BY <1>2, <1>4
  <2>3. ASSUME NEW k \in 1 .. i PROVE um[k] = IF k < i THEN s[k] ELSE e
    <3>1. CASE k < i
      <4>1. k <= Len(u) /\ k \in 1 .. i - 1
        BY <1>0, <1>2, <3>1
      <4> QED BY <1>2, <2>1, <2>2, <3>1, <4>1
    <3>2. CASE k = i
      <4>1. ~(k <= Len(u)) /\ k - Len(u) = 1 /\ ~(k < i)
        BY <1>0, <1>2, <3>2
      <4>2. um[k] = m[k - Len(u)]
        BY <2>1, <2>2, <4>1
      <4> QED BY <1>4, <4>1, <4>2
    <3> QED BY <1>0, <3>1, <3>2
  <2> QED BY <2>1, <2>2, <2>3
<1> HIDE DEF um
<1>7. /\ w \in Seq(N)
      /\ Len(w) = i + Len(v)
      /\ \A k \in 1 .. i + Len(v) : w[k] = IF k <= i THEN um[k] ELSE v[k - i]
  <2>1. um \in Seq(N) /\ Len(um) = i /\ w = um \o v
    BY <1>5, <1>6 DEF um
  <2> QED BY <1>3, <2>1, ConcatProperties
<1>8. Len(w) = Len(s) + 1 /\ i + Len(v) = Len(s) + 1
  BY <1>0, <1>3, <1>7
<1>9. ASSUME NEW k \in 1 .. Len(s) + 1
      PROVE  w[k] = IF k < i THEN s[k] ELSE IF k = i THEN e ELSE s[k - 1]
  <2>1. k \in 1 .. i + Len(v)
    BY <1>8
  <2>2. CASE k <= i
    <3>1. w[k] = um[k] /\ k \in 1 .. i
      BY <1>0, <1>7, <2>1, <2>2
    <3> QED BY <1>6, <2>2, <3>1
  <2>3. CASE k > i
    <3>1. w[k] = v[k - i]
      BY <1>0, <1>7, <2>1, <2>3
    <3>2. k - i \in 1 .. Len(s) - i + 1 /\ k - i + i - 1 = k - 1
      BY <1>0, <2>3
    <3>3. v[k - i] = s[k - 1]
      BY <1>3, <3>2
    <3> QED BY <2>3, <3>1, <3>3
  <2> QED BY <1>0, <2>2, <2>3
<1>10. w[i] = e
  BY <1>0, <1>9
<1>11. ASSUME NEW k \in 1 .. Len(s) + 1
       PROVE  (k < i => w[k] = s[k]) /\ (k > i => w[k] = s[k - 1])
  BY <1>0, <1>9
<1>12. w = [k \in 1 .. Len(s) + 1 |-> w[k]]
  <2>1. w \in [1 .. Len(w) -> N]
    BY <1>7, LenProperties
  <2> QED BY <1>8, <2>1
<1> QED BY <1>8, <1>10, <1>11, <1>12 DEF w

LEMMA InsertLinks ==
  ASSUME NEW s, NEW M, Links(s, M), NEW e, e \notin M, NEW i \in 1 .. Len(s) + 1
  PROVE  Links(InsertAt(s, i, e), M \cup {e})
<1> DEFINE N == M \cup {e}
           w == InsertAt(s, i, e)
<1>0. s \in Seq(M) /\ Len(s) \in Nat /\ i \in Int
  BY LinksFacts
<1>1. \A k \in 1 .. Len(s) : s[k] \in M
  BY LinksFacts
<1>2. Len(w) = Len(s) + 1 /\ w = [k \in 1 .. Len(s) + 1 |-> w[k]]
  BY InsertElements
<1>3. /\ w[i] = e
      /\ \A k \in 1 .. Len(s) + 1 :
           /\ k < i => w[k] = s[k]
           /\ k > i => w[k] = s[k - 1]
  BY InsertElements
<1> HIDE DEF w
<1>4. ASSUME NEW k \in 1 .. Len(w)
       PROVE  \/ k = i /\ w[k] = e
              \/ \E n \in 1 .. Len(s) :
                   w[k] = s[n] /\ k # i /\ n = IF k < i THEN k ELSE k - 1
  <2>1. CASE k = i
    BY <1>3, <2>1
  <2>2. CASE k # i
    <3> DEFINE n == IF k < i THEN k ELSE k - 1
    <3>1. n \in 1 .. Len(s)
      BY <1>0, <1>2, <2>2
    <3>2. w[k] = s[n]
      BY <1>0, <1>2, <1>3, <2>2
    <3> QED BY <2>2, <3>1, <3>2
  <2> QED BY <2>1, <2>2
<1>5. ASSUME NEW j \in 1 .. Len(w), NEW k \in 1 .. Len(w), w[j] = w[k]
       PROVE  j = k
  <2>1. \A h, n \in 1 .. Len(s) : s[h] = s[n] => h = n
    BY LinksFacts
  <2>2. \A n \in 1 .. Len(s) : s[n] # e
    BY <1>1
  <2>3. CASE j = i \/ k = i
    BY <1>4, <1>5, <2>2, <2>3
  <2>4. CASE j # i /\ k # i
    <3>1. PICK h \in 1 .. Len(s) : w[j] = s[h] /\ h = IF j < i THEN j ELSE j - 1
      BY <1>4, <2>4
    <3>2. PICK n \in 1 .. Len(s) : w[k] = s[n] /\ n = IF k < i THEN k ELSE k - 1
      BY <1>4, <2>4
    <3>3. h = n
      BY <1>5, <2>1, <3>1, <3>2
    <3> QED BY <1>0, <1>2, <2>4, <3>1, <3>2, <3>3
  <2> QED BY <2>3, <2>4
<1>6. ASSUME NEW x \in N
       PROVE  \E k \in 1 .. Len(w) : w[k] = x
  <2>1. CASE x = e
    BY <1>0, <1>2, <1>3, <2>1
  <2>2. CASE x \in M
    <3>1. PICK n \in 1 .. Len(s) : s[n] = x
      BY <2>2, LinksFacts
    <3>2. CASE n < i
      <4>1. n \in 1 .. Len(s) + 1 /\ w[n] = s[n]
        BY <1>0, <1>3, <3>2
      <4> QED BY <1>2, <3>1, <4>1
    <3>3. CASE n >= i
      <4>1. n + 1 \in 1 .. Len(s) + 1 /\ ~(n + 1 < i) /\ n + 1 # i /\ n + 1 - 1 = n
        BY <1>0, <3>3
      <4>2. w[n + 1] = s[n]
        BY <1>3, <4>1
      <4> QED BY <1>2, <3>1, <4>1, <4>2
    <3> QED BY <1>0, <3>2, <3>3
  <2> QED BY <2>1, <2>2
<1>7. w \in Seq(N)
  <2>1. ASSUME NEW k \in 1 .. Len(w) PROVE w[k] \in N
    BY <1>1, <1>4, <2>1
  <2>2. w \in [1 .. Len(s) + 1 -> N]
    BY <1>2, <2>1
  <2> QED BY <1>0, <2>2
<1>8. Links(w, N)
  BY <1>5, <1>6, <1>7, LinksIntro
<1> QED BY <1>8 DEF w

\* Linking an element in front.
LEMMA ConsFacts ==
  ASSUME NEW s, NEW M, Links(s, M), NEW e, e \notin M
  PROVE  Links(<<e>> \o s, M \cup {e})
<1>1. s \in Seq(M) /\ Len(s) \in Nat
  BY LinksFacts
<1>2. InsertAt(s, 1, e) = <<e>> \o s
  <2>1. SubSeq(s, 1, 0) = <<>>
    BY SubSeqEmpty
  <2>2. SubSeq(s, 1, Len(s)) = s
    BY <1>1, SubSeqFull
  <2>3. <<e>> \in Seq({e}) /\ <<>> \o <<e>> = <<e>>
    OBVIOUS
  <2> QED BY <2>1, <2>2, <2>3 DEF InsertAt
<1>3. 1 \in 1 .. Len(s) + 1
  BY <1>1
<1>4. Links(InsertAt(s, 1, e), M \cup {e})
  BY <1>3, InsertLinks
<1> QED BY <1>2, <1>4

\* Taking the first element.
LEMMA TailFacts ==
  ASSUME NEW s, NEW M, Links(s, M), s # <<>>
  PROVE  /\ Len(s) \in Nat \ {0} /\ Head(s) = s[1] /\ s[1] \in M
         /\ Links(Tail(s), M \ {s[1]})
         /\ Len(Tail(s)) = Len(s) - 1
         /\ \A k \in 1 .. Len(s) - 1 : Tail(s)[k] = s[k + 1]
<1>1. s \in Seq(M) /\ Len(s) \in Nat \ {0} /\ 1 \in 1 .. Len(s)
  <2>1. s \in Seq(M) /\ Len(s) \in Nat
    BY LinksFacts
  <2>2. Len(s) # 0
    BY <2>1, EmptySeq
  <2> QED BY <2>1, <2>2
<1>2. Tail(s) = RemoveAt(s, 1)
  <2>1. SubSeq(s, 1, 1 - 1) = <<>>
    BY SubSeqEmpty
  <2>2. Tail(s) = SubSeq(s, 1 + 1, Len(s)) /\ Tail(s) \in Seq(M)
    <3>1. Len(s) \in 1 .. Len(s) /\ SubSeq(s, 1, Len(s)) = s
      BY <1>1, SubSeqFull
    <3>2. Tail(SubSeq(s, 1, Len(s))) = SubSeq(s, 1 + 1, Len(s))
      BY <1>1, <3>1, HeadTailOfSubSeq
    <3> QED BY <1>1, <3>1, <3>2, HeadTailProperties
  <2>3. <<>> \o Tail(s) = Tail(s)
    BY <2>2, ConcatEmptySeq
  <2> QED BY <2>1, <2>2, <2>3 DEF RemoveAt
<1>3. /\ Links(RemoveAt(s, 1), M \ {s[1]})
      /\ Len(RemoveAt(s, 1)) = Len(s) - 1
      /\ \A k \in 1 .. Len(s) - 1 :
           RemoveAt(s, 1)[k] = IF k < 1 THEN s[k] ELSE s[k + 1]
  BY <1>1, RemoveFacts
<1>4. \A k \in 1 .. Len(s) - 1 : RemoveAt(s, 1)[k] = s[k + 1]
  BY <1>3
<1>5. Head(s) = s[1] /\ s[1] \in M
  BY <1>1, LinksFacts
<1> QED BY <1>1, <1>2, <1>3, <1>4, <1>5

-----------------------------------------------------------------------------
(***************************************************************************)
(* What the invariant says of the two lists.                               *)
(***************************************************************************)

\* Lists over control blocks, by their ranges.
LEMMA LinksRange ==
  ASSUME NEW M \in SUBSET Timers, NEW s
  PROVE  Links(s, M) <=>
           /\ s \in Seq(Timers)
           /\ \A i, j \in DOMAIN s : s[i] = s[j] => i = j
           /\ \A t \in Timers : t \in Range(s) <=> t \in M
<1>1. ASSUME Links(s, M)
      PROVE  s \in Seq(Timers)
  <2>1. s \in Seq(M) /\ Len(s) \in Nat /\ s \in [1 .. Len(s) -> M]
    BY <1>1, LenProperties DEF Links
  <2>2. s \in [1 .. Len(s) -> Timers]
    BY <2>1
  <2> QED BY <2>1, <2>2
<1>2. ASSUME s \in Seq(Timers), \A t \in Timers : t \in Range(s) <=> t \in M
      PROVE  s \in Seq(M) /\ Range(s) = M
  <2>1. /\ Len(s) \in Nat /\ s \in [1 .. Len(s) -> Timers]
        /\ Range(s) = {s[i] : i \in 1 .. Len(s)}
    BY <1>2, LenProperties, RangeEquality
  <2>2. Range(s) = M
    BY <1>2, <2>1
  <2>3. s \in [1 .. Len(s) -> M]
    BY <2>1, <2>2
  <2> QED BY <2>1, <2>2, <2>3
<1> QED BY <1>1, <1>2 DEF Links, IsInjective

\* The timers in either list.
Linked == {t \in Timers : state[t] = "ticking" /\ cs.timer # t}
Unused == {t \in Timers : state[t] = "unused" /\ t \notin taken}

\* The timers of blocks that have been taken stay away, when no state is left
\* or entered but by timers that there are.
LEMMA FreshKept ==
  ASSUME SwtmrTypeOK, Fresh, UNCHANGED taken,
         \A x \in Timers : state[x] = "unused" => state'[x] = "unused"
  PROVE  Fresh' /\ taken' \subseteq Timers
BY DEF Fresh, SwtmrTypeOK

LEMMA OneLinkFacts ==
  ASSUME SwtmrTypeOK, OneLink
  PROVE  Links(list, Linked) /\ Links(free, Unused)
<1>1. Linked \in SUBSET Timers /\ Unused \in SUBSET Timers
  BY DEF Linked, Unused
<1>2. Links(list, Linked)
  <2>1. \A t \in Timers : t \in Range(list) <=> t \in Linked
    BY DEF OneLink, Linked
  <2> QED BY <1>1, <2>1, LinksRange DEF OneLink, SwtmrTypeOK
<1>3. Links(free, Unused)
  <2>1. \A t \in Timers : t \in Range(free) <=> t \in Unused
    BY DEF OneLink, Unused
  <2> QED BY <1>1, <2>1, LinksRange DEF OneLink, SwtmrTypeOK
<1> QED BY <1>2, <1>3

LEMMA OneLinkNext ==
  ASSUME Links(list', Linked'), Links(free', Unused')
  PROVE  OneLink' /\ list' \in Seq(Timers) /\ free' \in Seq(Timers)
<1>1. Linked' \in SUBSET Timers /\ Unused' \in SUBSET Timers
  BY DEF Linked, Unused
<1>2. /\ list' \in Seq(Timers)
      /\ \A i, j \in DOMAIN list' : list'[i] = list'[j] => i = j
      /\ \A t \in Timers : t \in Range(list') <=> t \in Linked'
  BY <1>1, LinksRange
<1>3. /\ free' \in Seq(Timers)
      /\ \A i, j \in DOMAIN free' : free'[i] = free'[j] => i = j
      /\ \A t \in Timers : t \in Range(free') <=> t \in Unused'
  BY <1>1, LinksRange
<1>4. /\ \A t \in Timers : t \in Linked' <=> state'[t] = "ticking" /\ cs'.timer # t
      /\ \A t \in Timers :
           t \in Unused' <=> state'[t] = "unused" /\ t \notin taken'
  BY DEF Linked, Unused
<1> QED BY <1>2, <1>3, <1>4 DEF OneLink

\* The ticks of the timer before the i-th.
Before(i) == IF i = 1 THEN 0 ELSE left[list[i - 1]]

\* The list by positions.
LEMMA ListFacts ==
  ASSUME SwtmrTypeOK, OneLink, CountsAddUp, Ordered
  PROVE  /\ Len(list) \in Nat /\ DOMAIN list = 1 .. Len(list)
         /\ \A i \in 1 .. Len(list) : list[i] \in Linked /\ list[i] \in Timers
         /\ \A i, j \in 1 .. Len(list) : list[i] = list[j] => i = j
         /\ \A x \in Linked : \E i \in 1 .. Len(list) : list[i] = x
         /\ \A i \in 1 .. Len(list) :
              /\ left[list[i]] \in Nat /\ count[list[i]] \in Nat
              /\ Before(i) \in Nat
              /\ left[list[i]] = count[list[i]] + Before(i)
         /\ \A i, j \in 1 .. Len(list) : i <= j => left[list[i]] <= left[list[j]]
<1>1. Links(list, Linked)
  BY OneLinkFacts
<1>2. /\ Len(list) \in Nat
      /\ \A i \in 1 .. Len(list) : list[i] \in Linked
      /\ \A i, j \in 1 .. Len(list) : list[i] = list[j] => i = j
      /\ \A x \in Linked : \E i \in 1 .. Len(list) : list[i] = x
  BY <1>1, LinksFacts
<1>3. DOMAIN list = 1 .. Len(list) /\ Linked \subseteq Timers
  BY LenProperties DEF SwtmrTypeOK, Linked
<1>4. \A i \in 1 .. Len(list) : list[i] \in Timers
  BY <1>2, <1>3
<1>5. \A i \in 1 .. Len(list) : left[list[i]] \in Nat /\ count[list[i]] \in Nat
  BY <1>4 DEF SwtmrTypeOK
<1>6. ASSUME NEW i \in 1 .. Len(list) PROVE Before(i) \in Nat
  <2>1. CASE i = 1
    BY <2>1 DEF Before
  <2>2. CASE i # 1
    <3>1. i - 1 \in 1 .. Len(list)
      BY <1>2, <2>2
    <3> QED BY <1>5, <2>2, <3>1 DEF Before
  <2> QED BY <2>1, <2>2
<1>7. \A i \in 1 .. Len(list) : left[list[i]] = count[list[i]] + Before(i)
  BY <1>3 DEF CountsAddUp, Before
<1> QED BY <1>2, <1>3, <1>4, <1>5, <1>6, <1>7 DEF Ordered

-----------------------------------------------------------------------------
(***************************************************************************)
(* Taking a timer out of the list and linking it in.                       *)
(***************************************************************************)

\* osSwtmrStop of a ticking timer.
LEMMA UnlinkedKeeps ==
  ASSUME SwtmrInv, cs.in = "no", NEW t \in Timers, state[t] = "ticking", Unlinked(t)
  PROVE  /\ Links(list', Linked \ {t})
         /\ count' \in [Timers -> Nat]
         /\ left' \in [Timers -> Nat]
         /\ CountsAddUp'
         /\ Ordered'
         /\ \A i \in DOMAIN list' : left'[list'[i]] > 0
<1> DEFINE n == Len(list)
           p == Position(t)
<1>0. /\ SwtmrTypeOK /\ OneLink /\ CountsAddUp /\ Ordered /\ Coming
      /\ cs.timer = NoTimer /\ NoTimer \notin Timers
  BY SwtmrAssumption DEF SwtmrInv, Walks
<1>1. /\ n \in Nat /\ DOMAIN list = 1 .. n
      /\ \A i \in 1 .. n : list[i] \in Timers
      /\ \A i, j \in 1 .. n : list[i] = list[j] => i = j
      /\ \A x \in Linked : \E i \in 1 .. n : list[i] = x
  BY <1>0, ListFacts
<1>2. \A i \in 1 .. n :
        /\ left[list[i]] \in Nat /\ count[list[i]] \in Nat
        /\ left[list[i]] = count[list[i]] + Before(i)
  BY <1>0, ListFacts
<1>3. t \in Linked
  BY <1>0 DEF Linked
<1>4. p \in 1 .. n /\ list[p] = t
  BY <1>1, <1>3 DEF Position
<1>5. /\ left' \in [Timers -> Nat]
      /\ \A x \in Timers : x # t => left'[x] = left[x]
  BY <1>0 DEF Unlinked, SwtmrTypeOK
<1>6. \A x \in Timers :
        count'[x] = IF p < n /\ x = list[p + 1] THEN count[x] + count[t] ELSE count[x]
  BY DEF Unlinked, FollowerGets
<1>7. count' \in [Timers -> Nat]
  <2>1. count' = [x \in Timers |->
                    IF p < n /\ x = list[p + 1] THEN count[x] + count[t] ELSE count[x]]
    BY DEF Unlinked, FollowerGets
  <2>2. count \in [Timers -> Nat]
    BY <1>0 DEF SwtmrTypeOK
  <2> QED BY <2>1, <2>2
<1>8. list' = RemoveAt(list, p)
  BY DEF Unlinked
<1> HIDE DEF p
<1>9. /\ Links(list', Linked \ {t})
      /\ Len(list') = n - 1
      /\ \A k \in 1 .. n - 1 : list'[k] = IF k < p THEN list[k] ELSE list[k + 1]
  <2>1. Links(list, Linked)
    BY <1>0, OneLinkFacts
  <2> QED BY <1>4, <1>8, <2>1, RemoveFacts
<1>10. DOMAIN list' = 1 .. n - 1
  <2>1. list' \in Seq(Linked \ {t})
    BY <1>9 DEF Links
  <2> QED BY <1>9, <2>1, LenProperties
<1> HIDE DEF n
<1> DEFINE Old(k) == IF k < p THEN k ELSE k + 1
<1>11. \A k \in 1 .. n - 1 :
         /\ Old(k) \in 1 .. n /\ list'[k] = list[Old(k)]
         /\ left'[list'[k]] = left[list[Old(k)]]
         /\ list'[k] \in Timers
  <2> SUFFICES ASSUME NEW k \in 1 .. n - 1
               PROVE  /\ Old(k) \in 1 .. n /\ list'[k] = list[Old(k)]
                      /\ left'[list'[k]] = left[list[Old(k)]]
                      /\ list'[k] \in Timers
    OBVIOUS
  <2>1. Old(k) \in 1 .. n /\ Old(k) # p /\ p \in 1 .. n
    BY <1>1, <1>4
  <2>2. list'[k] = list[Old(k)]
    BY <1>9
  <2> HIDE DEF Old
  <2>3. list[Old(k)] \in Timers /\ list[Old(k)] # t
    BY <1>1, <1>4, <2>1
  <2> QED BY <1>5, <2>1, <2>2, <2>3
<1>12. ASSUME NEW i \in 1 .. n - 1
       PROVE  left'[list'[i]] =
                count'[list'[i]] + (IF i = 1 THEN 0 ELSE left'[list'[i - 1]])
  <2>1. CASE i < p
    <3>1. i \in 1 .. n /\ p \in 1 .. n /\ list'[i] = list[i] /\ left'[list'[i]] = left[list[i]]
      BY <1>1, <1>4, <1>11, <2>1
    <3>2. count'[list[i]] = count[list[i]]
      <4>1. p < n => p + 1 \in 1 .. n /\ p + 1 # i
        BY <1>1, <1>4, <2>1
      <4> QED BY <1>1, <1>6, <3>1, <4>1
    <3>3. (IF i = 1 THEN 0 ELSE left'[list'[i - 1]]) = Before(i)
      <4>1. CASE i # 1
        <5>1. i - 1 \in 1 .. n - 1 /\ Old(i - 1) = i - 1
          BY <1>1, <1>4, <2>1, <4>1
        <5>2. left'[list'[i - 1]] = left[list[i - 1]]
          BY <1>11, <5>1
        <5> QED BY <4>1, <5>2 DEF Before
      <4> QED BY <4>1 DEF Before
    <3> QED BY <1>2, <3>1, <3>2, <3>3
  <2>2. CASE i = p
    <3>1. /\ i \in 1 .. n /\ i + 1 \in 1 .. n /\ p < n
          /\ list'[i] = list[i + 1] /\ left'[list'[i]] = left[list[i + 1]]
      BY <1>1, <1>4, <1>11, <2>2
    <3>2. count'[list[i + 1]] = count[list[i + 1]] + count[t]
      BY <1>1, <1>6, <2>2, <3>1
    <3>3. (IF i = 1 THEN 0 ELSE left'[list'[i - 1]]) = Before(i)
      <4>1. CASE i # 1
        <5>1. i - 1 \in 1 .. n - 1 /\ Old(i - 1) = i - 1
          BY <1>1, <1>4, <2>2, <4>1
        <5>2. left'[list'[i - 1]] = left[list[i - 1]]
          BY <1>11, <5>1
        <5> QED BY <4>1, <5>2 DEF Before
      <4> QED BY <4>1 DEF Before
    <3>4. Before(i + 1) = left[t]
      BY <1>1, <1>4, <2>2 DEF Before
    <3>5. left[t] = count[t] + Before(i) /\ left[t] \in Nat /\ count[t] \in Nat
      BY <1>2, <1>4, <2>2
    <3>6. left[list[i + 1]] = count[list[i + 1]] + left[t] /\ count[list[i + 1]] \in Nat
      BY <1>2, <3>1, <3>4
    <3>7. Before(i) = left[t] - count[t]
      <4>1. Before(i) \in Nat
        BY <1>0, <3>1, ListFacts DEF n
      <4> QED BY <3>5, <4>1
    <3> QED BY <3>1, <3>2, <3>3, <3>5, <3>6, <3>7
  <2>3. CASE i > p
    <3>1. /\ i + 1 \in 1 .. n /\ i - 1 \in 1 .. n - 1 /\ i # 1
          /\ list'[i] = list[i + 1] /\ left'[list'[i]] = left[list[i + 1]]
          /\ Old(i - 1) = i
      BY <1>1, <1>4, <1>11, <2>3
    <3>2. count'[list[i + 1]] = count[list[i + 1]]
      <4>1. p < n => p + 1 \in 1 .. n /\ p + 1 # i + 1
        BY <1>1, <1>4, <2>3
      <4> QED BY <1>1, <1>6, <3>1, <4>1
    <3>3. left'[list'[i - 1]] = left[list[i]]
      BY <1>11, <3>1
    <3>4. Before(i + 1) = left[list[i]]
      BY <1>1, <3>1 DEF Before
    <3> QED BY <1>2, <3>1, <3>2, <3>3, <3>4
  <2> QED BY <1>1, <1>4, <2>1, <2>2, <2>3
<1>13. CountsAddUp'
  BY <1>10, <1>12 DEF CountsAddUp
<1>14. Ordered'
  <2>1. ASSUME NEW i \in 1 .. n - 1, NEW j \in 1 .. n - 1, i <= j
        PROVE  left'[list'[i]] <= left'[list'[j]]
    <3>1. Old(i) <= Old(j) /\ Old(i) \in 1 .. n /\ Old(j) \in 1 .. n
      BY <1>1, <1>4, <2>1
    <3>2. left[list[Old(i)]] <= left[list[Old(j)]]
      BY <1>0, <1>1, <3>1 DEF Ordered
    <3> QED BY <1>11, <3>2
  <2> QED BY <1>10, <2>1 DEF Ordered
<1>15. \A i \in DOMAIN list' : left'[list'[i]] > 0
  <2>1. \A k \in 1 .. n : left[list[k]] > 0
    BY <1>0, <1>1 DEF Coming
  <2> QED BY <1>10, <1>11, <2>1
<1> QED BY <1>5, <1>7, <1>9, <1>13, <1>14, <1>15

\* The end of osSwTmrStart's walk.
LEMMA InsertedKeeps ==
  ASSUME SwtmrInv, WalkEnd
  PROVE  /\ Links(list', Linked \cup {cs.timer})
         /\ count' \in [Timers -> Nat]
         /\ left' \in [Timers -> Nat]
         /\ CountsAddUp'
         /\ Ordered'
         /\ left'[cs.timer] > 0
         /\ \A x \in Timers : x # cs.timer => left'[x] = left[x]
<1> DEFINE n == Len(list)
           p == cs.pos
           t == cs.timer
           r == cs.rest
           Old(k) == IF k < p THEN k ELSE k - 1
<1>0. /\ SwtmrTypeOK /\ OneLink /\ CountsAddUp /\ Ordered /\ Periods /\ Walks
  BY DEF SwtmrInv
<1>1. /\ n \in Nat /\ DOMAIN list = 1 .. n
      /\ \A i \in 1 .. n : list[i] \in Timers /\ list[i] \in Linked
      /\ \A i, j \in 1 .. n : list[i] = list[j] => i = j
  BY <1>0, ListFacts
<1>2. \A i \in 1 .. n :
        /\ left[list[i]] \in Nat /\ count[list[i]] \in Nat /\ Before(i) \in Nat
        /\ left[list[i]] = count[list[i]] + Before(i)
  BY <1>0, ListFacts
<1>3. /\ t \in Timers /\ t \notin Linked /\ r \in Nat /\ p \in 1 .. n + 1
      /\ interval[t] \in Nat /\ interval[t] > 0
      /\ r + Before(p) = interval[t] /\ Before(p) \in Nat
  <2>1. /\ t \in Timers /\ r \in Nat /\ p \in Nat \ {0} /\ p <= n + 1
        /\ interval[t] \in Nat
    BY <1>0 DEF WalkEnd, SwtmrTypeOK, Walks
  <2>2. t \notin Linked
    BY DEF Linked
  <2>3. state[t] # "unused"
    BY <1>0 DEF WalkEnd, Walks
  <2>4. r + Before(p) = interval[t]
    BY <1>0 DEF WalkEnd, Walks, Before
  <2>5. Before(p) \in Nat
    <3>1. CASE p = 1
      BY <3>1 DEF Before
    <3>2. CASE p # 1
      <4>1. p - 1 \in 1 .. n
        BY <1>1, <2>1, <3>2
      <4> QED BY <1>2, <3>2, <4>1 DEF Before
    <3> QED BY <3>1, <3>2
  <2> QED BY <1>0, <1>1, <2>1, <2>2, <2>3, <2>4, <2>5 DEF Periods
<1>4. p <= n => count[list[p]] > r
  <2>1. p <= n => p \in 1 .. n /\ ~(count[list[p]] <= r)
    BY <1>1, <1>3 DEF WalkEnd, Passed
  <2> QED BY <1>2, <1>3, <2>1
<1>5. /\ list' = InsertAt(list, p, t)
      /\ count' = [x \in Timers |-> IF x = t THEN r ELSE Shortened(x)]
      /\ left' = [left EXCEPT ![t] = interval[t]]
  BY DEF WalkEnd
<1>6. /\ left' \in [Timers -> Nat] /\ left'[t] = interval[t]
      /\ \A x \in Timers : x # t => left'[x] = left[x]
  BY <1>0, <1>3, <1>5 DEF SwtmrTypeOK
<1>7. /\ count'[t] = r
      /\ \A x \in Timers : x # t =>
           count'[x] = IF p <= n /\ x = list[p] THEN count[x] - r ELSE count[x]
  BY <1>3, <1>5 DEF Shortened
<1>8. count' \in [Timers -> Nat]
  <2>1. ASSUME NEW x \in Timers PROVE (IF x = t THEN r ELSE Shortened(x)) \in Nat
    <3>1. CASE p <= n /\ x = list[p]
      <4>1. count[x] > r /\ count[x] \in Nat
        BY <1>0, <1>4, <3>1 DEF SwtmrTypeOK
      <4>2. count[x] - r \in Nat
        BY <1>3, <4>1
      <4> QED BY <1>3, <3>1, <4>2 DEF Shortened
    <3>2. CASE ~(p <= n /\ x = list[p])
      BY <1>0, <1>3, <3>2 DEF Shortened, SwtmrTypeOK
    <3> QED BY <3>1, <3>2
  <2> QED BY <1>5, <2>1
<1>9. /\ Links(list', Linked \cup {t})
      /\ Len(list') = n + 1
      /\ list'[p] = t
      /\ \A k \in 1 .. n + 1 :
           (k < p => list'[k] = list[k]) /\ (k > p => list'[k] = list[k - 1])
  <2>1. Links(list, Linked)
    BY <1>0, OneLinkFacts
  <2>2. p \in 1 .. Len(list) + 1 /\ t \notin Linked
    BY <1>3
  <2> HIDE DEF p, t
  <2>3. Links(InsertAt(list, p, t), Linked \cup {t})
    BY <2>1, <2>2, InsertLinks
  <2>4. /\ Len(InsertAt(list, p, t)) = Len(list) + 1
        /\ InsertAt(list, p, t)[p] = t
        /\ \A k \in 1 .. Len(list) + 1 :
             /\ k < p => InsertAt(list, p, t)[k] = list[k]
             /\ k > p => InsertAt(list, p, t)[k] = list[k - 1]
    BY <2>1, <2>2, InsertElements
  <2> QED BY <1>5, <2>3, <2>4
<1>10. DOMAIN list' = 1 .. n + 1
  <2>1. list' \in Seq(Linked \cup {t})
    BY <1>9 DEF Links
  <2> QED BY <1>9, <2>1, LenProperties
<1> HIDE DEF n, p, t, r
<1>11. ASSUME NEW k \in 1 .. n + 1, k # p
       PROVE  /\ Old(k) \in 1 .. n /\ list'[k] = list[Old(k)]
              /\ list'[k] \in Timers /\ list'[k] # t
              /\ left'[list'[k]] = left[list[Old(k)]]
  <2>1. Old(k) \in 1 .. n
    BY <1>1, <1>3, <1>11
  <2>2. list'[k] = list[Old(k)]
    BY <1>1, <1>3, <1>9, <1>11
  <2> HIDE DEF Old
  <2>3. list[Old(k)] \in Timers /\ list[Old(k)] # t
    BY <1>1, <1>3, <2>1
  <2> QED BY <1>6, <2>1, <2>2, <2>3
<1>12. list'[p] = t /\ left'[list'[p]] = interval[t]
  BY <1>3, <1>6, <1>9
<1>13. ASSUME NEW i \in 1 .. n + 1
       PROVE  left'[list'[i]] =
                count'[list'[i]] + (IF i = 1 THEN 0 ELSE left'[list'[i - 1]])
  <2>1. ASSUME i <= p
        PROVE  (IF i = 1 THEN 0 ELSE left'[list'[i - 1]]) = Before(i)
    <3>1. CASE i = 1
      BY <3>1 DEF Before
    <3>2. CASE i # 1
      <4>1. i - 1 \in 1 .. n + 1 /\ i - 1 # p /\ Old(i - 1) = i - 1
        BY <1>1, <1>3, <2>1, <3>2
      <4>2. left'[list'[i - 1]] = left[list[i - 1]]
        BY <1>11, <4>1
      <4> QED BY <3>2, <4>2 DEF Before
    <3> QED BY <3>1, <3>2
  <2>2. CASE i < p
    <3>1. i # p /\ Old(i) = i /\ i \in 1 .. n /\ i <= p
      BY <1>1, <1>3, <2>2
    <3>2. list'[i] = list[i] /\ left'[list'[i]] = left[list[i]]
      BY <1>11, <3>1
    <3>3. count'[list[i]] = count[list[i]]
      <4>1. p <= n => p \in 1 .. n
        BY <1>3
      <4> QED BY <1>1, <1>7, <1>11, <3>1, <3>2, <4>1
    <3> QED BY <1>2, <2>1, <3>1, <3>2, <3>3
  <2>3. CASE i = p
    BY <1>3, <1>7, <1>12, <2>1, <2>3
  <2>4. CASE i = p + 1
    <3>1. i # p /\ Old(i) = p /\ p \in 1 .. n /\ i - 1 = p /\ i # 1
      BY <1>1, <1>3, <2>4
    <3>2. list'[i] = list[p] /\ left'[list'[i]] = left[list[p]] /\ list[p] # t
      BY <1>11, <3>1
    <3>3. count'[list[p]] = count[list[p]] - r
      BY <1>1, <1>3, <1>7, <3>1, <3>2
    <3>4. left'[list'[i - 1]] = r + Before(p)
      BY <1>3, <1>12, <3>1
    <3>5. left[list[p]] = count[list[p]] + Before(p) /\ count[list[p]] \in Nat
      BY <1>2, <3>1
    <3> QED BY <1>3, <3>1, <3>2, <3>3, <3>4, <3>5
  <2>5. CASE i > p + 1
    <3>1. /\ i # p /\ Old(i) = i - 1 /\ i - 1 \in 1 .. n /\ i # 1 /\ i - 1 # 1
          /\ i - 1 \in 1 .. n + 1 /\ i - 1 # p /\ Old(i - 1) = i - 2
      BY <1>1, <1>3, <2>5
    <3>2. list'[i] = list[i - 1] /\ left'[list'[i]] = left[list[i - 1]] /\ list[i - 1] # t
      BY <1>11, <3>1
    <3>3. count'[list[i - 1]] = count[list[i - 1]]
      <4>1. p <= n => p \in 1 .. n
        BY <1>3
      <4> QED BY <1>1, <1>7, <3>1, <3>2, <4>1
    <3>4. left'[list'[i - 1]] = left[list[i - 2]]
      BY <1>11, <3>1
    <3>5. Before(i - 1) = left[list[i - 2]]
      <4>1. i - 1 - 1 = i - 2
        OBVIOUS
      <4> QED BY <3>1, <4>1 DEF Before
    <3> QED BY <1>2, <3>1, <3>2, <3>3, <3>4, <3>5
  <2> QED BY <1>1, <1>3, <2>2, <2>3, <2>4, <2>5
<1>14. CountsAddUp'
  BY <1>10, <1>13 DEF CountsAddUp
<1>15. \A i, j \in 1 .. n : i <= j => left[list[i]] <= left[list[j]]
  BY <1>0, ListFacts DEF n
<1>16. ASSUME NEW i \in 1 .. n + 1, NEW j \in 1 .. n + 1, i <= j
       PROVE  left'[list'[i]] <= left'[list'[j]]
  <2>1. CASE i = p /\ j = p
    BY <1>3, <1>12, <2>1
  <2>2. CASE i # p /\ j # p
    <3>1. Old(i) \in 1 .. n /\ Old(j) \in 1 .. n /\ Old(i) <= Old(j)
      BY <1>1, <1>3, <1>16, <2>2
    <3> QED BY <1>11, <1>15, <2>2, <3>1
  <2>3. CASE i # p /\ j = p
    <3>1. i < p /\ Old(i) = i /\ i \in 1 .. n /\ p - 1 \in 1 .. n /\ i <= p - 1 /\ p # 1
      BY <1>1, <1>3, <1>16, <2>3
    <3>2. left[list[i]] <= left[list[p - 1]]
      BY <1>15, <3>1
    <3>3. Before(p) = left[list[p - 1]]
      BY <3>1 DEF Before
    <3>4. left'[list'[i]] = left[list[i]] /\ left[list[i]] \in Nat
      BY <1>2, <1>11, <3>1
    <3> QED BY <1>3, <1>12, <2>3, <3>2, <3>3, <3>4
  <2>4. CASE i = p /\ j # p
    <3>1. j > p /\ Old(j) = j - 1 /\ j - 1 \in 1 .. n /\ p \in 1 .. n /\ p <= j - 1
      BY <1>1, <1>3, <1>16, <2>4
    <3>2. left[list[p]] <= left[list[j - 1]]
      BY <1>15, <3>1
    <3>3. left[list[p]] = count[list[p]] + Before(p) /\ count[list[p]] > r
          /\ count[list[p]] \in Nat
      BY <1>2, <1>4, <3>1
    <3>4. left'[list'[j]] = left[list[j - 1]] /\ left[list[j - 1]] \in Nat
      BY <1>2, <1>11, <2>4, <3>1
    <3> QED BY <1>3, <1>12, <2>4, <3>2, <3>3, <3>4
  <2> QED BY <2>1, <2>2, <2>3, <2>4
<1>17. Ordered'
  BY <1>10, <1>16 DEF Ordered
<1>18. left'[t] > 0
  BY <1>3, <1>6
<1> QED BY <1>6, <1>8, <1>9, <1>14, <1>17, <1>18 DEF t

\* Every ticking timer has a tick less.
LEMMA TickKeeps ==
  ASSUME SwtmrInv, Tick
  PROVE  /\ count' \in [Timers -> Nat]
         /\ left' \in [Timers -> Nat]
         /\ CountsAddUp'
         /\ Ordered'
         /\ cs'.in # "tick" => \A i \in DOMAIN list' : left'[list'[i]] > 0
<1> DEFINE n == Len(list)
           h == list[1]
<1>0. /\ SwtmrTypeOK /\ OneLink /\ CountsAddUp /\ Ordered /\ Coming
      /\ cs.in = "no" /\ cs.timer = NoTimer /\ NoTimer \notin Timers
  BY SwtmrAssumption DEF SwtmrInv, Walks, Tick
<1>1. /\ n \in Nat /\ DOMAIN list = 1 .. n
      /\ \A i \in 1 .. n : list[i] \in Timers /\ list[i] \in Linked
      /\ \A i, j \in 1 .. n : list[i] = list[j] => i = j
      /\ \A x \in Linked : \E i \in 1 .. n : list[i] = x
  BY <1>0, ListFacts
<1>2. \A i \in 1 .. n :
        /\ left[list[i]] \in Nat /\ count[list[i]] \in Nat
        /\ left[list[i]] = count[list[i]] + Before(i)
  BY <1>0, ListFacts
<1>3. 1 \in 1 .. n /\ h \in Timers
  <2>1. n # 0
    BY <1>0, EmptySeq DEF Tick, SwtmrTypeOK
  <2> QED BY <1>1, <2>1
<1>4. /\ list' = list
      /\ count' = [count EXCEPT ![h] = @ - 1]
      /\ left' = [x \in Timers |-> IF state[x] = "ticking" THEN left[x] - 1 ELSE left[x]]
      /\ cs' = IF count[h] = 1 THEN [Idle EXCEPT !.in = "tick"] ELSE Idle
  BY DEF Tick
<1>5. \A i \in 1 .. n : left[list[i]] > 0
  BY <1>0, <1>1 DEF Coming
<1>6. count[h] = left[h] /\ count[h] \in Nat \ {0}
  <2>1. Before(1) = 0
    BY DEF Before
  <2>2. /\ left[h] \in Nat /\ count[h] \in Nat
        /\ left[h] = count[h] + Before(1) /\ left[h] > 0
    BY <1>2, <1>3, <1>5
  <2> QED BY <2>1, <2>2
<1>7. /\ count' \in [Timers -> Nat] /\ count'[h] = count[h] - 1
      /\ \A x \in Timers : x # h => count'[x] = count[x]
  <2>1. count \in [Timers -> Nat] /\ count[h] - 1 \in Nat
    BY <1>0, <1>6 DEF SwtmrTypeOK
  <2> QED BY <1>3, <1>4, <2>1
<1>8. ASSUME NEW i \in 1 .. n PROVE left'[list[i]] = left[list[i]] - 1
  <2>1. state[list[i]] = "ticking" /\ list[i] \in Timers
    BY <1>1 DEF Linked
  <2> QED BY <1>4, <2>1
<1>9. left' \in [Timers -> Nat]
  <2>1. ASSUME NEW x \in Timers
        PROVE  (IF state[x] = "ticking" THEN left[x] - 1 ELSE left[x]) \in Nat
    <3>1. CASE state[x] = "ticking"
      <4>1. x \in Linked
        BY <1>0, <3>1 DEF Linked
      <4>2. left[x] > 0 /\ left[x] \in Nat
        BY <1>1, <1>2, <1>5, <4>1
      <4> QED BY <3>1, <4>2
    <3>2. CASE state[x] # "ticking"
      BY <1>0, <3>2 DEF SwtmrTypeOK
    <3> QED BY <3>1, <3>2
  <2> QED BY <1>4, <2>1
<1> HIDE DEF n
<1>10. ASSUME NEW i \in 1 .. n
       PROVE  left'[list[i]] =
                count'[list[i]] + (IF i = 1 THEN 0 ELSE left'[list[i - 1]])
  <2>1. CASE i = 1
    BY <1>3, <1>6, <1>7, <1>8, <2>1
  <2>2. CASE i # 1
    <3>1. i - 1 \in 1 .. n
      BY <1>1, <2>2
    <3>2. count'[list[i]] = count[list[i]]
      BY <1>1, <1>3, <1>7, <2>2
    <3>3. left'[list[i - 1]] = left[list[i - 1]] - 1
      BY <1>8, <3>1
    <3>4. Before(i) = left[list[i - 1]] /\ left[list[i - 1]] \in Nat
      BY <1>2, <2>2, <3>1 DEF Before
    <3> QED BY <1>2, <1>8, <2>2, <3>2, <3>3, <3>4
  <2> QED BY <2>1, <2>2
<1>11. CountsAddUp'
  BY <1>1, <1>4, <1>10 DEF CountsAddUp
<1>12. \A i, j \in 1 .. n : i <= j => left[list[i]] <= left[list[j]]
  BY <1>0, ListFacts DEF n
<1>13. Ordered'
  <2>1. ASSUME NEW i \in 1 .. n, NEW j \in 1 .. n, i <= j
        PROVE  left'[list[i]] <= left'[list[j]]
    BY <1>2, <1>8, <1>12, <2>1
  <2> QED BY <1>1, <1>4, <2>1 DEF Ordered
<1>14. ASSUME cs'.in # "tick", NEW i \in 1 .. n PROVE left'[list[i]] > 0
  <2>1. count[h] # 1
    BY <1>4, <1>14 DEF Idle
  <2>2. left[h] > 1
    BY <1>6, <2>1
  <2>3. left[h] <= left[list[i]]
    BY <1>1, <1>3, <1>12
  <2>4. left[list[i]] \in Nat /\ left[h] \in Nat
    BY <1>2, <1>3
  <2> QED BY <1>8, <2>2, <2>3, <2>4
<1> QED BY <1>1, <1>4, <1>7, <1>9, <1>11, <1>13, <1>14

\* The first timer, which is due, leaves the list.
LEMMA ExpireKeeps ==
  ASSUME SwtmrInv, cs.timer = NoTimer, list # <<>>, count[list[1]] = 0,
         list' = Tail(list), UNCHANGED <<count, left>>
  PROVE  /\ list[1] \in Linked /\ left[list[1]] = 0
         /\ Links(list', Linked \ {list[1]})
         /\ CountsAddUp'
         /\ Ordered'
<1> DEFINE n == Len(list)
<1>0. SwtmrTypeOK /\ OneLink /\ CountsAddUp /\ Ordered
  BY DEF SwtmrInv
<1>1. n \in Nat /\ DOMAIN list = 1 .. n
  BY <1>0, ListFacts
<1>2. \A i \in 1 .. n :
        /\ left[list[i]] \in Nat /\ count[list[i]] \in Nat
        /\ left[list[i]] = count[list[i]] + Before(i)
  BY <1>0, ListFacts
<1>3. /\ n \in Nat \ {0} /\ list[1] \in Linked
      /\ Links(Tail(list), Linked \ {list[1]})
      /\ Len(Tail(list)) = n - 1
      /\ \A k \in 1 .. n - 1 : Tail(list)[k] = list[k + 1]
  <2>1. Links(list, Linked)
    BY <1>0, OneLinkFacts
  <2> QED BY <2>1, TailFacts
<1>4. left[list[1]] = 0
  <2>1. Before(1) = 0 /\ 1 \in 1 .. n
    BY <1>3 DEF Before
  <2>2. left[list[1]] = count[list[1]] + Before(1)
    BY <1>2, <2>1
  <2> QED BY <2>1, <2>2
<1>5. DOMAIN list' = 1 .. n - 1
  <2>1. Tail(list) \in Seq(Linked \ {list[1]})
    BY <1>3 DEF Links
  <2> QED BY <1>3, <2>1, LenProperties
<1>6. \A k \in 1 .. n - 1 : list'[k] = list[k + 1]
  BY <1>3
<1> HIDE DEF n
<1>7. ASSUME NEW i \in 1 .. n - 1
      PROVE  left[list'[i]] = count[list'[i]] + (IF i = 1 THEN 0 ELSE left[list'[i - 1]])
  <2>1. i + 1 \in 1 .. n /\ i + 1 # 1 /\ i + 1 - 1 = i
    BY <1>1
  <2>2. list'[i] = list[i + 1]
    BY <1>6
  <2>3. Before(i + 1) = left[list[i]]
    BY <2>1 DEF Before
  <2>4. left[list[i]] = (IF i = 1 THEN 0 ELSE left[list'[i - 1]])
    <3>1. CASE i = 1
      BY <1>4, <3>1
    <3>2. CASE i # 1
      <4>1. i - 1 \in 1 .. n - 1 /\ i - 1 + 1 = i
        BY <1>1, <3>2
      <4> QED BY <1>6, <3>2, <4>1
    <3> QED BY <3>1, <3>2
  <2> QED BY <1>2, <2>1, <2>2, <2>3, <2>4
<1>8. CountsAddUp'
  BY <1>5, <1>7 DEF CountsAddUp
<1>9. \A i, j \in 1 .. n : i <= j => left[list[i]] <= left[list[j]]
  BY <1>0, ListFacts DEF n
<1>10. ASSUME NEW i \in 1 .. n - 1, NEW j \in 1 .. n - 1, i <= j
       PROVE  left[list'[i]] <= left[list'[j]]
  <2>1. i + 1 \in 1 .. n /\ j + 1 \in 1 .. n /\ i + 1 <= j + 1
    BY <1>1, <1>10
  <2> QED BY <1>6, <1>9, <2>1
<1>11. Ordered'
  BY <1>5, <1>10 DEF Ordered
<1> QED BY <1>3, <1>4, <1>8, <1>11

-----------------------------------------------------------------------------
(***************************************************************************)
(* The steps.                                                              *)
(***************************************************************************)
LEMMA InitInv == Init => SwtmrInv
<1> SUFFICES ASSUME Init PROVE SwtmrInv
  OBVIOUS
<1> DEFINE n == Cardinality(Timers)
<1>1. n \in Nat
  BY SwtmrAssumption, FS_CardinalityType
<1>2. free \in [1 .. n -> Timers] /\ \A i, j \in 1 .. n : free[i] = free[j] => i = j
  BY DEF Init
<1>3. list = <<>> /\ list \in Seq(Timers) /\ DOMAIN list = {} /\ Range(list) = {}
  <2>1. list = <<>> /\ <<>> \in Seq(Timers) /\ Len(<<>>) = 0
    BY EmptySeq DEF Init
  <2>2. DOMAIN list = 1 .. Len(list) /\ Len(list) = 0
    BY <2>1, LenProperties
  <2>3. DOMAIN list = {}
    BY <2>2
  <2> QED BY <2>1, <2>3 DEF Range
<1>4. free \in Seq(Timers) /\ DOMAIN free = 1 .. n /\ Range(free) = Timers
  <2>1. free \in Seq(Timers) /\ DOMAIN free = 1 .. n
    BY <1>1, <1>2
  <2>2. Range(free) = {free[i] : i \in 1 .. n}
    BY <2>1 DEF Range
  <2>3. IsFiniteSet(1 .. n) /\ Cardinality(1 .. n) = n
    BY <1>1, FS_Interval
  <2>4. free \in Injection(1 .. n, Timers)
    BY <1>2 DEF Injection, IsInjective
  <2>5. free \in Surjection(1 .. n, Timers)
    BY <2>3, <2>4, SwtmrAssumption, FS_Injection
  <2>6. \A t \in Timers : \E i \in 1 .. n : free[i] = t
    BY <2>5 DEF Surjection
  <2> QED BY <1>2, <2>1, <2>2, <2>6
<1>5. cs = [in |-> "no", timer |-> NoTimer, pos |-> 1, rest |-> 0]
  BY DEF Init, Idle
<1>6. SwtmrTypeOK
  <2>1. /\ state \in [Timers -> {"unused", "created", "ticking"}]
        /\ mode \in [Timers -> Modes] /\ interval \in [Timers -> Nat]
        /\ count \in [Timers -> Nat] /\ left \in [Timers -> Nat]
    BY DEF Init, Modes
  <2>2. pool \in Nat /\ queued \in Nat /\ hand \in {"wait", "read", "run"}
    BY <1>1 DEF Init, HandleQueueSize
  <2>3. behind \in BOOLEAN /\ lost \in BOOLEAN /\ taken \subseteq Timers
    BY DEF Init
  <2>4. cs \in [in : {"no", "call", "tick"}, timer : Timers \cup {NoTimer},
                pos : Nat \ {0}, rest : Nat]
    BY <1>5
  <2> QED BY <1>3, <1>4, <2>1, <2>2, <2>3, <2>4 DEF SwtmrTypeOK
<1>7. OneLink
  <2>1. taken = {} /\ \A t \in Timers : state[t] = "unused"
    BY DEF Init
  <2>2. \A i, j \in DOMAIN list : list[i] = list[j] => i = j
    BY <1>3
  <2>3. \A i, j \in DOMAIN free : free[i] = free[j] => i = j
    BY <1>2, <1>4
  <2>4. \A t \in Timers : t \in Range(list) <=> state[t] = "ticking" /\ cs.timer # t
    BY <1>3, <2>1
  <2>5. \A t \in Timers :
          t \in Range(free) <=> state[t] = "unused" /\ t \notin taken
    BY <1>4, <2>1
  <2> QED BY <2>2, <2>3, <2>4, <2>5 DEF OneLink
<1>8. CountsAddUp /\ Ordered /\ Coming
  BY <1>3 DEF CountsAddUp, Ordered, Coming
<1>9. Periods /\ Walks /\ LostOnlyWhenBehind /\ Fresh
  BY <1>5 DEF Init, Periods, Walks, LostOnlyWhenBehind, Fresh
<1>10. Items
  <2>1. cs.in # "tick"
    BY <1>5
  <2>2. pool = n /\ queued = 0 /\ hand = "wait" /\ HandleQueueSize = n
    BY DEF Init, HandleQueueSize
  <2> QED BY <1>1, <2>1, <2>2 DEF Items
<1> QED BY <1>6, <1>7, <1>8, <1>9, <1>10 DEF SwtmrInv

\* The type of cs.
CsType == [in : {"no", "call", "tick"}, timer : Timers \cup {NoTimer},
           pos : Nat \ {0}, rest : Nat]

\* What a call has to show.
LEMMA CallKeeps ==
  ASSUME SwtmrInv, cs.in = "no", cs' \in CsType, cs'.in # "tick",
         Links(list', Linked'), Links(free', Unused'),
         state' \in [Timers -> {"unused", "created", "ticking"}],
         mode' \in [Timers -> Modes], interval' \in [Timers -> Nat],
         count' \in [Timers -> Nat], left' \in [Timers -> Nat],
         CountsAddUp', Ordered', \A i \in DOMAIN list' : left'[list'[i]] > 0,
         Periods', Walks', UNCHANGED <<pool, queued, hand, behind, lost>>,
         Fresh', taken' \subseteq Timers
  PROVE  SwtmrInv'
<1>1. OneLink' /\ list' \in Seq(Timers) /\ free' \in Seq(Timers)
  BY OneLinkNext
<1>2. SwtmrTypeOK'
  BY <1>1 DEF SwtmrInv, SwtmrTypeOK, CsType
<1>3. Coming' /\ LostOnlyWhenBehind'
  BY DEF SwtmrInv, Coming, LostOnlyWhenBehind
<1>4. Items'
  <2>1. pool + queued + (IF hand = "read" THEN 1 ELSE 0) = HandleQueueSize
    BY DEF SwtmrInv, Items
  <2>2. pool' + queued' + (IF hand' = "read" THEN 1 ELSE 0) = HandleQueueSize'
    BY <2>1 DEF HandleQueueSize
  <2> QED BY <2>2 DEF Items
<1> QED BY <1>1, <1>2, <1>3, <1>4 DEF SwtmrInv

\* Between two calls no timer is on its way into the list.
LEMMA NoneWalks ==
  ASSUME SwtmrInv, cs.in = "no"
  PROVE  /\ cs.timer = NoTimer /\ NoTimer \notin Timers
         /\ Linked = {t \in Timers : state[t] = "ticking"}
         /\ Links(list, Linked) /\ Links(free, Unused)
         /\ \A i \in DOMAIN list : list[i] \in Linked /\ left[list[i]] > 0
<1>1. cs.timer = NoTimer /\ NoTimer \notin Timers
  BY SwtmrAssumption DEF SwtmrInv, Walks
<1>2. Links(list, Linked) /\ Links(free, Unused)
  BY OneLinkFacts DEF SwtmrInv
<1>3. \A i \in DOMAIN list : list[i] \in Linked
  BY ListFacts DEF SwtmrInv
<1>4. \A i \in DOMAIN list : left[list[i]] > 0
  BY DEF SwtmrInv, Coming
<1> QED BY <1>1, <1>2, <1>3, <1>4 DEF Linked

\* The calls.
LEMMA TakeKeeps ==
  ASSUME SwtmrInv, LOS_SwtmrCreate
  PROVE  SwtmrInv'
<1> DEFINE t == Head(free)
<1>0. /\ SwtmrTypeOK /\ CountsAddUp /\ Ordered /\ Periods /\ Walks /\ Fresh
      /\ cs.in = "no" /\ free # <<>>
  BY DEF SwtmrInv, LOS_SwtmrCreate
<1>1. /\ Links(list, Linked) /\ Links(free, Unused)
      /\ \A i \in DOMAIN list : list[i] \in Linked /\ left[list[i]] > 0
  BY <1>0, NoneWalks
<1>2. t \in Unused /\ Links(Tail(free), Unused \ {t})
  <2>1. Head(free) = free[1] /\ free[1] \in Unused /\ Links(Tail(free), Unused \ {free[1]})
    BY <1>0, <1>1, TailFacts
  <2> QED BY <2>1
<1>3. /\ taken' = taken \cup {t}
      /\ free' = Tail(free)
      /\ UNCHANGED <<list, state, mode, interval, count, cs, pool, queued, hand,
                     left, behind, lost>>
  BY DEF LOS_SwtmrCreate
<1> HIDE DEF t
<1>4. t \in Timers /\ state[t] = "unused"
  BY <1>2 DEF Unused
<1>5. Linked' = Linked /\ Unused' = Unused \ {t}
  BY <1>3 DEF Linked, Unused
<1>6. Links(list', Linked') /\ Links(free', Unused')
  BY <1>1, <1>2, <1>3, <1>5
<1>7. /\ state' \in [Timers -> {"unused", "created", "ticking"}]
      /\ mode' \in [Timers -> Modes] /\ interval' \in [Timers -> Nat]
      /\ count' \in [Timers -> Nat] /\ left' \in [Timers -> Nat]
      /\ cs' \in CsType
  BY <1>0, <1>3 DEF SwtmrTypeOK, CsType
<1>8. CountsAddUp' /\ Ordered' /\ \A i \in DOMAIN list' : left'[list'[i]] > 0
  BY <1>0, <1>1, <1>3 DEF CountsAddUp, Ordered
<1>9. Periods' /\ Walks' /\ cs'.in # "tick"
  BY <1>0, <1>3 DEF Periods, Walks
<1>10. Fresh' /\ taken' \subseteq Timers
  BY <1>0, <1>3, <1>4 DEF Fresh, SwtmrTypeOK
<1> QED BY <1>0, <1>3, <1>6, <1>7, <1>8, <1>9, <1>10, CallKeeps

LEMMA FillKeeps ==
  ASSUME SwtmrInv, NEW t \in Timers, NEW m \in Modes, NEW k \in Intervals,
         Created(t, m, k)
  PROVE  SwtmrInv'
<1>0. /\ SwtmrTypeOK /\ CountsAddUp /\ Ordered /\ Periods /\ Walks /\ Fresh
      /\ cs.in = "no" /\ t \in taken
  BY DEF SwtmrInv, Created
<1>1. /\ cs.timer = NoTimer /\ NoTimer \notin Timers
      /\ Links(list, Linked) /\ Links(free, Unused)
      /\ \A i \in DOMAIN list : list[i] \in Linked /\ left[list[i]] > 0
  BY <1>0, NoneWalks
<1>3. state[t] = "unused" /\ k \in Nat /\ k > 0
  BY <1>0, SwtmrAssumption DEF Fresh
<1>4. /\ taken' = taken \ {t}
      /\ state' = [state EXCEPT ![t] = "created"]
      /\ mode' = [mode EXCEPT ![t] = m]
      /\ interval' = [interval EXCEPT ![t] = k]
      /\ count' = [count EXCEPT ![t] = 0]
      /\ UNCHANGED <<list, free, cs, pool, queued, hand, left, behind, lost>>
  BY DEF Created
<1>5. Linked' = Linked /\ Unused' = Unused
  BY <1>0, <1>3, <1>4 DEF Linked, Unused, SwtmrTypeOK
<1>6. Links(list', Linked') /\ Links(free', Unused')
  BY <1>1, <1>4, <1>5
<1>7. /\ state' \in [Timers -> {"unused", "created", "ticking"}]
      /\ mode' \in [Timers -> Modes] /\ interval' \in [Timers -> Nat]
      /\ count' \in [Timers -> Nat] /\ left' \in [Timers -> Nat]
      /\ cs' \in CsType
  BY <1>0, <1>3, <1>4 DEF SwtmrTypeOK, CsType
<1>8. CountsAddUp'
  <2>1. \A i \in DOMAIN list : count'[list[i]] = count[list[i]]
    <3>1. t \notin Linked /\ Linked \subseteq Timers
      BY <1>3 DEF Linked
    <3> QED BY <1>0, <1>1, <1>4, <3>1 DEF SwtmrTypeOK
  <2> QED BY <1>0, <1>4, <2>1 DEF CountsAddUp
<1>9. Ordered' /\ \A i \in DOMAIN list' : left'[list'[i]] > 0
  BY <1>0, <1>1, <1>4 DEF Ordered
<1>10. Periods'
  BY <1>0, <1>3, <1>4 DEF Periods, SwtmrTypeOK
<1>11. Walks' /\ cs'.in # "tick"
  BY <1>0, <1>1, <1>4 DEF Walks
<1>12. Fresh' /\ taken' \subseteq Timers
  BY <1>0, <1>4 DEF Fresh, SwtmrTypeOK
<1> QED BY <1>0, <1>4, <1>6, <1>7, <1>8, <1>9, <1>10, <1>11, <1>12, CallKeeps

LEMMA StartKeeps ==
  ASSUME SwtmrInv, NEW t \in Timers, LOS_SwtmrStart(t)
  PROVE  SwtmrInv'
<1>0. /\ SwtmrTypeOK /\ CountsAddUp /\ Ordered /\ Periods /\ Fresh
      /\ cs.in = "no"
  BY DEF SwtmrInv, LOS_SwtmrStart
<1>1. /\ cs.timer = NoTimer /\ NoTimer \notin Timers
      /\ Linked = {x \in Timers : state[x] = "ticking"}
      /\ Links(list, Linked) /\ Links(free, Unused)
      /\ \A i \in DOMAIN list : list[i] \in Linked /\ left[list[i]] > 0
  BY <1>0, NoneWalks
<1>2. /\ cs' = [in |-> "call", timer |-> t, pos |-> 1, rest |-> interval[t]]
      /\ UNCHANGED <<free, taken, mode, interval, pool, queued, hand, behind, lost>>
      /\ state[t] # "unused"
  BY DEF LOS_SwtmrStart, Walking
<1>3. /\ Links(list', Linked') /\ Links(free', Unused')
      /\ state' \in [Timers -> {"unused", "created", "ticking"}] /\ state'[t] = "created"
      /\ \A x \in Timers : x # t => state'[x] = state[x]
      /\ count' \in [Timers -> Nat] /\ left' \in [Timers -> Nat]
      /\ CountsAddUp' /\ Ordered' /\ \A i \in DOMAIN list' : left'[list'[i]] > 0
  <2>1. CASE state[t] = "created" /\ UNCHANGED <<list, count, state, left>>
    <3>1. Linked' = Linked /\ Unused' = Unused
      BY <1>1, <1>2, <2>1 DEF Linked, Unused
    <3>2. CountsAddUp' /\ Ordered'
      BY <1>0, <2>1 DEF CountsAddUp, Ordered
    <3> QED BY <1>0, <1>1, <1>2, <2>1, <3>1, <3>2 DEF SwtmrTypeOK
  <2>2. CASE state[t] = "ticking" /\ Unlinked(t)
             /\ state' = [state EXCEPT ![t] = "created"]
    <3>1. /\ Links(list', Linked \ {t})
          /\ count' \in [Timers -> Nat] /\ left' \in [Timers -> Nat]
          /\ CountsAddUp' /\ Ordered' /\ \A i \in DOMAIN list' : left'[list'[i]] > 0
      BY <1>0, <2>2, UnlinkedKeeps
    <3>2. /\ state' \in [Timers -> {"unused", "created", "ticking"}]
          /\ state'[t] = "created" /\ \A x \in Timers : x # t => state'[x] = state[x]
      BY <1>0, <2>2 DEF SwtmrTypeOK
    <3>3. Linked' = Linked \ {t} /\ Unused' = Unused
      BY <1>1, <1>2, <2>2, <3>2 DEF Linked, Unused
    <3> QED BY <1>1, <1>2, <3>1, <3>2, <3>3
  <2> QED BY <2>1, <2>2 DEF LOS_SwtmrStart
<1>4. cs' \in CsType /\ cs'.in # "tick"
  BY <1>0, <1>2 DEF CsType, SwtmrTypeOK
<1>5. Periods'
  BY <1>0, <1>2, <1>3 DEF Periods
<1>6. Walks'
  <2>1. Len(list') \in Nat
    BY <1>3, LinksFacts
  <2>2. interval'[t] \in Nat /\ interval' = interval
    BY <1>0, <1>2 DEF SwtmrTypeOK
  <2> QED BY <1>1, <1>2, <1>3, <2>1, <2>2 DEF Walks
<1>7. mode' \in [Timers -> Modes] /\ interval' \in [Timers -> Nat]
  BY <1>0, <1>2 DEF SwtmrTypeOK
<1>8. Fresh' /\ taken' \subseteq Timers
  BY <1>0, <1>2, <1>3, FreshKept
<1> QED BY <1>0, <1>2, <1>3, <1>4, <1>5, <1>6, <1>7, <1>8, CallKeeps

LEMMA StopKeeps ==
  ASSUME SwtmrInv, NEW t \in Timers, LOS_SwtmrStop(t)
  PROVE  SwtmrInv'
<1>0. SwtmrTypeOK /\ Periods /\ Walks /\ Fresh /\ cs.in = "no"
  BY DEF SwtmrInv, LOS_SwtmrStop
<1>1. /\ cs.timer = NoTimer /\ NoTimer \notin Timers
      /\ Linked = {x \in Timers : state[x] = "ticking"}
      /\ Links(free, Unused)
  BY <1>0, NoneWalks
<1>2. /\ state[t] = "ticking" /\ Unlinked(t)
      /\ state' = [state EXCEPT ![t] = "created"]
      /\ UNCHANGED <<free, taken, mode, interval, cs, pool, queued, hand, behind, lost>>
  BY DEF LOS_SwtmrStop
<1>3. /\ Links(list', Linked \ {t})
      /\ count' \in [Timers -> Nat] /\ left' \in [Timers -> Nat]
      /\ CountsAddUp' /\ Ordered' /\ \A i \in DOMAIN list' : left'[list'[i]] > 0
  BY <1>0, <1>2, UnlinkedKeeps
<1>4. /\ state' \in [Timers -> {"unused", "created", "ticking"}]
      /\ state'[t] = "created" /\ \A x \in Timers : x # t => state'[x] = state[x]
  BY <1>0, <1>2 DEF SwtmrTypeOK
<1>5. Linked' = Linked \ {t} /\ Unused' = Unused
  BY <1>1, <1>2, <1>4 DEF Linked, Unused
<1>6. cs' \in CsType /\ mode' \in [Timers -> Modes] /\ interval' \in [Timers -> Nat]
  BY <1>0, <1>2 DEF CsType, SwtmrTypeOK
<1>7. Periods' /\ Walks' /\ cs'.in # "tick"
  <2>1. Periods'
    BY <1>0, <1>2, <1>4 DEF Periods
  <2> QED BY <1>0, <1>1, <1>2, <2>1 DEF Walks
<1>8. Links(list', Linked') /\ Links(free', Unused')
  BY <1>1, <1>2, <1>3, <1>5
<1>9. Fresh' /\ taken' \subseteq Timers
  BY <1>0, <1>2, <1>4, FreshKept
<1> QED BY <1>0, <1>2, <1>3, <1>4, <1>6, <1>7, <1>8, <1>9, CallKeeps

LEMMA DeleteKeeps ==
  ASSUME SwtmrInv, NEW t \in Timers, LOS_SwtmrDelete(t)
  PROVE  SwtmrInv'
<1>0. SwtmrTypeOK /\ CountsAddUp /\ Ordered /\ Periods /\ Walks /\ Fresh /\ cs.in = "no"
  BY DEF SwtmrInv, LOS_SwtmrDelete
<1>1. /\ cs.timer = NoTimer /\ NoTimer \notin Timers
      /\ Linked = {x \in Timers : state[x] = "ticking"}
      /\ Links(list, Linked) /\ Links(free, Unused)
      /\ \A i \in DOMAIN list : list[i] \in Linked /\ left[list[i]] > 0
  BY <1>0, NoneWalks
<1>2. /\ free' = <<t>> \o free
      /\ state' = [state EXCEPT ![t] = "unused"]
      /\ UNCHANGED <<taken, mode, interval, cs, pool, queued, hand, behind, lost>>
      /\ state[t] # "unused"
  BY DEF LOS_SwtmrDelete
<1>3. /\ state' \in [Timers -> {"unused", "created", "ticking"}]
      /\ state'[t] = "unused" /\ \A x \in Timers : x # t => state'[x] = state[x]
  BY <1>0, <1>2 DEF SwtmrTypeOK
<1>4. Linked' = Linked \ {t} /\ Unused' = Unused \cup {t}
  BY <1>0, <1>1, <1>2, <1>3 DEF Linked, Unused, Fresh
<1>5. Links(free', Unused')
  <2>1. t \notin Unused
    BY <1>2 DEF Unused
  <2> QED BY <1>1, <1>2, <1>4, <2>1, ConsFacts
<1>6. /\ Links(list', Linked')
      /\ count' \in [Timers -> Nat] /\ left' \in [Timers -> Nat]
      /\ CountsAddUp' /\ Ordered' /\ \A i \in DOMAIN list' : left'[list'[i]] > 0
  <2>1. CASE state[t] = "created" /\ UNCHANGED <<list, count, left>>
    <3>1. Linked' = Linked
      BY <1>1, <1>4, <2>1
    <3>2. CountsAddUp' /\ Ordered'
      BY <1>0, <2>1 DEF CountsAddUp, Ordered
    <3> QED BY <1>0, <1>1, <2>1, <3>1, <3>2 DEF SwtmrTypeOK
  <2>2. CASE state[t] = "ticking" /\ Unlinked(t)
    <3>1. /\ Links(list', Linked \ {t})
          /\ count' \in [Timers -> Nat] /\ left' \in [Timers -> Nat]
          /\ CountsAddUp' /\ Ordered' /\ \A i \in DOMAIN list' : left'[list'[i]] > 0
      BY <1>0, <2>2, UnlinkedKeeps
    <3> QED BY <1>4, <3>1
  <2> QED BY <2>1, <2>2 DEF LOS_SwtmrDelete
<1>7. cs' \in CsType /\ mode' \in [Timers -> Modes] /\ interval' \in [Timers -> Nat]
  BY <1>0, <1>2 DEF CsType, SwtmrTypeOK
<1>8. Periods' /\ Walks' /\ cs'.in # "tick"
  <2>1. Periods'
    BY <1>0, <1>2, <1>3 DEF Periods
  <2> QED BY <1>0, <1>1, <1>2, <2>1 DEF Walks
<1>9. Fresh' /\ taken' \subseteq Timers
  BY <1>0, <1>2, <1>3, FreshKept
<1> QED BY <1>0, <1>2, <1>3, <1>5, <1>6, <1>7, <1>8, <1>9, CallKeeps

\* The tick and its loops.
LEMMA TickStepKeeps ==
  ASSUME SwtmrInv, Tick
  PROVE  SwtmrInv'
<1>0. SwtmrTypeOK /\ Fresh /\ Periods /\ Items /\ cs.in = "no"
  BY DEF SwtmrInv, Tick
<1>1. /\ cs.timer = NoTimer /\ NoTimer \notin Timers
      /\ Linked = {x \in Timers : state[x] = "ticking"}
      /\ Links(list, Linked) /\ Links(free, Unused)
  BY <1>0, NoneWalks
<1>2. /\ cs'.timer = NoTimer /\ cs' \in CsType /\ cs'.in \in {"no", "tick"}
      /\ behind' = (queued > 0 \/ hand = "read") /\ lost' = FALSE
      /\ UNCHANGED <<list, free, taken, state, mode, interval, pool, queued, hand>>
  BY DEF Tick, Idle, CsType
<1>3. /\ count' \in [Timers -> Nat] /\ left' \in [Timers -> Nat]
      /\ CountsAddUp' /\ Ordered'
      /\ cs'.in # "tick" => \A i \in DOMAIN list' : left'[list'[i]] > 0
  BY TickKeeps
<1>4. OneLink'
  <2>1. Linked' = Linked /\ Unused' = Unused
    BY <1>1, <1>2 DEF Linked, Unused
  <2> QED BY <1>1, <1>2, <2>1, OneLinkNext
<1>5. SwtmrTypeOK'
  BY <1>0, <1>2, <1>3 DEF SwtmrTypeOK, CsType
<1>6. Periods' /\ Walks' /\ Coming' /\ LostOnlyWhenBehind'
  BY <1>0, <1>2, <1>3 DEF Periods, Walks, Coming, LostOnlyWhenBehind
<1>7. Items'
  <2>1. HandleQueueSize' = HandleQueueSize
    BY DEF HandleQueueSize
  <2>2. ~behind' => hand' # "read" /\ queued' = 0
    <3>1. ~behind' => ~(queued > 0) /\ hand # "read"
      BY <1>2, Zenon
    <3>2. queued \in Nat
      BY <1>0 DEF SwtmrTypeOK
    <3> QED BY <1>2, <3>1, <3>2
  <2>3. Cardinality(Due') <= HandleQueueSize
    <3>1. Due' \in SUBSET Timers
      BY DEF Due
    <3>2. Cardinality(Due') <= Cardinality(Timers)
      BY <3>1, SwtmrAssumption, FS_Subset
    <3> QED BY <3>2 DEF HandleQueueSize
  <2>4. Cardinality(Due') \in Nat
    <3>1. Due' \in SUBSET Timers
      BY DEF Due
    <3>2. IsFiniteSet(Due')
      BY <3>1, SwtmrAssumption, FS_Subset
    <3> QED BY <3>2, FS_CardinalityType
  <2> QED BY <1>0, <1>2, <2>1, <2>2, <2>3, <2>4 DEF Items
<1>8. Fresh'
  BY <1>0, <1>2, FreshKept
<1> QED BY <1>3, <1>4, <1>5, <1>6, <1>7, <1>8 DEF SwtmrInv

LEMMA TickEndKeeps ==
  ASSUME SwtmrInv, TickEnd
  PROVE  SwtmrInv'
<1>0. SwtmrInv /\ SwtmrTypeOK /\ CountsAddUp /\ Ordered
  BY DEF SwtmrInv
<1>1. /\ cs.timer = NoTimer /\ cs'.timer = NoTimer /\ cs'.in = "no" /\ cs' \in CsType
      /\ UNCHANGED <<list, free, taken, state, mode, interval, count, pool, queued, hand,
                     left, behind, lost>>
  BY DEF TickEnd, Idle, CsType
<1>2. OneLink'
  <2>1. Links(list, Linked) /\ Links(free, Unused)
    BY OneLinkFacts DEF SwtmrInv
  <2>2. Linked' = Linked /\ Unused' = Unused
    BY <1>1 DEF Linked, Unused
  <2> QED BY <1>1, <2>1, <2>2, OneLinkNext
<1>3. /\ SwtmrTypeOK' /\ CountsAddUp' /\ Ordered' /\ Periods' /\ LostOnlyWhenBehind'
      /\ Fresh'
  BY <1>0, <1>1
     DEF SwtmrInv, SwtmrTypeOK, CsType, CountsAddUp, Ordered, Periods, LostOnlyWhenBehind,
         Fresh
<1>4. Walks'
  BY <1>1 DEF Walks
<1>5. \A i \in DOMAIN list : left[list[i]] > 0
  <2> SUFFICES ASSUME NEW i \in DOMAIN list PROVE left[list[i]] > 0
    OBVIOUS
  <2>1. /\ Len(list) \in Nat /\ i \in 1 .. Len(list) /\ 1 \in 1 .. Len(list)
        /\ left[list[1]] = count[list[1]] + Before(1) /\ Before(1) = 0
        /\ left[list[1]] \in Nat /\ left[list[i]] \in Nat /\ count[list[1]] \in Nat
        /\ left[list[1]] <= left[list[i]]
    <3>1. Len(list) \in Nat /\ i \in 1 .. Len(list)
      BY ListFacts DEF SwtmrInv
    <3>2. 1 \in 1 .. Len(list) /\ 1 <= i
      BY <3>1
    <3>3. Before(1) = 0
      BY DEF Before
    <3>4. \A j \in 1 .. Len(list) : /\ left[list[j]] \in Nat /\ count[list[j]] \in Nat
                                    /\ left[list[j]] = count[list[j]] + Before(j)
      BY ListFacts DEF SwtmrInv
    <3>5. \A j, k \in 1 .. Len(list) : j <= k => left[list[j]] <= left[list[k]]
      BY ListFacts DEF SwtmrInv
    <3> QED BY <3>1, <3>2, <3>3, <3>4, <3>5
  <2>2. list # <<>>
    <3>1. Len(<<>>) = 0
      OBVIOUS
    <3> QED BY <2>1, <3>1
  <2>3. count[list[1]] > 0
    BY <2>2 DEF TickEnd
  <2> QED BY <2>1, <2>3
<1>6. Coming'
  BY <1>1, <1>5 DEF Coming
<1>7. Items'
  <2>1. pool + queued + (IF hand = "read" THEN 1 ELSE 0) = HandleQueueSize
    BY DEF SwtmrInv, Items
  <2> QED BY <1>1, <2>1 DEF Items, HandleQueueSize
<1> QED BY <1>2, <1>3, <1>4, <1>6, <1>7 DEF SwtmrInv

LEMMA ExpireStepKeeps ==
  ASSUME SwtmrInv, Expire
  PROVE  SwtmrInv'
<1> DEFINE t == list[1]
<1>0. /\ SwtmrTypeOK /\ Fresh /\ Periods /\ Items /\ LostOnlyWhenBehind
      /\ cs.in = "tick" /\ cs.timer = NoTimer /\ list # <<>> /\ count[t] = 0
  BY DEF SwtmrInv, Expire
<1>1. /\ list' = Tail(list) /\ Queued
      /\ UNCHANGED <<taken, mode, interval, count, hand, left, behind>>
      /\ \/ free' = <<t>> \o free /\ state' = [state EXCEPT ![t] = "unused"] /\ cs' = cs
         \/ /\ cs' = [in |-> "tick", timer |-> t, pos |-> 1, rest |-> interval[t]]
            /\ UNCHANGED <<free, state>>
  BY DEF Expire, Released, Walking
<1>2. /\ t \in Linked /\ left[t] = 0
      /\ Links(list', Linked \ {t})
      /\ CountsAddUp' /\ Ordered'
  BY <1>0, <1>1, ExpireKeeps
<1>3. Links(list, Linked) /\ Links(free, Unused)
  BY OneLinkFacts DEF SwtmrInv
<1>4. NoTimer \notin Timers /\ t \in Timers /\ state[t] = "ticking"
  BY <1>2, SwtmrAssumption DEF Linked
<1>5. t \in Range(list) /\ Range(list') = Range(list) \ {t} /\ Range(list) = Linked
  BY <1>2, <1>3 DEF Links
<1> HIDE DEF t
<1>6. /\ Links(list', Linked') /\ Links(free', Unused')
      /\ state' \in [Timers -> {"unused", "created", "ticking"}]
      /\ \A x \in Timers : state'[x] # "unused" => state[x] # "unused"
      /\ \A x \in Timers : state[x] = "unused" => state'[x] = "unused"
      /\ Walks' /\ cs' \in CsType /\ cs'.in = "tick"
  <2>1. CASE free' = <<t>> \o free /\ state' = [state EXCEPT ![t] = "unused"] /\ cs' = cs
    <3>1. /\ state' \in [Timers -> {"unused", "created", "ticking"}]
          /\ state'[t] = "unused" /\ \A x \in Timers : x # t => state'[x] = state[x]
      BY <1>0, <1>4, <2>1 DEF SwtmrTypeOK
    <3>2. Linked' = Linked \ {t} /\ Unused' = Unused \cup {t} /\ t \notin Unused
      BY <1>0, <1>1, <1>4, <2>1, <3>1 DEF Linked, Unused, Fresh
    <3>3. Links(<<t>> \o free, Unused \cup {t})
      BY <1>3, <3>2, ConsFacts
    <3>4. Walks' /\ cs' \in CsType
      BY <1>0, <2>1 DEF Walks, CsType, SwtmrTypeOK
    <3> QED BY <1>0, <1>2, <1>4, <2>1, <3>1, <3>2, <3>3, <3>4
  <2>2. CASE /\ cs' = [in |-> "tick", timer |-> t, pos |-> 1, rest |-> interval[t]]
             /\ UNCHANGED <<free, state>>
    <3>1. Linked' = Linked \ {t} /\ Unused' = Unused
      BY <1>0, <1>1, <1>4, <2>2 DEF Linked, Unused
    <3>2. cs' \in CsType /\ cs'.in = "tick" /\ interval[t] \in Nat
      BY <1>0, <1>4, <2>2 DEF CsType, SwtmrTypeOK
    <3>3. Walks'
      <4>1. Len(list') \in Nat
        BY <1>2, LinksFacts
      <4> QED BY <1>1, <1>4, <2>2, <3>2, <4>1 DEF Walks
    <3> QED BY <1>0, <1>2, <1>3, <2>2, <3>1, <3>2, <3>3 DEF SwtmrTypeOK
  <2> QED BY <1>1, <2>1, <2>2
<1>7. OneLink' /\ list' \in Seq(Timers) /\ free' \in Seq(Timers)
  BY <1>6, OneLinkNext
<1>8. Periods' /\ Coming'
  BY <1>0, <1>1, <1>6 DEF Periods, Coming
<1>9. ~behind => Room
  <2>1. ~behind => hand # "read" /\ queued + Cardinality(Due) <= HandleQueueSize
    BY <1>0 DEF Items
  <2>2. t \in Due /\ Due \in SUBSET Timers
    BY <1>2, <1>4, <1>5 DEF Due
  <2>3. Cardinality(Due) \in Nat /\ Cardinality(Due) # 0
    <3>1. IsFiniteSet(Due)
      BY <2>2, SwtmrAssumption, FS_Subset
    <3> QED BY <2>2, <3>1, FS_CardinalityType, FS_EmptySet
  <2>4. pool + queued + (IF hand = "read" THEN 1 ELSE 0) = HandleQueueSize
    BY <1>0 DEF Items
  <2>5. pool \in Nat /\ queued \in Nat
    BY <1>0 DEF SwtmrTypeOK
  <2> QED BY <2>1, <2>3, <2>4, <2>5 DEF Room
<1>10. pool' \in Nat /\ queued' \in Nat /\ lost' \in BOOLEAN /\ LostOnlyWhenBehind'
       /\ pool' + queued' = pool + queued /\ queued' <= queued + 1
  <2>1. pool \in Nat /\ queued \in Nat /\ lost \in BOOLEAN
    BY <1>0 DEF SwtmrTypeOK
  <2>2. CASE Room
    <3>1. queued' = queued + 1 /\ pool' = pool - 1 /\ pool > 0
      BY <1>1, <2>2 DEF Queued, Room
    <3>2. lost' = lost
      BY <1>1, <2>1, <2>2 DEF Queued
    <3> QED BY <1>0, <1>1, <2>1, <3>1, <3>2 DEF LostOnlyWhenBehind
  <2>3. CASE ~Room
    <3>1. queued' = queued /\ pool' = pool
      BY <1>1, <2>3 DEF Queued
    <3>2. lost' = TRUE
      BY <1>1, <2>1, <2>3 DEF Queued
    <3> QED BY <1>1, <1>9, <2>1, <2>3, <3>1, <3>2 DEF LostOnlyWhenBehind
  <2> QED BY <2>2, <2>3
<1>11. Items'
  <2>1. HandleQueueSize' = HandleQueueSize
    BY DEF HandleQueueSize
  <2>2. Due' = Due \ {t}
    BY <1>1, <1>5 DEF Due
  <2>3. t \in Due /\ Due \in SUBSET Timers
    BY <1>2, <1>4, <1>5 DEF Due
  <2>4. Cardinality(Due) \in Nat /\ Cardinality(Due') = Cardinality(Due) - 1
    <3>1. IsFiniteSet(Due)
      BY <2>3, SwtmrAssumption, FS_Subset
    <3> QED BY <2>2, <2>3, <3>1, FS_CardinalityType, FS_RemoveElement
  <2>5. /\ pool + queued + (IF hand = "read" THEN 1 ELSE 0) = HandleQueueSize
        /\ ~behind => hand # "read" /\ queued + Cardinality(Due) <= HandleQueueSize
    BY <1>0 DEF Items
  <2>6. pool \in Nat /\ queued \in Nat /\ HandleQueueSize \in Nat
    <3>1. HandleQueueSize \in Nat
      BY SwtmrAssumption, FS_CardinalityType DEF HandleQueueSize
    <3> QED BY <1>0, <3>1 DEF SwtmrTypeOK
  <2>7. pool' + queued' + (IF hand' = "read" THEN 1 ELSE 0) = HandleQueueSize
    BY <1>1, <1>10, <2>5, <2>6
  <2>8. ~behind' => hand' # "read" /\ queued' + Cardinality(Due') <= HandleQueueSize
    BY <1>1, <1>10, <2>4, <2>5, <2>6
  <2> QED BY <2>1, <2>7, <2>8 DEF Items
<1>12. Fresh' /\ taken' \subseteq Timers
  BY <1>0, <1>1, <1>6, FreshKept
<1>13. SwtmrTypeOK'
  BY <1>0, <1>1, <1>6, <1>7, <1>10, <1>12 DEF SwtmrTypeOK, CsType
<1> QED BY <1>2, <1>6, <1>7, <1>8, <1>10, <1>11, <1>12, <1>13 DEF SwtmrInv

\* The walk of osSwTmrStart.
LEMMA WalkOnKeeps ==
  ASSUME SwtmrInv, WalkOn
  PROVE  SwtmrInv'
<1> DEFINE p == cs.pos
           x == list[p]
<1>0. /\ SwtmrTypeOK /\ CountsAddUp /\ Ordered /\ Walks /\ Items
      /\ cs \in CsType /\ cs.timer # NoTimer
      /\ p <= Len(list) /\ count[x] <= cs.rest
  BY DEF SwtmrInv, WalkOn, Passed, SwtmrTypeOK, CsType
<1>1. /\ cs' = [cs EXCEPT !.pos = @ + 1, !.rest = @ - count[x]]
      /\ UNCHANGED <<list, free, taken, state, mode, interval, count, pool, queued, hand,
                     left, behind, lost>>
  BY DEF WalkOn
<1>2. p \in 1 .. Len(list) /\ Len(list) \in Nat
  <2>1. Len(list) \in Nat
    BY ListFacts DEF SwtmrInv
  <2> QED BY <1>0, <2>1 DEF CsType
<1>3. left[x] \in Nat /\ count[x] \in Nat /\ left[x] = count[x] + Before(p) /\ Before(p) \in Nat
  BY <1>2, ListFacts DEF SwtmrInv
<1> HIDE DEF x, p
<1>4. /\ cs'.in = cs.in /\ cs'.timer = cs.timer
      /\ cs'.pos = p + 1 /\ cs'.rest = cs.rest - count[x] /\ cs' \in CsType
  <2>1. /\ cs.in \in {"no", "call", "tick"} /\ cs.timer \in Timers \cup {NoTimer}
        /\ cs.pos \in Nat \ {0} /\ cs.rest \in Nat
        /\ cs = [in |-> cs.in, timer |-> cs.timer, pos |-> cs.pos, rest |-> cs.rest]
    BY <1>0 DEF CsType
  <2>2. cs' = [in |-> cs.in, timer |-> cs.timer, pos |-> p + 1,
               rest |-> cs.rest - count[x]]
    BY <1>1, <2>1 DEF p
  <2>3. cs.rest - count[x] \in Nat /\ p + 1 \in Nat \ {0}
    BY <1>0, <1>2, <1>3, <2>1
  <2> QED BY <2>1, <2>2, <2>3 DEF CsType
<1>5. OneLink'
  <2>1. Links(list, Linked) /\ Links(free, Unused)
    BY OneLinkFacts DEF SwtmrInv
  <2>2. Linked' = Linked /\ Unused' = Unused
    BY <1>1, <1>4 DEF Linked, Unused
  <2> QED BY <1>1, <2>1, <2>2, OneLinkNext
<1>6. /\ SwtmrTypeOK' /\ CountsAddUp' /\ Ordered' /\ Periods' /\ LostOnlyWhenBehind'
      /\ Fresh'
  BY <1>0, <1>1, <1>4
     DEF SwtmrInv, SwtmrTypeOK, CsType, CountsAddUp, Ordered, Periods, LostOnlyWhenBehind,
         Fresh
<1>7. Walks'
  <2>1. /\ state[cs.timer] = (IF cs.in = "call" THEN "created" ELSE "ticking")
        /\ cs.rest + Before(p) = interval[cs.timer]
    BY <1>0 DEF Walks, Before, p
  <2>2. p + 1 # 1 /\ p + 1 - 1 = p /\ p + 1 <= Len(list) + 1
    BY <1>2
  <2>3. cs.rest - count[x] + left[x] = cs.rest + Before(p)
    BY <1>0, <1>3 DEF CsType
  <2>4. cs'.rest + left[list[cs'.pos - 1]] = interval[cs.timer]
    <3>1. cs'.pos - 1 = p
      BY <1>2, <1>4
    <3>2. left[list[cs'.pos - 1]] = left[x]
      BY <3>1 DEF x
    <3> QED BY <1>4, <2>1, <2>3, <3>2
  <2>5. cs.in # "no"
    BY <1>0 DEF Walks
  <2> QED BY <1>0, <1>1, <1>4, <2>1, <2>2, <2>4, <2>5 DEF Walks
<1>8. Coming'
  BY <1>1, <1>4 DEF Coming, SwtmrInv
<1>9. Items'
  <2>1. Due' = Due /\ HandleQueueSize' = HandleQueueSize
    BY <1>1 DEF Due, HandleQueueSize
  <2> QED BY <1>0, <1>1, <1>4, <2>1 DEF Items
<1> QED BY <1>5, <1>6, <1>7, <1>8, <1>9 DEF SwtmrInv

LEMMA WalkEndKeeps ==
  ASSUME SwtmrInv, WalkEnd
  PROVE  SwtmrInv'
<1> DEFINE t == cs.timer
<1>0. /\ SwtmrTypeOK /\ Fresh /\ Periods /\ Walks /\ Items /\ Coming
      /\ t \in Timers /\ NoTimer \notin Timers
      /\ state[t] = (IF cs.in = "call" THEN "created" ELSE "ticking")
  BY SwtmrAssumption DEF SwtmrInv, WalkEnd, SwtmrTypeOK, Walks
<1>1. /\ state' = [state EXCEPT ![t] = "ticking"]
      /\ UNCHANGED <<free, taken, mode, interval, pool, queued, hand, behind, lost>>
      /\ cs'.timer = NoTimer /\ cs' \in CsType
      /\ cs'.in = IF cs.in = "call" THEN "no" ELSE "tick"
  BY DEF WalkEnd, Idle, CsType
<1>2. /\ Links(list', Linked \cup {t})
      /\ count' \in [Timers -> Nat] /\ left' \in [Timers -> Nat]
      /\ CountsAddUp' /\ Ordered' /\ left'[t] > 0
      /\ \A x \in Timers : x # t => left'[x] = left[x]
  BY InsertedKeeps
<1>3. Links(list, Linked) /\ Links(free, Unused)
  BY OneLinkFacts DEF SwtmrInv
<1>4. cs.in \in {"call", "tick"}
  BY <1>0 DEF Walks, SwtmrTypeOK
<1> HIDE DEF t
<1>5. /\ state' \in [Timers -> {"unused", "created", "ticking"}] /\ state'[t] = "ticking"
      /\ \A x \in Timers : x # t => state'[x] = state[x]
  BY <1>0, <1>1 DEF SwtmrTypeOK
<1>6. Linked' = Linked \cup {t} /\ Unused' = Unused
  BY <1>0, <1>1, <1>5 DEF Linked, Unused, t
<1>7. OneLink' /\ list' \in Seq(Timers) /\ free' \in Seq(Timers)
  BY <1>1, <1>2, <1>3, <1>6, OneLinkNext
<1>8. SwtmrTypeOK'
  BY <1>0, <1>1, <1>2, <1>5, <1>7 DEF SwtmrTypeOK, CsType
<1>9. Periods'
  BY <1>0, <1>1, <1>5 DEF Periods
<1>10. Walks' /\ LostOnlyWhenBehind'
  BY <1>1 DEF SwtmrInv, Walks, LostOnlyWhenBehind
<1>11. Range(list) = Linked /\ Range(list') = Linked \cup {t}
  BY <1>2, <1>3 DEF Links
<1>12. Coming'
  <2> SUFFICES ASSUME cs'.in # "tick", NEW i \in DOMAIN list'
               PROVE  left'[list'[i]] > 0
    BY DEF Coming
  <2>1. \A x \in Linked : left[x] > 0
    <3>1. cs.in # "tick"
      BY <1>1
    <3>2. \A j \in DOMAIN list : left[list[j]] > 0
      BY <1>0, <3>1 DEF Coming
    <3> QED BY <1>11, <3>2 DEF Range
  <2>2. list'[i] \in Linked \cup {t}
    BY <1>11 DEF Range
  <2> QED BY <1>2, <2>1, <2>2 DEF Linked
<1>13. Items'
  <2>1. HandleQueueSize' = HandleQueueSize
    BY DEF HandleQueueSize
  <2>2. Due' = Due
    <3>1. t \notin Linked
      BY DEF Linked, t
    <3>2. left'[t] # 0 /\ 0 \in Nat
      <4>1. left'[t] \in Nat
        BY <1>0, <1>2
      <4> QED BY <1>2, <4>1
    <3> QED BY <1>2, <1>11, <3>1, <3>2 DEF Due
  <2>3. cs'.in = "tick" => cs.in = "tick"
    BY <1>1, <1>4
  <2> QED BY <1>0, <1>1, <2>1, <2>2, <2>3 DEF Items
<1>14. Fresh'
  BY <1>0, <1>1, <1>5, FreshKept
<1> QED BY <1>2, <1>7, <1>8, <1>9, <1>10, <1>12, <1>13, <1>14 DEF SwtmrInv

\* osSwTmrTask.
LEMMA TaskKeeps ==
  ASSUME SwtmrInv, SwtmrTask
  PROVE  SwtmrInv'
<1>0. SwtmrTypeOK /\ Items /\ cs.in = "no"
  BY DEF SwtmrInv, SwtmrTask, TaskReads, TaskFrees, HandlerReturns
<1>1. UNCHANGED <<list, free, taken, state, mode, interval, count, cs, left, behind, lost>>
  BY DEF SwtmrTask, TaskReads, TaskFrees, HandlerReturns
<1>2. /\ pool' \in Nat /\ queued' \in Nat /\ hand' \in {"wait", "read", "run"}
      /\ pool' + queued' + (IF hand' = "read" THEN 1 ELSE 0)
           = pool + queued + (IF hand = "read" THEN 1 ELSE 0)
  <2>0. pool \in Nat /\ queued \in Nat
    BY <1>0 DEF SwtmrTypeOK
  <2>1. CASE TaskReads
    BY <2>0, <2>1 DEF TaskReads
  <2>2. CASE TaskFrees
    BY <2>0, <2>2 DEF TaskFrees, ItemFreed
  <2>3. CASE HandlerReturns
    BY <2>0, <2>3 DEF HandlerReturns
  <2> QED BY <2>1, <2>2, <2>3 DEF SwtmrTask
<1>3. SwtmrTypeOK'
  BY <1>0, <1>1, <1>2 DEF SwtmrTypeOK
<1>4. Items'
  BY <1>0, <1>1, <1>2 DEF Items, HandleQueueSize
<1>5. /\ OneLink' /\ CountsAddUp' /\ Ordered' /\ Periods' /\ Walks' /\ Coming'
      /\ LostOnlyWhenBehind' /\ Fresh'
  BY <1>1 DEF SwtmrInv, OneLink, CountsAddUp, Ordered, Periods, Walks, Coming,
              LostOnlyWhenBehind, Fresh
<1> QED BY <1>3, <1>4, <1>5 DEF SwtmrInv

LEMMA StutterKeeps ==
  ASSUME SwtmrInv, UNCHANGED vars
  PROVE  SwtmrInv'
BY DEF vars, SwtmrInv, SwtmrTypeOK, OneLink, Fresh, CountsAddUp, Ordered, Periods, Walks,
       Coming, Items, Due, HandleQueueSize, LostOnlyWhenBehind

\* The invariant holds in every reachable state.
LEMMA SwtmrInvariant == SwtmrSpec => []SwtmrInv
<1>1. SwtmrInv /\ [Next]_vars => SwtmrInv'
  <2> SUFFICES ASSUME SwtmrInv, [Next]_vars PROVE SwtmrInv'
    OBVIOUS
  <2>1. CASE Call
    BY <2>1, TakeKeeps, FillKeeps, StartKeeps, StopKeeps, DeleteKeeps DEF Call
  <2>2. CASE Interrupt
    BY <2>2, TickStepKeeps, ExpireStepKeeps, TickEndKeeps DEF Interrupt
  <2>3. CASE Walk
    BY <2>3, WalkOnKeeps, WalkEndKeeps DEF Walk
  <2>4. CASE SwtmrTask
    BY <2>4, TaskKeeps
  <2>5. CASE UNCHANGED vars
    BY <2>5, StutterKeeps
  <2> QED BY <2>1, <2>2, <2>3, <2>4, <2>5 DEF Next
<1> QED BY InitInv, <1>1, PTL DEF SwtmrSpec

-----------------------------------------------------------------------------
(***************************************************************************)
(* The theorems.                                                           *)
(***************************************************************************)

\* Every variable keeps its type: no uwCount wraps, whatever is started,
\* stopped, restarted or expires, and in whatever order.
THEOREM SwtmrTypeCorrect == SwtmrSpec => []SwtmrTypeOK
<1>1. SwtmrInv => SwtmrTypeOK
  BY DEF SwtmrInv
<1> QED BY <1>1, SwtmrInvariant, PTL

\* A control block is in one of the two lists at most, once, as its state says,
\* although both use the same link and timers restart themselves in the tick.
THEOREM BlocksLinkedOnce == SwtmrSpec => []OneLink
<1>1. SwtmrInv => OneLink
  BY DEF SwtmrInv
<1> QED BY <1>1, SwtmrInvariant, PTL

\* The relative counts add up to each timer's own clock.
THEOREM TimersOnTime == SwtmrSpec => []CountsAddUp
<1>1. SwtmrInv => CountsAddUp
  BY DEF SwtmrInv
<1> QED BY <1>1, SwtmrInvariant, PTL

\* The tick leaves no timer behind whose time has come.
THEOREM DueAreTaken == SwtmrSpec => []NoneOverdue
<1>1. SwtmrInv => NoneOverdue
  BY DEF SwtmrInv, Coming, NoneOverdue
<1> QED BY <1>1, SwtmrInvariant, PTL

\* The queue and the pool hold what one tick can bring.
THEOREM ExpiriesKept == SwtmrSpec => []LostOnlyWhenBehind
<1>1. SwtmrInv => LostOnlyWhenBehind
  BY DEF SwtmrInv
<1> QED BY <1>1, SwtmrInvariant, PTL
=============================================================================
