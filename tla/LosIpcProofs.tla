---------------------------- MODULE LosIpcProofs ----------------------------
(***************************************************************************)
(* Theorems about LosIpc: nobody sleeps on an event that has the bits he   *)
(* waits for, the waiters of a queue stand in line by priority, no slot of *)
(* a queue is lost or counted twice, and the queues implement FifoSpec.    *)
(***************************************************************************)
EXTENDS LosIpc, LosTaskProofs, FiniteSetTheorems, WellFoundedInduction

(***************************************************************************)
(* Loops.  A set of naturals has a least element: what an induction over   *)
(* the turns of a loop comes to.                                           *)
(***************************************************************************)
LEMMA LeastNat ==
  ASSUME NEW T, T \subseteq Nat, T # {}
  PROVE  \E x \in T : \A y \in T : x <= y
<1>1. IsWellFoundedOn(OpToRel(<, Nat), Nat)
  BY NatLessThanWellFounded
<1>2. PICK x \in T : \A y \in T : ~(<<y, x>> \in OpToRel(<, Nat))
  BY <1>1, WFMin
<1>3. \A y \in T : ~(y < x)
  BY <1>2 DEF OpToRel
<1> QED BY <1>3

\* A set that has 0 and with each number the next, up to n, has them all.
LEMMA UpToN ==
  ASSUME NEW n \in Nat, NEW G, 0 \in G,
         \A i \in 1 .. n : i - 1 \in G => i \in G
  PROVE  \A i \in 0 .. n : i \in G
<1> DEFINE T == {i \in 0 .. n : i \notin G}
<1> SUFFICES ASSUME T # {} PROVE FALSE
  OBVIOUS
<1>0. T \subseteq Nat
  OBVIOUS
<1>1. PICK x \in T : \A y \in T : x <= y
  <2> HIDE DEF T
  <2> QED BY <1>0, LeastNat
<1>2. x \in 1 .. n
  BY <1>1
<1>3. x - 1 \in G
  BY <1>1, <1>2
<1> QED BY <1>1, <1>2, <1>3

\* The states f that n turns of a loop go through from a; the i-th applies g[i].
LoopBody(n, X, g) == g \in [1 .. n -> [X -> X]]
LoopRun(n, X, a, g, f) ==
  f \in [0 .. n -> X] /\ f[0] = a /\ \A i \in 1 .. n : f[i] = g[i][f[i - 1]]

LEMMA LoopExists ==
  ASSUME NEW n \in Nat, NEW X, NEW a \in X, NEW g, LoopBody(n, X, g)
  PROVE  \E f : LoopRun(n, X, a, g, f)
<1>g. g \in [1 .. n -> [X -> X]]
  BY DEF LoopBody
<1> DEFINE Run(m, f) == f[0] = a /\ \A i \in 1 .. m : f[i] = g[i][f[i - 1]]
           G == {m \in 0 .. n : \E f \in [0 .. m -> X] : Run(m, f)}
<1>1. 0 \in G
  <2> DEFINE e == [i \in 0 .. 0 |-> a]
  <2>1. e \in [0 .. 0 -> X] /\ Run(0, e)
    OBVIOUS
  <2> HIDE DEF e, Run
  <2> QED BY <2>1
<1>2. ASSUME NEW m \in 1 .. n, m - 1 \in G
      PROVE  m \in G
  <2>1. PICK f \in [0 .. m - 1 -> X] : Run(m - 1, f)
    BY <1>2
  <2> DEFINE h == [i \in 0 .. m |-> IF i = m THEN g[m][f[m - 1]] ELSE f[i]]
  <2>2. g[m][f[m - 1]] \in X
    <3>1. f[m - 1] \in X
      BY <2>1
    <3> QED BY <1>g, <3>1
  <2>3. h \in [0 .. m -> X]
    BY <2>2
  <2>4. Run(m, h)
    <3>1. h[0] = a
      BY <2>1
    <3>2. ASSUME NEW i \in 1 .. m
          PROVE  h[i] = g[i][h[i - 1]]
      <4>1. i - 1 \in 0 .. m - 1 /\ h[i - 1] = f[i - 1]
        OBVIOUS
      <4>2. CASE i = m
        BY <4>1, <4>2
      <4>3. CASE i # m
        <5>1. i \in 1 .. m - 1 /\ h[i] = f[i]
          BY <4>3
        <5> QED BY <2>1, <4>1, <5>1
      <4> QED BY <4>2, <4>3
    <3> QED BY <3>1, <3>2
  <2> HIDE DEF h, Run
  <2> QED BY <2>3, <2>4
<1>3. n \in G
  <2>0. n \in 0 .. n
    OBVIOUS
  <2> HIDE DEF G
  <2>1. \A i \in 0 .. n : i \in G
    BY <1>1, <1>2, UpToN
  <2> QED BY <2>0, <2>1
<1> QED BY <1>3 DEF LoopRun

\* So the loop over the wait list l does what its body says.
LEMMA TurnsIsLoop ==
  ASSUME lists \in [Lists -> Seq(Tasks)], prio \in [Tasks -> Priorities],
         NEW l \in Lists, NEW set
  PROVE  /\ Turns(l, set)[0] = lists
         /\ \A i \in 1 .. Len(lists[l]) :
              Turns(l, set)[i] = IF lists[l][i] \in set
                                 THEN Wake(Turns(l, set)[i - 1], lists[l][i])
                                 ELSE Turns(l, set)[i - 1]
<1> DEFINE X == [Lists -> Seq(Tasks)]
           n == Len(lists[l])
           Body(i, q) == IF lists[l][i] \in set THEN Wake(q, lists[l][i]) ELSE q
           g == [i \in 1 .. n |-> [q \in X |-> Body(i, q)]]
           Is(w) == w = [i \in 0 .. n |-> IF i = 0 THEN lists
                           ELSE IF lists[l][i] \in set THEN Wake(w[i - 1], lists[l][i])
                           ELSE w[i - 1]]
<1>1. n \in Nat /\ lists[l] \in Seq(Tasks) /\ \A i \in 1 .. n : lists[l][i] \in Tasks
  OBVIOUS
<1>2. \A i \in 1 .. n, q \in X : Body(i, q) \in X
  <2>1. ASSUME NEW u \in Tasks, NEW q \in X
        PROVE  Wake(q, u) \in X
    <3>1. Unlink(q, u) \in X /\ prio[u] \in Lists
      BY UnlinkFacts, ListsAreLists
    <3>2. Enqueue(Unlink(q, u), u, prio[u]) \in X
      BY <3>1, EnqueueType
    <3> QED BY <3>1, <3>2 DEF Wake
  <2> HIDE DEF X
  <2> QED BY <1>1, <2>1
<1>3. g \in [1 .. n -> [X -> X]]
  <2> HIDE DEF X, Body
  <2> QED BY <1>2
<1>4. PICK f \in [0 .. n -> X] : f[0] = lists /\ \A i \in 1 .. n : f[i] = g[i][f[i - 1]]
  <2> HIDE DEF X, g, n
  <2>1. lists \in X
    BY DEF X
  <2>2. n \in Nat
    BY <1>1
  <2>3. LoopBody(n, X, g)
    BY <1>3 DEF LoopBody
  <2>4. \E f : LoopRun(n, X, lists, g, f)
    BY <2>1, <2>2, <2>3, LoopExists
  <2> QED BY <2>4 DEF LoopRun
<1>5. Is(f)
  <2>1. \A i \in 1 .. n : f[i - 1] \in X /\ f[i] = Body(i, f[i - 1])
    <3>0. n \in Nat
      BY <1>1
    <3> HIDE DEF X, Body, n
    <3>1. \A i \in 1 .. n : f[i - 1] \in X
      BY <1>4, <3>0
    <3>2. \A i \in 1 .. n, q \in X : g[i][q] = Body(i, q)
      OBVIOUS
    <3> HIDE DEF g
    <3> QED BY <1>4, <3>1, <3>2
  <2> DEFINE h == [i \in 0 .. n |-> IF i = 0 THEN lists
                     ELSE IF lists[l][i] \in set THEN Wake(f[i - 1], lists[l][i])
                     ELSE f[i - 1]]
  <2>2. \A i \in 0 .. n : f[i] = h[i]
    <3> HIDE DEF X, n
    <3>0. n \in Nat
      BY <1>1
    <3> QED BY <3>0, <1>4, <2>1
  <2>3. DOMAIN f = 0 .. n /\ DOMAIN h = 0 .. n
    OBVIOUS
  <2> HIDE DEF h
  <2>4. f = h
    <3> HIDE DEF X, n
    <3>1. f = [i \in 0 .. n |-> f[i]] /\ h = [i \in 0 .. n |-> h[i]]
      BY DEF h
    <3> QED BY <2>2, <3>1
  <2> QED BY <2>4 DEF h
<1>6. Turns(l, set) = CHOOSE w : Is(w)
  BY DEF Turns
<1>7. Is(Turns(l, set))
  <2> HIDE DEF Is
  <2> QED BY <1>5, <1>6
<1> HIDE DEF X
<1> DEFINE w == Turns(l, set)
<1>8. w = [i \in 0 .. n |-> IF i = 0 THEN lists
             ELSE IF lists[l][i] \in set THEN Wake(w[i - 1], lists[l][i])
             ELSE w[i - 1]]
  BY <1>7
<1> HIDE DEF w, n
<1>9. /\ w[0] = lists
      /\ \A i \in 1 .. n : w[i] = IF lists[l][i] \in set THEN Wake(w[i - 1], lists[l][i])
                                  ELSE w[i - 1]
  BY <1>1, <1>8
<1> QED BY <1>9 DEF w, n

\* A task that is woken.
Woke(t) == Ended(t) \cup (IF Suspended(t) THEN {} ELSE {"ready"})

\* Waking a task that waits in l touches no other wait list.
LEMMA WakeElsewhere ==
  ASSUME NEW q, Nodes(q), prio \in [Tasks -> Priorities],
         NEW u \in Tasks, NEW v \in WaitObjects, u \notin Range(q[v])
  PROVE  Wake(q, u)[v] = q[v]
<1>q. q \in [Lists -> Seq(Tasks)]
  BY DEF Nodes
<1>1. v \in Lists /\ prio[u] \in Priorities
  BY ListsAreLists
<1>2. Unlink(q, u)[v] = q[v]
  BY <1>1 DEF Unlink, Without
<1>3. Unlink(q, u) \in [Lists -> Seq(Tasks)]
  BY <1>q, UnlinkFacts
<1>4. Enqueue(Unlink(q, u), u, prio[u])[v] = Unlink(q, u)[v]
  BY <1>1, <1>3, QueuesOnly
<1> QED BY <1>2, <1>4 DEF Wake

\* What the loop leaves: the tasks of set are where their flags say, nobody
\* else has moved.
LEMMA TurnsFacts ==
  ASSUME Consistent, NEW l \in WaitObjects, NEW set \in SUBSET Range(lists[l]),
         NEW q, q = Turns(l, set)[Len(lists[l])],
         NEW st, st = [t \in Tasks |-> IF t \in set THEN Woke(t) ELSE status[t]]
  PROVE  /\ Matches(q, st, prio)
         /\ \A w \in WaitObjects \ {l} : q[w] = lists[w]
         /\ \A w \in WaitObjects : Range(q[w]) = Range(lists[w]) \ set
<1> DEFINE n == Len(lists[l])
           s == lists[l]
           w == Turns(l, set)
           Done(i) == {s[j] : j \in 1 .. i} \cap set
           St(i) == [t \in Tasks |-> IF t \in Done(i) THEN Woke(t) ELSE status[t]]
           Good(i) == /\ Matches(w[i], St(i), prio)
                      /\ \A v \in WaitObjects \ {l} : w[i][v] = lists[v]
           G == {i \in 0 .. n : Good(i)}
<1>t. /\ lists \in [Lists -> Seq(Tasks)] /\ prio \in [Tasks -> Priorities]
      /\ status \in [Tasks -> SUBSET Flags] /\ WaitObjects \subseteq Lists
      /\ Matches(lists, status, prio) /\ Nodes(lists)
  BY ListsAreLists DEF Consistent, TypeInv, TypeOK, Matches
<1>n. /\ n \in Nat /\ s \in Seq(Tasks) /\ IsInjective(s)
      /\ DOMAIN s = 1 .. n /\ Range(s) = {s[j] : j \in 1 .. n}
      /\ \A i \in 1 .. n : s[i] \in Tasks /\ s[i] \in Range(lists[l])
  BY <1>t DEF Nodes, Range
<1>p. \A u \in set : /\ u \in Tasks /\ "pend" \in status[u] /\ "ready" \notin status[u]
                     /\ \A v \in WaitObjects \ {l} : u \notin Range(lists[v])
  <2>1. \A u \in set : u \in Tasks /\ u \in Range(lists[l])
    BY <1>n
  <2>2. \A u \in set : "pend" \in status[u]
    BY <2>1, <1>t DEF Matches, Fits
  <2>3. \A u \in set : "ready" \notin status[u]
    BY <2>1, <2>2 DEF Consistent, States, OneState
  <2> QED BY <2>1, <2>2, <2>3, <1>t DEF Nodes
<1>l. /\ w[0] = lists
      /\ \A i \in 1 .. n : w[i] = IF s[i] \in set THEN Wake(w[i - 1], s[i]) ELSE w[i - 1]
  BY <1>t, TurnsIsLoop
<1> HIDE DEF n, s, w
<1>1. 0 \in G
  <2>1. St(0) = status
    BY <1>t
  <2> HIDE DEF St
  <2>2. Good(0)
    BY <2>1, <1>l, <1>t
  <2> HIDE DEF Good
  <2> QED BY <2>2, <1>n
<1>2. ASSUME NEW m \in 1 .. n, m - 1 \in G
      PROVE  m \in G
  <2> DEFINE u == s[m]
             st0 == St(m - 1)
             q0 == w[m - 1]
  <2>0. Matches(q0, st0, prio) /\ \A v \in WaitObjects \ {l} : q0[v] = lists[v]
    BY <1>2
  <2>1. CASE u \in set
    <3>1. \A j \in 1 .. m - 1 : s[j] # u
      BY <1>n DEF IsInjective
    <3>2. {s[j] : j \in 1 .. m} = {s[j] : j \in 1 .. m - 1} \cup {u}
      BY <1>n
    <3>3. Done(m) = Done(m - 1) \cup {u} /\ u \notin Done(m - 1)
      BY <2>1, <3>1, <3>2
    <3>u. u \in Tasks /\ "pend" \in status[u] /\ "ready" \notin status[u]
      BY <1>p, <2>1
    <3> HIDE DEF Done
    <3>4. st0[u] = status[u]
      BY <3>3, <3>u
    <3>5. St(m) = [st0 EXCEPT ![u] = Woke(u)]
      BY <3>3, <3>u
    <3>6. w[m] = Wake(q0, u)
      BY <1>l, <2>1
    <3> HIDE DEF St, st0, q0, u
    <3>7. Woke(u) = (status[u] \ {"pend", "timeout"})
                      \cup (IF "suspend" \in status[u] THEN {} ELSE {"ready"})
      BY DEF Woke, Ended, Suspended
    <3>s. St(m) = [st0 EXCEPT ![u] =
                     (status[u] \ {"pend", "timeout"})
                       \cup (IF "suspend" \in status[u] THEN {} ELSE {"ready"})]
      BY <3>5, <3>7
    <3>m. Matches(q0, st0, prio)
      BY <2>0
    <3>8. Matches(w[m], St(m), prio)
      <4>1. PICK st1 : st1 = St(m)
        OBVIOUS
      <4>2. st1 = [st0 EXCEPT ![u] =
                     (status[u] \ {"pend", "timeout"})
                       \cup (IF "suspend" \in status[u] THEN {} ELSE {"ready"})]
        BY <4>1, <3>s
      <4>3. Matches(Wake(q0, u), st1, prio)
        BY <3>m, <3>u, <3>4, <4>2, WakeMatches
      <4> QED BY <4>1, <4>3, <3>6
    <3>9. ASSUME NEW v \in WaitObjects \ {l} PROVE w[m][v] = lists[v]
      <4>1. Nodes(q0)
        BY <2>0 DEF Matches
      <4>2. u \notin Range(q0[v])
        BY <2>0, <2>1, <1>p
      <4>3. Wake(q0, u)[v] = q0[v]
        BY <4>1, <4>2, <3>u, <1>t, WakeElsewhere
      <4> QED BY <4>3, <3>6, <2>0
    <3> QED BY <3>8, <3>9
  <2>2. CASE u \notin set
    <3>1. {s[j] : j \in 1 .. m} = {s[j] : j \in 1 .. m - 1} \cup {u}
      BY <1>n
    <3>2. Done(m) = Done(m - 1)
      BY <2>2, <3>1
    <3>3. w[m] = q0
      BY <1>l, <2>2
    <3> HIDE DEF Done, q0
    <3> QED BY <2>0, <3>2, <3>3
  <2> QED BY <2>1, <2>2
<1>3. n \in G
  <2> HIDE DEF G
  <2>1. \A i \in 0 .. n : i \in G
    BY <1>1, <1>2, <1>n, UpToN
  <2> QED BY <2>1, <1>n
<1>4. q = w[n] /\ St(n) = st
  <2>1. Done(n) = set
    BY <1>n DEF s
  <2> HIDE DEF Done
  <2> QED BY <2>1 DEF w, n
<1>5. Matches(q, st, prio) /\ \A v \in WaitObjects \ {l} : q[v] = lists[v]
  BY <1>3, <1>4
<1>6. ASSUME NEW v \in WaitObjects
      PROVE  Range(q[v]) = Range(lists[v]) \ set
  <2>1. CASE v # l
    BY <1>5, <1>p, <2>1
  <2>2. CASE v = l
    <3>0. Range(q[l]) \subseteq Tasks /\ Range(lists[l]) \subseteq Tasks
      BY <1>5, <1>t DEF Matches, Nodes, Range
    <3>1. ASSUME NEW u \in Tasks
          PROVE  u \in Range(q[l]) <=> u \in Range(lists[l]) /\ u \notin set
      <4>1. "pend" \in st[u] <=> "pend" \in status[u] /\ u \notin set
        BY <1>p DEF Woke, Ended
      <4>2. /\ "pend" \in st[u] <=> \E x \in WaitObjects : u \in Range(q[x])
            /\ "pend" \in status[u] <=> \E x \in WaitObjects : u \in Range(lists[x])
        BY <1>5, <1>t DEF Matches, Fits
      <4>3. \A x \in WaitObjects \ {l} :
              /\ Range(q[x]) = Range(lists[x])
              /\ Range(q[l]) \cap Range(q[x]) = {}
              /\ Range(lists[l]) \cap Range(lists[x]) = {}
        BY <1>5, <1>t DEF Matches, Nodes
      <4> QED BY <4>1, <4>2, <4>3
    <3> QED BY <2>2, <3>0, <3>1
  <2> QED BY <2>1, <2>2
<1> QED BY <1>5, <1>6

\* Putting e in front of the i-th element of a sequence: the k-th is then this.
Inserted(s, i, e, k) == IF k < i THEN s[k] ELSE IF k = i THEN e ELSE s[k - 1]

LEMMA InsertAtElements ==
  ASSUME NEW S, NEW s \in Seq(S), NEW e \in S, NEW i \in 1 .. Len(s) + 1
  PROVE  /\ InsertAt(s, i, e) \in Seq(S)
         /\ Len(InsertAt(s, i, e)) = Len(s) + 1
         /\ \A k \in 1 .. Len(s) + 1 : InsertAt(s, i, e)[k] = Inserted(s, i, e, k)
<1> DEFINE u == SubSeq(s, 1, i - 1)
           m == <<e>>
           v == SubSeq(s, i, Len(s))
           um == u \o m
           w == InsertAt(s, i, e)
<1>0. /\ Len(s) \in Nat /\ 1 \in Int /\ i \in Int /\ i - 1 \in Int /\ Len(s) \in Int
      /\ \A k \in 1 .. Len(s) : s[k] \in S
  BY LenProperties
<1>2. /\ u \in Seq(S) /\ Len(u) = i - 1
      /\ \A k \in 1 .. i - 1 : u[k] = s[k]
  BY <1>0
<1>3. /\ v \in Seq(S) /\ Len(v) = Len(s) - i + 1
      /\ \A k \in 1 .. Len(s) - i + 1 : v[k] = s[k + i - 1]
  <2>1. /\ v \in Seq(S)
        /\ Len(v) = IF i <= Len(s) THEN Len(s) - i + 1 ELSE 0
        /\ \A k \in 1 .. Len(s) - i + 1 : v[k] = s[i + k - 1]
    BY <1>0, SubSeqProperties
  <2> HIDE DEF v
  <2> QED BY <1>0, <2>1
<1>4. m \in Seq(S) /\ Len(m) = 1 /\ m[1] = e
  OBVIOUS
<1>5. w = um \o v
  BY DEF InsertAt
<1> HIDE DEF u, v, m, w
<1>6. /\ um \in Seq(S)
      /\ Len(um) = Len(u) + Len(m)
      /\ \A k \in 1 .. Len(u) + Len(m) :
           um[k] = IF k <= Len(u) THEN u[k] ELSE m[k - Len(u)]
  BY <1>2, <1>4, ConcatProperties
<1> HIDE DEF um
<1>7. /\ w \in Seq(S)
      /\ Len(w) = Len(um) + Len(v)
      /\ \A k \in 1 .. Len(um) + Len(v) :
           w[k] = IF k <= Len(um) THEN um[k] ELSE v[k - Len(um)]
  <2>1. um \in Seq(S) /\ v \in Seq(S)
    BY <1>3, <1>6
  <2>2. /\ um \o v \in Seq(S)
        /\ Len(um \o v) = Len(um) + Len(v)
        /\ \A k \in 1 .. Len(um) + Len(v) :
             (um \o v)[k] = IF k <= Len(um) THEN um[k] ELSE v[k - Len(um)]
    BY <2>1, ConcatProperties
  <2> QED BY <1>5, <2>2
<1>8. Len(um) = i /\ Len(w) = Len(s) + 1
  BY <1>0, <1>2, <1>3, <1>4, <1>6, <1>7
<1>9. ASSUME NEW k \in 1 .. Len(s) + 1
      PROVE  w[k] = IF k < i THEN s[k] ELSE IF k = i THEN e ELSE s[k - 1]
  <2>1. CASE k < i
    <3>1. w[k] = um[k] /\ um[k] = u[k] /\ k \in 1 .. i - 1
      BY <1>0, <1>2, <1>3, <1>4, <1>6, <1>7, <1>8, <2>1
    <3> QED BY <1>2, <2>1, <3>1
  <2>2. CASE k = i
    <3>1. w[k] = um[k] /\ um[k] = m[k - Len(u)] /\ k - Len(u) = 1
      BY <1>0, <1>2, <1>3, <1>4, <1>6, <1>7, <1>8, <2>2
    <3> QED BY <1>4, <2>2, <3>1
  <2>3. CASE k > i
    <3>1. w[k] = v[k - i] /\ k - i \in 1 .. Len(s) - i + 1 /\ k - i + i - 1 = k - 1
      BY <1>0, <1>3, <1>7, <1>8, <2>3
    <3> QED BY <1>0, <1>3, <2>3, <3>1
  <2> QED BY <1>0, <2>1, <2>2, <2>3
<1>10. \A k \in 1 .. Len(s) + 1 : w[k] = Inserted(s, i, e, k)
  BY <1>9 DEF Inserted
<1> QED BY <1>7, <1>8, <1>10 DEF w

LEMMA InsertAtFacts ==
  ASSUME NEW S, NEW s \in Seq(S), NEW e \in S, NEW i \in 1 .. Len(s) + 1
  PROVE  /\ Range(InsertAt(s, i, e)) = Range(s) \cup {e}
         /\ IsInjective(s) /\ e \notin Range(s) => IsInjective(InsertAt(s, i, e))
<1> DEFINE w == InsertAt(s, i, e)
<1>n. PICK n : n = Len(s)
  OBVIOUS
<1>1. /\ w \in Seq(S) /\ Len(w) = n + 1
      /\ \A k \in 1 .. n + 1 :
           w[k] = IF k < i THEN s[k] ELSE IF k = i THEN e ELSE s[k - 1]
  <2>1. /\ w \in Seq(S) /\ Len(w) = Len(s) + 1
        /\ \A k \in 1 .. Len(s) + 1 :
             w[k] = IF k < i THEN s[k] ELSE IF k = i THEN e ELSE s[k - 1]
    <3>1. InsertAt(s, i, e) \in Seq(S) /\ Len(InsertAt(s, i, e)) = Len(s) + 1
      BY InsertAtElements
    <3>2. \A k \in 1 .. Len(s) + 1 : InsertAt(s, i, e)[k] = Inserted(s, i, e, k)
      BY InsertAtElements
    <3> QED BY <3>1, <3>2 DEF Inserted
  <2> HIDE DEF w
  <2> QED BY <1>n, <2>1
<1>2. n \in Nat /\ DOMAIN s = 1 .. n /\ i \in 1 .. n + 1
  BY <1>n
<1> HIDE DEF w
<1>3. DOMAIN w = 1 .. n + 1
  BY <1>1
<1>4. \A k \in 1 .. n : s[k] = w[IF k < i THEN k ELSE k + 1]
  <2> TAKE k \in 1 .. n
  <2>1. CASE k < i
    BY <1>1, <1>2, <2>1
  <2>2. CASE ~(k < i)
    <3>1. k + 1 \in 1 .. n + 1 /\ ~(k + 1 < i) /\ k + 1 # i /\ k + 1 - 1 = k
      BY <1>2, <2>2
    <3> QED BY <1>1, <2>2, <3>1
  <2> QED BY <2>1, <2>2
<1>5. Range(w) = Range(s) \cup {e}
  <2>1. \A k \in 1 .. n + 1 : w[k] \in Range(s) \cup {e}
    <3> TAKE k \in 1 .. n + 1
    <3>1. CASE k < i
      <4>1. k \in DOMAIN s /\ w[k] = s[k]
        BY <1>1, <1>2, <3>1
      <4> QED BY <4>1 DEF Range
    <3>2. CASE k = i
      BY <1>1, <1>2, <3>2
    <3>3. CASE k > i
      <4>1. k - 1 \in DOMAIN s /\ w[k] = s[k - 1]
        BY <1>1, <1>2, <3>3
      <4> QED BY <4>1 DEF Range
    <3> QED BY <1>2, <3>1, <3>2, <3>3
  <2>2. e \in Range(w)
    BY <1>1, <1>2, <1>3 DEF Range
  <2>3. \A k \in 1 .. n : s[k] \in Range(w)
    <3> TAKE k \in 1 .. n
    <3>1. (IF k < i THEN k ELSE k + 1) \in DOMAIN w
      BY <1>2, <1>3
    <3> QED BY <1>4, <3>1 DEF Range
  <2> QED BY <1>2, <1>3, <2>1, <2>2, <2>3 DEF Range
<1>6. ASSUME IsInjective(s), e \notin Range(s) PROVE IsInjective(w)
  <2>1. \A a, b \in 1 .. n : s[a] = s[b] => a = b
    BY <1>2, <1>6 DEF IsInjective
  <2>2. \A a \in 1 .. n : s[a] # e
    BY <1>2, <1>6 DEF Range
  <2>3. ASSUME NEW a \in 1 .. n + 1, NEW b \in 1 .. n + 1, w[a] = w[b]
        PROVE  a = b
    <3>1. /\ a < i => a \in 1 .. n
          /\ a > i => a - 1 \in 1 .. n
          /\ b < i => b \in 1 .. n
          /\ b > i => b - 1 \in 1 .. n
      BY <1>2
    <3>2. CASE a = i \/ b = i
      BY <1>1, <1>2, <2>2, <2>3, <3>1, <3>2
    <3>3. CASE a # i /\ b # i
      BY <1>1, <1>2, <2>1, <2>3, <3>1, <3>3
    <3> QED BY <3>2, <3>3
  <2> QED BY <1>3, <2>3 DEF IsInjective
<1> QED BY <1>5, <1>6 DEF w

\* The sequence stays in order of priority when n is taken out or a task is put
\* in at its place.
InLine(s) == \A i, j \in DOMAIN s : i < j => prio[s[i]] <= prio[s[j]]

\* The place osQueuePend finds.
LEMMA PlaceFacts ==
  ASSUME lists \in [Lists -> Seq(Tasks)], prio \in [Tasks -> Priorities],
         NEW l \in Lists, NEW t \in Tasks,
         NEW s, s = lists[l], NEW i, i = Place(t, l)
  PROVE  /\ i \in 1 .. Len(s) + 1
         /\ \A k \in 1 .. Len(s) : k < i => prio[s[k]] <= prio[t]
         /\ i <= Len(s) => prio[t] < prio[s[i]]
         /\ \A k \in 1 .. Len(s) : prio[s[k]] \in Nat
         /\ prio[t] \in Nat
<1> DEFINE lower == {k \in DOMAIN s : prio[t] < prio[s[k]]}
<1>1. s \in Seq(Tasks) /\ DOMAIN s = 1 .. Len(s) /\ Len(s) \in Nat
  OBVIOUS
<1>2. Priorities \subseteq Nat
  BY ParamAssumption DEF Priorities
<1>3. \A k \in 1 .. Len(s) : s[k] \in Tasks
  BY <1>1
<1>4. (\A k \in 1 .. Len(s) : prio[s[k]] \in Nat) /\ prio[t] \in Nat
  <2>1. \A u \in Tasks : prio[u] \in Nat
    BY <1>2
  <2> QED BY <1>3, <2>1
<1>5. i = IF lower = {} THEN Len(s) + 1
          ELSE CHOOSE k \in lower : \A j \in lower : k <= j
  BY DEF Place
<1>6. CASE lower = {}
  <2>1. i = Len(s) + 1
    BY <1>5, <1>6
  <2>2. \A k \in 1 .. Len(s) : ~(prio[t] < prio[s[k]])
    BY <1>1, <1>6
  <2>3. \A k \in 1 .. Len(s) : prio[s[k]] <= prio[t]
    BY <1>4, <2>2
  <2> QED BY <1>1, <1>4, <2>1, <2>3
<1>7. CASE lower # {}
  <2>1. lower \subseteq Nat
    BY <1>1
  <2> HIDE DEF lower
  <2>2. \E k \in lower : \A j \in lower : k <= j
    BY <1>7, <2>1, LeastNat
  <2>3. i \in lower /\ \A j \in lower : i <= j
    BY <1>5, <1>7, <2>2
  <2>4. i \in 1 .. Len(s) /\ prio[t] < prio[s[i]]
    BY <1>1, <2>3 DEF lower
  <2>5. ASSUME NEW k \in 1 .. Len(s), k < i PROVE prio[s[k]] <= prio[t]
    <3>1. k \notin lower
      BY <1>1, <2>3, <2>4, <2>5
    <3>2. ~(prio[t] < prio[s[k]])
      BY <1>1, <3>1 DEF lower
    <3> QED BY <1>4, <3>2
  <2> QED BY <1>1, <1>4, <2>4, <2>5
<1> QED BY <1>6, <1>7

LEMMA InLineInsert ==
  ASSUME lists \in [Lists -> Seq(Tasks)], prio \in [Tasks -> Priorities],
         NEW l \in Lists, NEW t \in Tasks, InLine(lists[l])
  PROVE  InLine(InsertAt(lists[l], Place(t, l), t))
<1>s. PICK s : s = lists[l]
  OBVIOUS
<1>i. PICK i : i = Place(t, l)
  OBVIOUS
<1>1. s \in Seq(Tasks) /\ DOMAIN s = 1 .. Len(s) /\ Len(s) \in Nat
  BY <1>s
<1>2. /\ i \in 1 .. Len(s) + 1
      /\ \A k \in 1 .. Len(s) : k < i => prio[s[k]] <= prio[t]
      /\ i <= Len(s) => prio[t] < prio[s[i]]
      /\ \A k \in 1 .. Len(s) : prio[s[k]] \in Nat
      /\ prio[t] \in Nat
  BY <1>s, <1>i, PlaceFacts
<1>w. PICK w : w = InsertAt(s, i, t)
  OBVIOUS
<1>3. /\ w \in Seq(Tasks) /\ Len(w) = Len(s) + 1
      /\ \A k \in 1 .. Len(s) + 1 :
           w[k] = IF k < i THEN s[k] ELSE IF k = i THEN t ELSE s[k - 1]
  <2>1. s \in Seq(Tasks) /\ t \in Tasks /\ i \in 1 .. Len(s) + 1
    BY <1>1, <1>2
  <2>2. InsertAt(s, i, t) \in Seq(Tasks)
    BY <2>1, InsertAtElements
  <2>3. Len(InsertAt(s, i, t)) = Len(s) + 1
    BY <2>1, InsertAtElements
  <2>4. \A k \in 1 .. Len(s) + 1 : InsertAt(s, i, t)[k] = Inserted(s, i, t, k)
    BY <2>1, InsertAtElements
  <2> QED BY <1>w, <2>2, <2>3, <2>4 DEF Inserted
<1>d. DOMAIN w = 1 .. Len(s) + 1
  BY <1>3
<1>n. PICK n \in Nat : n = Len(s)
  BY <1>1
<1>4. \A a, b \in 1 .. n : a < b => prio[s[a]] <= prio[s[b]]
  BY <1>1, <1>s, <1>n DEF InLine
<1>p. \A k \in 1 .. n : prio[s[k]] \in Nat
  BY <1>2, <1>n
<1>5. ASSUME NEW k \in 1 .. n, k >= i PROVE prio[t] <= prio[s[k]]
  <2>1. i \in 1 .. n /\ prio[t] < prio[s[i]]
    BY <1>2, <1>5, <1>n
  <2>2. CASE k = i
    BY <1>2, <1>p, <2>1, <2>2
  <2>3. CASE k # i
    <3>1. prio[s[i]] <= prio[s[k]]
      BY <1>4, <1>5, <2>1, <2>3
    <3> QED BY <1>2, <1>p, <2>1, <3>1
  <2> QED BY <2>2, <2>3
<1>6. ASSUME NEW a \in 1 .. n + 1, NEW b \in 1 .. n + 1, a < b
      PROVE  prio[w[a]] <= prio[w[b]]
  <2>i. i \in 1 .. n + 1
    BY <1>2, <1>n
  <2>1. CASE b < i
    <3>1. a \in 1 .. n /\ b \in 1 .. n /\ a < i
      BY <1>6, <2>1, <2>i
    <3>2. w[a] = s[a] /\ w[b] = s[b]
      BY <1>3, <1>n, <2>1, <3>1
    <3> QED BY <1>4, <1>6, <3>1, <3>2
  <2>2. CASE b = i
    <3>1. a \in 1 .. n /\ a < i
      BY <1>6, <2>2, <2>i
    <3>2. w[a] = s[a] /\ w[b] = t
      BY <1>3, <1>n, <2>2, <3>1
    <3> QED BY <1>2, <1>n, <3>1, <3>2
  <2>3. CASE b > i
    <3>1. b - 1 \in 1 .. n /\ b - 1 >= i
      BY <2>3, <2>i
    <3>b. w[b] = s[b - 1]
      BY <1>3, <1>n, <2>3, <2>i
    <3>2. CASE a = i
      <4>1. w[a] = t
        BY <1>3, <1>n, <3>2
      <4>2. prio[t] <= prio[s[b - 1]]
        BY <1>5, <3>1
      <4> QED BY <3>b, <4>1, <4>2
    <3>3. CASE a < i
      <4>1. a \in 1 .. n /\ a < b - 1
        BY <2>3, <2>i, <3>3
      <4>2. w[a] = s[a]
        BY <1>3, <1>n, <3>3
      <4> QED BY <1>4, <3>1, <3>b, <4>1, <4>2
    <3>4. CASE a > i
      <4>1. a - 1 \in 1 .. n /\ a - 1 < b - 1
        BY <1>6, <2>i, <3>4
      <4>2. w[a] = s[a - 1]
        BY <1>3, <1>n, <2>i, <3>4
      <4> QED BY <1>4, <3>1, <3>b, <4>1, <4>2
    <3> QED BY <2>i, <3>2, <3>3, <3>4
  <2> QED BY <2>i, <2>1, <2>2, <2>3
<1>7. InLine(w)
  BY <1>d, <1>n, <1>6 DEF InLine
<1> QED BY <1>7, <1>s, <1>i, <1>w

LEMMA InLineWithout ==
  ASSUME NEW s \in Seq(Tasks), NEW n, InLine(s),
         \A t \in Range(s) : prio'[t] = prio[t]
  PROVE  \A i, j \in DOMAIN Without(s, n) :
           i < j => prio'[Without(s, n)[i]] <= prio'[Without(s, n)[j]]
<1>0. DOMAIN s = 1 .. Len(s) /\ Len(s) \in Nat
  OBVIOUS
<1>1. CASE n \notin Range(s)
  BY <1>1, <1>0 DEF Without, InLine, Range
<1>2. CASE n \in Range(s)
  <2>1. PICK k \in 1 .. Len(s) : Without(s, n) = RemoveAt(s, k)
    <3>1. \E i \in DOMAIN s : s[i] = n
      BY <1>2 DEF Range
    <3>2. (CHOOSE i \in DOMAIN s : s[i] = n) \in DOMAIN s
      BY <3>1
    <3> QED BY <1>0, <1>2, <3>2 DEF Without
  <2> DEFINE w == Without(s, n)
  <2>2. /\ w \in Seq(Tasks) /\ Len(w) = Len(s) - 1
        /\ \A i \in 1 .. Len(s) - 1 : w[i] = IF i < k THEN s[i] ELSE s[i + 1]
    BY <2>1, RemoveAtElements
  <2> HIDE DEF w
  <2>3. DOMAIN w = 1 .. Len(s) - 1
    BY <1>0, <2>2
  <2>4. \A i, j \in 1 .. Len(s) : i < j => prio'[s[i]] <= prio'[s[j]]
    BY <1>0 DEF InLine, Range
  <2>5. ASSUME NEW i \in 1 .. Len(s) - 1, NEW j \in 1 .. Len(s) - 1, i < j
        PROVE  prio'[w[i]] <= prio'[w[j]]
    <3>1. /\ i \in 1 .. Len(s) /\ j \in 1 .. Len(s)
          /\ i + 1 \in 1 .. Len(s) /\ j + 1 \in 1 .. Len(s)
          /\ i + 1 < j + 1 /\ i < j + 1
      BY <1>0, <2>5
    <3>2. CASE i < k
      BY <2>2, <2>4, <2>5, <3>1, <3>2
    <3>3. CASE ~(i < k)
      <4>1. ~(j < k)
        BY <2>5, <3>3
      <4> QED BY <2>2, <2>4, <2>5, <3>1, <3>3, <4>1
    <3> QED BY <3>2, <3>3
  <2> QED BY <2>3, <2>5 DEF w
<1> QED BY <1>1, <1>2

\* Serving the first waiter is one turn of the loop.
LEMMA TurnsServed ==
  ASSUME lists \in [Lists -> Seq(Tasks)], prio \in [Tasks -> Priorities],
         NEW l \in Lists, IsInjective(lists[l])
  PROVE  Turns(l, Served(l))[Len(lists[l])]
           = IF lists[l] = <<>> THEN lists ELSE Wake(lists, Head(lists[l]))
<1> DEFINE s == lists[l]
           n == Len(s)
           w == Turns(l, Served(l))
           G == {i \in 0 .. n : i > 0 => w[i] = Wake(lists, Head(s))}
<1>1. s \in Seq(Tasks) /\ n \in Nat /\ IsInjective(s) /\ DOMAIN s = 1 .. n
  OBVIOUS
<1>2. /\ w[0] = lists
      /\ \A i \in 1 .. n : w[i] = IF s[i] \in Served(l) THEN Wake(w[i - 1], s[i])
                                  ELSE w[i - 1]
  BY TurnsIsLoop
<1>3. CASE s = <<>>
  BY <1>2, <1>3
<1>4. CASE s # <<>>
  <2>1. Served(l) = {Head(s)} /\ Head(s) = s[1] /\ n > 0
    BY <1>1, <1>4 DEF Served
  <2> HIDE DEF s, w, n
  <2>2. 0 \in G
    BY <1>1
  <2>3. ASSUME NEW i \in 1 .. n, i - 1 \in G PROVE i \in G
    <3>1. CASE i = 1
      BY <1>1, <1>2, <2>1, <3>1
    <3>2. CASE i > 1
      <4>1. s[i] # s[1]
        BY <1>1, <2>1, <3>2 DEF IsInjective
      <4>2. w[i] = w[i - 1] /\ i - 1 > 0
        BY <1>2, <2>1, <3>2, <4>1
      <4> QED BY <2>3, <4>2
    <3> QED BY <3>1, <3>2
  <2>4. n \in G
    <3> HIDE DEF G
    <3>1. \A i \in 0 .. n : i \in G
      BY <1>1, <2>2, <2>3, UpToN
    <3> QED BY <1>1, <3>1
  <2> QED BY <1>4, <2>1, <2>4 DEF s, w, n
<1> QED BY <1>3, <1>4

LEMMA TaskTypes ==
  ASSUME Consistent
  PROVE  /\ status \in [Tasks -> SUBSET Flags] /\ pc \in [Tasks -> Pcs]
         /\ prio \in [Tasks -> Priorities] /\ timer \in [Tasks -> 0 .. MaxTimeout]
         /\ lists \in [Lists -> Seq(Tasks)] /\ run \in Tasks \cup {None}
         /\ WaitObjects \subseteq Lists
         /\ Matches(lists, status, prio) /\ Nodes(lists)
         /\ \A w \in WaitObjects : /\ lists[w] \in Seq(Tasks) /\ IsInjective(lists[w])
                                   /\ Range(lists[w]) \subseteq Tasks
<1>1. /\ lists \in [Lists -> Seq(Tasks)] /\ WaitObjects \subseteq Lists /\ Nodes(lists)
  BY ListsAreLists DEF Consistent, TypeInv, TypeOK, Matches
<1>2. \A w \in WaitObjects : /\ lists[w] \in Seq(Tasks) /\ IsInjective(lists[w])
                             /\ Range(lists[w]) \subseteq Tasks
  BY <1>1 DEF Nodes, Range
<1> QED BY <1>1, <1>2 DEF Consistent, TypeInv, TypeOK, Matches

\* A task that is in a wait list is inside a call.
LEMMA WaitingFacts ==
  ASSUME Consistent, NEW w \in WaitObjects, NEW t \in Range(lists[w])
  PROVE  /\ t \in Tasks /\ "pend" \in status[t]
         /\ status[t] \cap {"unused", "ready", "delay"} = {}
<1>1. t \in Tasks
  BY TaskTypes
<1>2. "pend" \in status[t]
  BY <1>1 DEF Consistent, Matches, Fits
<1> QED BY <1>1, <1>2 DEF Consistent, States, OneState

\* The running task is in none.
LEMMA RunnerFacts ==
  ASSUME Consistent, NEW t \in Tasks, Running(t), pc[t] \in {"app", "tail"}
  PROVE  /\ scheduled /\ isr.active = FALSE /\ run = t
         /\ "ready" \in status[t] /\ "pend" \notin status[t]
         /\ \A w \in WaitObjects : t \notin Range(lists[w])
<1>1. scheduled /\ isr.active = FALSE /\ run = t
  BY DEF Running, Consistent, TypeInv, TypeOK
<1>2. "ready" \in status[t]
  BY <1>1 DEF Consistent, RunReady
<1>3. "pend" \notin status[t]
  BY <1>2 DEF Consistent, States, OneState
<1> QED BY <1>1, <1>2, <1>3, WaitingFacts

\* The task c, or an interrupt handler (None), goes on after it served the
\* tasks of set.
GoesOn(c, set) ==
  \/ c = None /\ InHandler /\ HandlerGoesOn(set)
  \/ c \in Tasks /\ Running(c) /\ pc[c] \in {"app", "tail"} /\ TaskGoesOn(c, set)

\* What such a step leaves of the waits.
ServedIn(l, set, c) ==
  /\ prio' = prio
  /\ lists'[l] = Turns(l, set)[Len(lists[l])][l]
  /\ \A w \in WaitObjects : Range(lists'[w]) = Range(lists[w]) \ set
  /\ \A w \in WaitObjects \ {l} : lists'[w] = lists[w]
  /\ \A w \in WaitObjects : c \notin Range(lists[w])
  /\ \A t \in Tasks : t # c => pc'[t] = pc[t]
  /\ c \in Tasks => pc[c] \in {"app", "tail"} /\ pc'[c] \in {"app", "sched"}
  /\ \A t \in Tasks : status'[t] = IF t \in set THEN Woke(t) ELSE status[t]

LEMMA ServeTasks ==
  ASSUME Consistent, FreeIsOut, NEW l \in WaitObjects,
         NEW set \in SUBSET Range(lists[l]), EndWaits(l, set), NEW c, GoesOn(c, set)
  PROVE  Consistent' /\ FreeIsOut' /\ ServedIn(l, set, c)
<1>t. /\ status \in [Tasks -> SUBSET Flags] /\ pc \in [Tasks -> Pcs]
      /\ prio \in [Tasks -> Priorities] /\ lists \in [Lists -> Seq(Tasks)]
      /\ run \in Tasks \cup {None} /\ WaitObjects \subseteq Lists
      /\ Range(lists[l]) \subseteq Tasks /\ set \subseteq Tasks
  BY TaskTypes
<1>s. \A t \in set : "pend" \in status[t] /\ status[t] \cap {"unused", "ready", "delay"} = {}
  BY WaitingFacts
<1>0. /\ scheduled /\ isr.active = FALSE
      /\ UNCHANGED <<prio, lock, isr, slice, scheduled, fault>>
      /\ c \in Tasks => /\ run = c /\ pc[c] \in {"app", "tail"}
                        /\ pc' = [pc EXCEPT ![c] = IF set # {} THEN "sched" ELSE "app"]
                        /\ run' = run
      /\ c \notin Tasks => pc' = pc /\ (run' = run \/ SwitchTo(lists'))
  <2>1. CASE c = None /\ InHandler /\ HandlerGoesOn(set)
    <3>1. c \notin Tasks
      BY <2>1, ParamAssumption
    <3>2. isr.active = FALSE
      BY <2>1 DEF InHandler, Consistent, TypeInv, TypeOK
    <3> QED BY <2>1, <3>1, <3>2 DEF InHandler, HandlerGoesOn
  <2>2. CASE c \in Tasks /\ Running(c) /\ pc[c] \in {"app", "tail"} /\ TaskGoesOn(c, set)
    BY <2>2, RunnerFacts DEF TaskGoesOn
  <2> QED BY <2>1, <2>2 DEF GoesOn
<1>1. /\ status' = [t \in Tasks |-> IF t \in set THEN Woke(t) ELSE status[t]]
      /\ lists' = Turns(l, set)[Len(lists[l])]
  BY DEF EndWaits, Woke
<1>2. /\ Matches(lists', status', prio)
      /\ \A w \in WaitObjects \ {l} : lists'[w] = lists[w]
      /\ \A w \in WaitObjects : Range(lists'[w]) = Range(lists[w]) \ set
  BY <1>1, TurnsFacts
<1>3. \A w \in WaitObjects : c \notin Range(lists[w])
  <2>1. CASE c \in Tasks
    <3>1. "ready" \in status[c]
      BY <1>0, <2>1 DEF Consistent, RunReady
    <3> QED BY <3>1, WaitingFacts
  <2>2. CASE c \notin Tasks
    BY <2>2, WaitingFacts
  <2> QED BY <2>1, <2>2
<1>4. Consistent'
  <2>1. Matches(lists', status', prio')
    BY <1>0, <1>2
  <2>2. lists' \in [Lists -> Seq(Tasks)] /\ prio' \in [Tasks -> Priorities]
    BY <2>1 DEF Matches, Nodes
  <2>3. WaitsEnd(set)
    BY DEF EndWaits, WaitsEnd, Ended, Suspended
  <2>4. \/ pc' = pc
        \/ /\ pc[run] \in {"app", "tail"}
           /\ \/ pc' = [pc EXCEPT ![run] = "sched"]
              \/ pc' = [pc EXCEPT ![run] = "app"]
    BY <1>0
  <2>5. run' = run \/ (pc' = pc /\ SwitchTo(lists'))
    BY <1>0
  <2>6. \A t \in set : "pend" \in status[t]
    BY <1>s
  <2>7. set \in SUBSET Tasks
    BY <1>t
  <2>8. scheduled /\ ~isr.active /\ UNCHANGED <<lock, isr, slice, scheduled, fault>>
    BY <1>0
  <2> QED BY <2>1, <2>2, <2>3, <2>4, <2>5, <2>6, <2>7, <2>8, ServeConsistent
<1>5. /\ \A t \in Tasks : t # c => pc'[t] = pc[t]
      /\ c \in Tasks => pc[c] \in {"app", "tail"} /\ pc'[c] \in {"app", "sched"}
  BY <1>0, <1>t
<1>6. FreeIsOut'
  <2>1. \A t \in Tasks : "unused" \in status'[t] <=> "unused" \in status[t]
    BY <1>1, <1>s DEF Woke, Ended
  <2>2. \A t \in Tasks : pc'[t] = "none" <=> pc[t] = "none"
    BY <1>5
  <2> QED BY <2>1, <2>2 DEF FreeIsOut
<1>7. ServedIn(l, set, c)
  BY <1>0, <1>1, <1>2, <1>3, <1>5 DEF ServedIn
<1> QED BY <1>4, <1>6, <1>7

\* What a step leaves in which t begins to wait in l, put there by q.
BlockedIn(l, t, q) ==
  /\ prio' = prio
  /\ lists'[l] = q
  /\ Range(q) = Range(lists[l]) \cup {t}
  /\ \A w \in WaitObjects \ {l} : lists'[w] = lists[w]
  /\ \A w \in WaitObjects : t \notin Range(lists[w])
  /\ pc[t] = "app" /\ pc'[t] = "pend"
  /\ "pend" \in status'[t]
  /\ \A u \in Tasks \ {t} : pc'[u] = pc[u] /\ status'[u] = status[u]

LEMMA BlockTasks ==
  ASSUME Consistent, FreeIsOut, NEW l \in WaitObjects, NEW t \in Tasks,
         NEW k \in 1 .. LOS_WAIT_FOREVER,
         Running(t), pc[t] = "app", lock = 0, BeginWait(t, k),
         NEW q \in Seq(Tasks), IsInjective(q), Range(q) = Range(lists[l]) \cup {t},
         lists' = [Unlink(lists, t) EXCEPT ![l] = q]
  PROVE  Consistent' /\ FreeIsOut' /\ BlockedIn(l, t, q)
<1> DEFINE f == (status[t] \ {"ready", "timeout"}) \cup {"pend"}
                  \cup (IF k = LOS_WAIT_FOREVER THEN {} ELSE {"timeout"})
           u == Unlink(lists, t)
<1>t. /\ status \in [Tasks -> SUBSET Flags] /\ pc \in [Tasks -> Pcs]
      /\ prio \in [Tasks -> Priorities] /\ lists \in [Lists -> Seq(Tasks)]
      /\ WaitObjects \subseteq Lists /\ l \in Lists
      /\ Matches(lists, status, prio) /\ Nodes(lists)
  BY TaskTypes
<1>c. /\ scheduled /\ run = t /\ "ready" \in status[t] /\ "pend" \notin status[t]
      /\ \A w \in WaitObjects : t \notin Range(lists[w])
  BY RunnerFacts
<1>f. f \in SUBSET Flags /\ "ready" \notin f /\ "pend" \in f
  BY <1>t DEF Flags
<1>0. /\ status' = [status EXCEPT ![t] = f] /\ pc' = [pc EXCEPT ![t] = "pend"]
      /\ UNCHANGED <<prio, run, lock, isr, slice, scheduled, fault>>
      /\ timer' = IF k = LOS_WAIT_FOREVER THEN timer ELSE [timer EXCEPT ![t] = k]
  BY DEF BeginWait
<1>1. \A w \in WaitObjects : u[w] = lists[w]
  BY <1>t, <1>c, UnlinkReady
<1>2. /\ lists'[l] = q
      /\ \A w \in WaitObjects \ {l} : lists'[w] = lists[w]
      /\ \A w \in Lists \ {l} : lists'[w] = u[w]
      /\ lists' \in [Lists -> Seq(Tasks)]
  <2>1. u \in [Lists -> Seq(Tasks)]
    BY <1>t, UnlinkFacts
  <2> HIDE DEF u
  <2> QED BY <1>1, <1>t, <2>1 DEF u
<1>3. Matches(lists', status', prio')
  <2> DEFINE g == status[t] \ {"ready"}
             st1 == [status EXCEPT ![t] = g]
  <2>1. Matches(u, st1, prio)
    BY <1>t, <1>c, LeaveList
  <2>2. st1[t] \cap {"ready", "pend"} = {}
    BY <1>t, <1>c
  <2>3. \A w \in Lists : t \notin Range(u[w])
    BY <2>1, <2>2, NotInList
  <2>4. Nodes(u)
    BY <2>1 DEF Matches
  <2>q. u[l] = lists[l]
    BY <1>1
  <2> HIDE DEF u, f
  <2>5. Nodes(lists')
    <3>1. ASSUME NEW a \in Lists PROVE IsInjective(lists'[a])
      BY <1>2, <2>4 DEF Nodes
    <3>2. ASSUME NEW a \in Lists, NEW b \in Lists, a # b
          PROVE  Range(lists'[a]) \cap Range(lists'[b]) = {}
      <4>1. Range(u[a]) \cap Range(u[b]) = {} /\ t \notin Range(u[a]) /\ t \notin Range(u[b])
        BY <2>3, <2>4, <3>2 DEF Nodes
      <4>2. CASE a = l
        BY <1>2, <2>q, <3>2, <4>1, <4>2
      <4>3. CASE b = l
        BY <1>2, <2>q, <3>2, <4>1, <4>3
      <4>4. CASE a # l /\ b # l
        BY <1>2, <4>1, <4>4
      <4> QED BY <4>2, <4>3, <4>4
    <3> QED BY <1>2, <3>1, <3>2 DEF Nodes
  <2>6. [st1 EXCEPT ![t] = f] = status'
    <3>1. status' = [status EXCEPT ![t] = f]
      BY <1>0
    <3> HIDE DEF g
    <3> QED BY <3>1
  <2>p. PICK q2 : q2 = lists'
    OBVIOUS
  <2>r. Range(q2[l]) = Range(u[l]) \cup {t}
    BY <1>2, <2>q, <2>p
  <2>s. \A w \in Lists \ {l} : Range(q2[w]) = Range(u[w])
    BY <1>2, <2>p
  <2>n. Nodes(q2)
    BY <2>5, <2>p
  <2> HIDE DEF st1
  <2>e. Matches(q2, [st1 EXCEPT ![t] = f], prio)
    BY <2>1, <2>2, <2>n, <2>r, <2>s, <1>f, EnterWait
  <2>7. Matches(lists', [st1 EXCEPT ![t] = f], prio)
    BY <2>e, <2>p
  <2> QED BY <1>0, <2>6, <2>7
<1>4. Consistent'
  <2>1. lists' \in [Lists -> Seq(Tasks)] /\ prio' \in [Tasks -> Priorities]
    BY <1>3 DEF Matches, Nodes
  <2> HIDE DEF u
  <2> QED BY <1>0, <1>3, <1>c, <2>1, BlockConsistent
<1>5. /\ pc'[t] = "pend" /\ "pend" \in status'[t]
      /\ \A w \in Tasks \ {t} : pc'[w] = pc[w] /\ status'[w] = status[w]
  <2> HIDE DEF f
  <2> QED BY <1>0, <1>f, <1>t
<1>6. FreeIsOut'
  <2>1. "unused" \notin status[t]
    BY DEF FreeIsOut
  <2>2. "unused" \notin f
    BY <2>1
  <2>3. status'[t] = f
    BY <1>0, <1>t
  <2> HIDE DEF f
  <2> QED BY <1>5, <2>1, <2>2, <2>3 DEF FreeIsOut
<1> HIDE DEF f, u
<1>7. BlockedIn(l, t, q)
  BY <1>0, <1>2, <1>5, <1>c DEF BlockedIn
<1> QED BY <1>4, <1>6, <1>7

\* A task returns whose time was over, or that asks again what it waited for.
LEMMA ReturnTasks ==
  ASSUME Consistent, FreeIsOut, NEW t \in Tasks, Running(t), pc[t] = "tail",
         status' = [status EXCEPT ![t] = status[t] \ {"timeout"}],
         TaskGoesOn(t, {}), UNCHANGED <<lists, timer>>
  PROVE  /\ Consistent' /\ FreeIsOut' /\ prio' = prio /\ lists' = lists
         /\ \A w \in WaitObjects : t \notin Range(lists[w])
         /\ pc'[t] = "app"
         /\ \A u \in Tasks \ {t} : pc'[u] = pc[u] /\ status'[u] = status[u]
<1>0. /\ pc' = [pc EXCEPT ![t] = "app"]
      /\ UNCHANGED <<prio, lists, timer, run, lock, isr, slice, scheduled, fault>>
  BY DEF TaskGoesOn
<1>1. Consistent'
  BY <1>0, ReturnConsistent
<1>2. \A w \in WaitObjects : t \notin Range(lists[w])
  BY RunnerFacts
<1>t. status \in [Tasks -> SUBSET Flags] /\ pc \in [Tasks -> Pcs]
  BY TaskTypes
<1>3. FreeIsOut'
  BY <1>0, <1>t DEF FreeIsOut
<1> QED BY <1>0, <1>1, <1>2, <1>3, <1>t

\* A waiting task is not free.
WaitersExist ==
  \A w \in WaitObjects : \A t \in Range(lists[w]) :
    t \in Tasks /\ "pend" \in status[t] /\ pc[t] # "none"

LEMMA WaitingIsInside == Consistent /\ FreeIsOut => WaitersExist
BY WaitingFacts DEF WaitersExist, FreeIsOut

\* A step of the scheduler puts nobody in a wait list.
LEMMA SchedulerTasks ==
  ASSUME Consistent, FreeIsOut, TimesliceTimeout = 0, TaskNext
  PROVE  /\ Consistent' /\ FreeIsOut' /\ ListsLeft /\ CallsLeft
         /\ \A w \in WaitObjects : Range(lists'[w]) \subseteq Range(lists[w])
         /\ \A w \in WaitObjects : \A t \in Range(lists'[w]) :
              t \in Tasks /\ pc'[t] # "none"
<1>1. Consistent'
  BY NextConsistent
<1>2. ListsLeft /\ CallsLeft /\ FreeIsOut'
  BY StepLeaves
<1>3. ASSUME NEW w \in WaitObjects PROVE Range(lists'[w]) \subseteq Range(lists[w])
  <2>1. CASE \A v \in WaitObjects : lists'[v] = lists[v]
    BY <2>1
  <2>2. ASSUME NEW n \in Tasks, \A v \in WaitObjects : lists'[v] = Without(lists[v], n)
        PROVE  Range(lists'[w]) \subseteq Range(lists[w])
    <3>1. lists[w] \in Seq(Tasks) /\ IsInjective(lists[w])
      BY TaskTypes
    <3>2. Range(Without(lists[w], n)) = Range(lists[w]) \ {n}
      BY <3>1, WithoutFacts
    <3> QED BY <2>2, <3>2
  <2> QED BY <1>2, <2>1, <2>2 DEF ListsLeft
<1>4. ASSUME NEW w \in WaitObjects, NEW t \in Range(lists'[w])
      PROVE  t \in Tasks /\ pc'[t] # "none"
  <2>1. WaitersExist'
    BY <1>1, <1>2, WaitingIsInside, PTL
  <2> QED BY <2>1 DEF WaitersExist
<1> QED BY <1>1, <1>2, <1>3, <1>4

(***************************************************************************)
(* The inductive invariant.                                                *)
(***************************************************************************)
QueueRecord ==
  [length : Nat, readable : Nat, writable : Nat, head : Nat, tail : Nat]

EventRecord == [used : BOOLEAN, bits : SUBSET Bits]

Requests ==
  {NoRequest}
    \cup [op : {"read"}, queue : Queues, msg : {None}]
    \cup [op : {"write"}, queue : Queues, msg : Messages]

Wants == {NotWanting} \cup [event : Events, read : Reads]

IpcTypeOK ==
  /\ queue \in [Queues -> QueueRecord]
  /\ request \in [Tasks -> Requests]
  /\ event \in [Events -> EventRecord]
  /\ wanted \in [Tasks -> Wants]

\* A task asks one object at a time, and only inside the call.
Asking ==
  \A t \in Tasks :
    /\ request[t] # NoRequest => Inside(t) /\ wanted[t] = NotWanting
    /\ wanted[t] # NotWanting => Inside(t)

\* Who is in a wait list asked for what it stands for, and it is not there.
QueueWaiters ==
  \A q \in Queues :
    /\ \A t \in Range(lists[ReadList[q]]) :
         /\ request[t].op = "read" /\ request[t].queue = q
         /\ queue[q].length > 0 /\ queue[q].readable = 0
    /\ \A t \in Range(lists[WriteList[q]]) :
         /\ request[t].op = "write" /\ request[t].queue = q
         /\ queue[q].length > 0 /\ queue[q].writable = 0

EventWaiters ==
  \A e \in Events : \A t \in Range(lists[e]) :
    /\ event[e].used
    /\ wanted[t].event = e
    /\ ~Met(wanted[t].read, event[e].bits)

IpcInv ==
  /\ Consistent
  /\ FreeIsOut
  /\ IpcTypeOK
  /\ Asking
  /\ QueueWaiters
  /\ EventWaiters

LEMMA InitIpc == IpcInit => IpcInv
<1> SUFFICES ASSUME IpcInit PROVE IpcInv
  OBVIOUS
<1>1. Consistent
  BY InitConsistent DEF IpcInit
<1>2. FreeIsOut
  BY DEF IpcInit, Init, FreeIsOut
<1>3. IpcTypeOK
  <2>1. Unused \in QueueRecord
    BY DEF Unused, QueueRecord
  <2> QED BY <2>1 DEF IpcInit, QueueInit, EventInit, IpcTypeOK, EventRecord, Requests, Wants
<1>4. \A w \in WaitObjects : lists[w] = <<>> /\ Range(lists[w]) = {}
  BY ParamAssumption DEF IpcInit, Init, Lists, Priorities, Range
<1>5. QueueWaiters /\ EventWaiters
  BY <1>4, QueueAssumption, EventAssumption DEF QueueWaiters, EventWaiters
<1>6. Asking
  BY DEF Asking, IpcInit, QueueInit, EventInit
<1> QED BY <1>1, <1>2, <1>3, <1>5, <1>6 DEF IpcInv

LEMMA ListsOfQueues ==
  /\ Events \subseteq WaitObjects
  /\ \A q \in Queues :
       /\ ReadList[q] \in WaitObjects /\ WriteList[q] \in WaitObjects
       /\ ReadList[q] \notin Events /\ WriteList[q] \notin Events
       /\ \A r \in Queues :
            /\ ReadList[q] # WriteList[r]
            /\ q # r => ReadList[q] # ReadList[r] /\ WriteList[q] # WriteList[r]
BY QueueAssumption, EventAssumption, IpcAssumption

\* What the kinds of requests are.
LEMMA RequestFacts ==
  ASSUME IpcTypeOK, NEW t \in Tasks
  PROVE  /\ request[t].op = "read" =>
              /\ request[t].queue \in Queues
              /\ request[t] # NoRequest
         /\ request[t].op = "write" =>
              /\ request[t].queue \in Queues /\ request[t].msg \in Messages
              /\ request[t] # NoRequest
         /\ request[t].op \notin {"read", "write"} => request[t] = NoRequest
<1>1. request[t] \in Requests
  BY DEF IpcTypeOK
<1>2. NoRequest.op = "none"
  BY DEF NoRequest
<1> QED BY <1>1, <1>2 DEF Requests

\* A task outside the calls asks nothing.
LEMMA OutsideFacts ==
  ASSUME IpcInv, NEW t \in Tasks, ~Inside(t)
  PROVE  request[t] = NoRequest /\ wanted[t] = NotWanting
BY DEF IpcInv, Asking

-----------------------------------------------------------------------------
(***************************************************************************)
(* Every step is of one of these kinds.                                    *)
(***************************************************************************)

\* c reads q, as a task that calls or an interrupt handler (used = 1), or for
\* a message that is kept for it (used = 0).
Reading(c, q, used) ==
  /\ \/ /\ used = 1 /\ queue[q].readable > 0 /\ request' = request
        /\ c \in Tasks => pc[c] = "app"
     \/ /\ used = 0 /\ c \in Tasks /\ pc[c] = "tail"
        /\ request[c].op = "read" /\ request[c].queue = q
        /\ "timeout" \notin status[c]
        /\ request' = [request EXCEPT ![c] = NoRequest]
  /\ TakeHead(q, used)
  /\ GoesOn(c, Served(WriteList[q]))
  /\ UNCHANGED eventVars

Writing(c, q, m, used) ==
  /\ \/ /\ used = 1 /\ queue[q].writable > 0 /\ request' = request
        /\ c \in Tasks => pc[c] = "app"
     \/ /\ used = 0 /\ c \in Tasks /\ pc[c] = "tail"
        /\ request[c].op = "write" /\ request[c].queue = q /\ request[c].msg = m
        /\ "timeout" \notin status[c]
        /\ request' = [request EXCEPT ![c] = NoRequest]
  /\ PutTail(q, m, used)
  /\ GoesOn(c, Served(ReadList[q]))
  /\ UNCHANGED eventVars

\* t begins to wait at q.
Waiting(t, q, k) ==
  /\ Running(t) /\ pc[t] = "app"
  /\ queue[q].length > 0
  /\ UNCHANGED eventVars
  /\ \/ /\ queue[q].readable = 0
        /\ QueuePend(t, ReadList[q], k)
        /\ request' = [request EXCEPT ![t] = [op |-> "read", queue |-> q, msg |-> None]]
     \/ /\ queue[q].writable = 0
        /\ QueuePend(t, WriteList[q], k)
        /\ \E m \in Messages :
             request' = [request EXCEPT ![t] = [op |-> "write", queue |-> q, msg |-> m]]

EventWriting(c, e, new) ==
  /\ (c \in Tasks => pc[c] = "app")
  /\ EventWrite(e, new)
  /\ GoesOn(c, ServedBy(e, new))
  /\ UNCHANGED queueVars

\* Nothing moves but a queue nobody waits for, or an event that is not made
\* to hold what somebody waits for.
QueueMade(q) ==
  /\ UNCHANGED <<taskVars, request, out, eventVars>>
  /\ \/ \E n \in Lengths :
          /\ queue[q].length = 0
          /\ queue' = [queue EXCEPT ![q] = [Unused EXCEPT !.length = n, !.writable = n]]
          /\ store' = [store EXCEPT ![q] = [i \in 0 .. n - 1 |-> None]]
     \/ /\ queue[q].length > 0
        /\ Deletable(q)
        /\ queue' = [queue EXCEPT ![q] = Unused]
        /\ store' = [store EXCEPT ![q] = <<>>]

EventSet(e) ==
  /\ UNCHANGED <<taskVars, queueVars, wanted>>
  /\ \/ lists[e] = <<>> /\ event' = [event EXCEPT ![e] = [used |-> TRUE, bits |-> {}]]
     \/ lists[e] = <<>> /\ event' = [event EXCEPT ![e].used = FALSE]
     \/ event[e].used /\ \E b \in SUBSET event[e].bits : event' = [event EXCEPT ![e].bits = b]

LEMMA Kinds ==
  ASSUME IpcInv, [IpcNext]_vars
  PROVE  \/ SchedulerStep
         \/ \E q \in Queues : QueueMade(q)
         \/ \E q \in Queues, c \in Tasks \cup {None}, used \in {0, 1} : Reading(c, q, used)
         \/ \E q \in Queues, c \in Tasks \cup {None}, m \in Messages, used \in {0, 1} :
              Writing(c, q, m, used)
         \/ \E t \in Tasks, q \in Queues, k \in QueueTimeouts : Waiting(t, q, k)
         \/ \E t \in Tasks : QueueTimeout(t) /\ UNCHANGED eventVars
         \/ \E e \in Events : EventSet(e)
         \/ \E t \in Tasks, e \in Events, r \in Reads, k \in EventTimeouts :
              EventBlock(t, e, r, k) /\ UNCHANGED queueVars
         \/ \E t \in Tasks : EventReturn(t) /\ UNCHANGED queueVars
         \/ \E c \in Tasks \cup {None}, e \in Events, new \in SUBSET Bits :
              EventWriting(c, e, new)
         \/ UNCHANGED vars
<1>n. None \notin Tasks
  BY ParamAssumption
<1>1. CASE QueueStep /\ UNCHANGED eventVars
  <2> USE <1>1
  <2>1. ASSUME NEW q \in Queues, NEW n \in Lengths, LOS_QueueCreate(q, n)
        PROVE  QueueMade(q)
    BY <2>1 DEF LOS_QueueCreate, QueueMade
  <2>2. ASSUME NEW t \in Tasks, NEW q \in Queues, LOS_QueueDelete(t, q)
        PROVE  QueueMade(q)
    BY <2>2 DEF LOS_QueueDelete, QueueMade
  <2>3. ASSUME NEW t \in Tasks, NEW q \in Queues, ReadNow(t, q)
        PROVE  Reading(t, q, 1)
    BY <2>3 DEF ReadNow, Reading, CanCall, GoesOn
  <2>4. ASSUME NEW t \in Tasks, NEW q \in Queues, NEW m \in Messages, WriteNow(t, q, m)
        PROVE  Writing(t, q, m, 1)
    BY <2>4 DEF WriteNow, Writing, CanCall, GoesOn
  <2>5. ASSUME NEW t \in Tasks, NEW q \in Queues, NEW k \in QueueTimeouts,
               ReadWait(t, q, k) \/ \E m \in Messages : WriteWait(t, q, m, k)
        PROVE  Waiting(t, q, k)
    BY <2>5 DEF ReadWait, WriteWait, Waiting, CanCall
  <2>6. ASSUME NEW t \in Tasks, ReadWoken(t)
        PROVE  request[t].queue \in Queues /\ Reading(t, request[t].queue, 0)
    <3>1. request[t].queue \in Queues
      BY <2>6, RequestFacts DEF ReadWoken, Back, IpcInv
    <3> QED BY <2>6, <3>1 DEF ReadWoken, Back, Reading, GoesOn
  <2>7. ASSUME NEW t \in Tasks, WriteWoken(t)
        PROVE  /\ request[t].queue \in Queues /\ request[t].msg \in Messages
               /\ Writing(t, request[t].queue, request[t].msg, 0)
    <3>1. request[t].queue \in Queues /\ request[t].msg \in Messages
      BY <2>7, RequestFacts DEF WriteWoken, Back, IpcInv
    <3> QED BY <2>7, <3>1 DEF WriteWoken, Back, Writing, GoesOn
  <2>8. ASSUME NEW q \in Queues, HandlerRead(q)
        PROVE  Reading(None, q, 1)
    BY <2>8, <1>n DEF HandlerRead, Reading, GoesOn
  <2>9. ASSUME NEW q \in Queues, NEW m \in Messages, HandlerWrite(q, m)
        PROVE  Writing(None, q, m, 1)
    BY <2>9, <1>n DEF HandlerWrite, Writing, GoesOn
  <2>h. HandlerQueues \subseteq Queues
    BY QueueAssumption
  <2> QED
    BY <2>1, <2>2, <2>3, <2>4, <2>5, <2>6, <2>7, <2>8, <2>9, <2>h
    DEF QueueStep, QueueCall, QueueReturn, QueueHandler
<1>2. CASE EventStep /\ UNCHANGED queueVars
  <2> USE <1>2
  <2>1. ASSUME NEW e \in Events, NobodyWaits(e), LOS_EventInit(e)
        PROVE  EventSet(e)
    BY <2>1 DEF LOS_EventInit, EventSet, NobodyWaits
  <2>2. ASSUME NEW t \in Tasks, NEW e \in Events, NobodyWaits(e), LOS_EventDestory(t, e)
        PROVE  EventSet(e)
    BY <2>2 DEF LOS_EventDestory, EventSet, NobodyWaits
  <2>3. ASSUME NEW t \in Tasks, NEW e \in Events, NEW r \in Reads, EventTake(t, e, r)
        PROVE  EventSet(e)
    <3>1. Polled(r, event[e].bits) \in SUBSET event[e].bits
      BY DEF Polled
    <3>2. event' = [event EXCEPT ![e].bits = Polled(r, event[e].bits)]
      BY <2>3 DEF EventTake
    <3> QED BY <2>3, <3>1, <3>2 DEF EventTake, EventSet
  <2>4. ASSUME NEW t \in Tasks, NEW e \in Events, NEW set \in SUBSET Bits,
               LOS_EventClear(t, e, set)
        PROVE  EventSet(e)
    <3>1. event[e].bits \cap set \in SUBSET event[e].bits
      OBVIOUS
    <3>2. event' = [event EXCEPT ![e].bits = event[e].bits \cap set]
      BY <2>4 DEF LOS_EventClear
    <3> QED BY <2>4, <3>1, <3>2 DEF LOS_EventClear, EventSet
  <2>5. ASSUME NEW t \in Tasks, NEW e \in Events, NEW set \in SUBSET Bits,
               LOS_EventWrite(t, e, set)
        PROVE  EventWriting(t, e, set)
    BY <2>5 DEF LOS_EventWrite, EventWriting, GoesOn, CanCall
  <2>6. ASSUME NEW e \in Events, NEW set \in SUBSET Bits, HandlerEventWrite(e, set)
        PROVE  EventWriting(None, e, set)
    BY <2>6, <1>n DEF HandlerEventWrite, EventWriting, GoesOn
  <2>h. HandlerEvents \subseteq Events
    BY EventAssumption
  <2> QED
    BY <2>1, <2>2, <2>3, <2>4, <2>5, <2>6, <2>h
    DEF EventStep, EventCall, EventHandler
<1> QED BY <1>1, <1>2 DEF IpcNext

(***************************************************************************)
(* The kinds of steps keep the invariant.                                  *)
(***************************************************************************)

\* What a read and a write leave of the control block.
Taken(q, used) ==
  [length |-> queue[q].length, readable |-> queue[q].readable - used,
   writable |-> queue[q].writable + Freed(WriteList[q]),
   head |-> After(q, queue[q].head), tail |-> queue[q].tail]

Filled(q, used) ==
  [length |-> queue[q].length, readable |-> queue[q].readable + Freed(ReadList[q]),
   writable |-> queue[q].writable - used,
   head |-> queue[q].head, tail |-> After(q, queue[q].tail)]

LEMMA TakeFields ==
  ASSUME IpcTypeOK, NEW q \in Queues, NEW used, TakeHead(q, used)
  PROVE  queue' = [queue EXCEPT ![q] = Taken(q, used)]
<1>1. PICK c \in QueueRecord : c = queue[q]
  BY DEF IpcTypeOK
<1>2. PICK a, b, d : /\ a = c.readable - used /\ b = After(q, c.head)
                     /\ d = c.writable + Freed(WriteList[q])
  OBVIOUS
<1> DEFINE c1 == [length |-> c.length, readable |-> a, writable |-> c.writable,
                  head |-> c.head, tail |-> c.tail]
           c2 == [length |-> c.length, readable |-> a, writable |-> c.writable,
                  head |-> b, tail |-> c.tail]
           c3 == [length |-> c.length, readable |-> a, writable |-> d,
                  head |-> b, tail |-> c.tail]
<1>3. [c EXCEPT !.readable = a] = c1
  BY DEF QueueRecord
<1>4. [c1 EXCEPT !.head = b] = c2
  OBVIOUS
<1>5. [c2 EXCEPT !.writable = d] = c3
  OBVIOUS
<1>6. [c EXCEPT !.readable = a, !.head = b, !.writable = d]
        = [[[c EXCEPT !.readable = a] EXCEPT !.head = b] EXCEPT !.writable = d]
  OBVIOUS
<1>7. [c EXCEPT !.readable = a, !.head = b, !.writable = d] = c3
  <2> HIDE DEF c1, c2, c3
  <2> QED BY <1>3, <1>4, <1>5, <1>6
<1>8. c3 = Taken(q, used)
  BY <1>1, <1>2 DEF Taken
<1>9. queue' = [queue EXCEPT ![q].readable = a, ![q].head = b, ![q].writable = d]
  BY <1>1, <1>2 DEF TakeHead
<1>10. queue' = [queue EXCEPT ![q] = [queue[q] EXCEPT !.readable = a, !.head = b, !.writable = d]]
  BY <1>9
<1> QED BY <1>1, <1>7, <1>8, <1>10

LEMMA PutFields ==
  ASSUME IpcTypeOK, NEW q \in Queues, NEW m, NEW used, PutTail(q, m, used)
  PROVE  queue' = [queue EXCEPT ![q] = Filled(q, used)]
<1>1. PICK c \in QueueRecord : c = queue[q]
  BY DEF IpcTypeOK
<1>2. PICK a, b, d : /\ a = c.writable - used /\ b = After(q, c.tail)
                     /\ d = c.readable + Freed(ReadList[q])
  OBVIOUS
<1> DEFINE c1 == [length |-> c.length, readable |-> c.readable, writable |-> a,
                  head |-> c.head, tail |-> c.tail]
           c2 == [length |-> c.length, readable |-> c.readable, writable |-> a,
                  head |-> c.head, tail |-> b]
           c3 == [length |-> c.length, readable |-> d, writable |-> a,
                  head |-> c.head, tail |-> b]
<1>3. [c EXCEPT !.writable = a] = c1
  BY DEF QueueRecord
<1>4. [c1 EXCEPT !.tail = b] = c2
  OBVIOUS
<1>5. [c2 EXCEPT !.readable = d] = c3
  OBVIOUS
<1>6. [c EXCEPT !.writable = a, !.tail = b, !.readable = d]
        = [[[c EXCEPT !.writable = a] EXCEPT !.tail = b] EXCEPT !.readable = d]
  OBVIOUS
<1>7. [c EXCEPT !.writable = a, !.tail = b, !.readable = d] = c3
  <2> HIDE DEF c1, c2, c3
  <2> QED BY <1>3, <1>4, <1>5, <1>6
<1>8. c3 = Filled(q, used)
  BY <1>1, <1>2 DEF Filled
<1>9. queue' = [queue EXCEPT ![q].writable = a, ![q].tail = b, ![q].readable = d]
  BY <1>1, <1>2 DEF PutTail
<1>10. queue' = [queue EXCEPT ![q] = [queue[q] EXCEPT !.writable = a, !.tail = b, !.readable = d]]
  BY <1>9
<1> QED BY <1>1, <1>7, <1>8, <1>10

\* The tasks in the wait lists of afterwards were there before, and ask for the
\* same.
StillWaiting ==
  \A w \in WaitObjects : \A u \in Range(lists'[w]) :
    u \in Range(lists[w]) /\ request'[u] = request[u] /\ wanted'[u] = wanted[u]

LEMMA WaitersStay ==
  ASSUME IpcInv, StillWaiting,
         \A q \in Queues :
           /\ queue'[q] = queue[q] \/ \A t \in Range(lists'[ReadList[q]]) :
                queue'[q].length > 0 /\ queue'[q].readable = 0
           /\ queue'[q] = queue[q] \/ \A t \in Range(lists'[WriteList[q]]) :
                queue'[q].length > 0 /\ queue'[q].writable = 0,
         \A e \in Events :
           event'[e] = event[e] \/ \A t \in Range(lists'[e]) :
             event'[e].used /\ ~Met(wanted[t].read, event'[e].bits)
  PROVE  QueueWaiters' /\ EventWaiters'
<1>1. QueueWaiters'
  <2> SUFFICES ASSUME NEW q \in Queues
               PROVE  /\ \A t \in Range(lists'[ReadList[q]]) :
                           /\ request'[t].op = "read" /\ request'[t].queue = q
                           /\ queue'[q].length > 0 /\ queue'[q].readable = 0
                      /\ \A t \in Range(lists'[WriteList[q]]) :
                           /\ request'[t].op = "write" /\ request'[t].queue = q
                           /\ queue'[q].length > 0 /\ queue'[q].writable = 0
    BY DEF QueueWaiters
  <2>1. ReadList[q] \in WaitObjects /\ WriteList[q] \in WaitObjects
    BY ListsOfQueues
  <2> QED BY <2>1 DEF IpcInv, QueueWaiters, StillWaiting
<1>2. EventWaiters'
  <2> SUFFICES ASSUME NEW e \in Events, NEW t \in Range(lists'[e])
               PROVE  /\ event'[e].used /\ wanted'[t].event = e
                      /\ ~Met(wanted'[t].read, event'[e].bits)
    BY DEF EventWaiters, Met
  <2>1. e \in WaitObjects
    BY ListsOfQueues
  <2>2. t \in Range(lists[e]) /\ wanted'[t] = wanted[t]
    BY <2>1 DEF StillWaiting
  <2>3. event[e].used /\ wanted[t].event = e /\ ~Met(wanted[t].read, event[e].bits)
    BY <2>2 DEF IpcInv, EventWaiters
  <2> QED BY <2>2, <2>3
<1> QED BY <1>1, <1>2

\* A step in which c serves others, or goes on itself.
LEMMA CallerAsks ==
  ASSUME IpcInv, NEW c,
         \A t \in Tasks : t # c =>
           /\ pc'[t] = pc[t] /\ request'[t] = request[t] /\ wanted'[t] = wanted[t],
         c \in Tasks => request'[c] = NoRequest /\ wanted'[c] = NotWanting
  PROVE  Asking'
BY DEF IpcInv, Asking, Inside

LEMMA ServedStill ==
  ASSUME IpcInv, NEW l \in WaitObjects, NEW set, NEW c, ServedIn(l, set, c),
         \A t \in Tasks : t # c => request'[t] = request[t] /\ wanted'[t] = wanted[t]
  PROVE  StillWaiting
<1> SUFFICES ASSUME NEW w \in WaitObjects, NEW u \in Range(lists'[w])
             PROVE  /\ u \in Range(lists[w])
                    /\ request'[u] = request[u] /\ wanted'[u] = wanted[u]
  BY DEF StillWaiting
<1>1. u \in Range(lists[w]) /\ u # c
  BY DEF ServedIn
<1>2. u \in Tasks
  BY <1>1, WaitingFacts DEF IpcInv
<1> QED BY <1>1, <1>2

LEMMA ServedIsWaiting ==
  ASSUME Consistent, NEW l \in WaitObjects
  PROVE  Served(l) \in SUBSET Range(lists[l])
<1>1. lists[l] \in Seq(Tasks) /\ IsInjective(lists[l])
  BY TaskTypes
<1>2. lists[l] # <<>> => Head(lists[l]) \in Range(lists[l])
  BY <1>1, HeadLeaves
<1> QED BY <1>2 DEF Served

LEMMA ReadingKeeps ==
  ASSUME IpcInv, NEW q \in Queues, NEW c \in Tasks \cup {None}, NEW used \in {0, 1},
         Reading(c, q, used)
  PROVE  /\ IpcInv' /\ ServedIn(WriteList[q], Served(WriteList[q]), c)
         /\ queue' = [queue EXCEPT ![q] = Taken(q, used)]
<1> DEFINE l == WriteList[q]
<1>l. l \in WaitObjects /\ ReadList[q] \in WaitObjects
  BY ListsOfQueues
<1>i. Consistent /\ FreeIsOut /\ IpcTypeOK
  BY DEF IpcInv
<1>1. Consistent' /\ FreeIsOut' /\ ServedIn(l, Served(l), c)
  BY <1>i, <1>l, ServedIsWaiting, ServeTasks DEF Reading, TakeHead
<1>2. queue' = [queue EXCEPT ![q] = Taken(q, used)]
  BY <1>i, TakeFields DEF Reading
<1>3. /\ UNCHANGED <<event, wanted>>
      /\ \A t \in Tasks : t # c => request'[t] = request[t]
      /\ c \in Tasks => request'[c] = NoRequest /\ wanted[c] = NotWanting
      /\ request' \in [Tasks -> Requests]
  <2>1. UNCHANGED <<event, wanted>>
    BY DEF Reading, eventVars
  <2>2. request \in [Tasks -> Requests]
    BY <1>i DEF IpcTypeOK
  <2>3. CASE used = 1 /\ request' = request /\ (c \in Tasks => pc[c] = "app")
    <3>1. c \in Tasks => request[c] = NoRequest /\ wanted[c] = NotWanting
      BY <2>3, OutsideFacts DEF Inside
    <3> QED BY <2>1, <2>2, <2>3, <3>1
  <2>4. CASE /\ c \in Tasks /\ request[c].op = "read"
             /\ request' = [request EXCEPT ![c] = NoRequest]
    <3>1. request[c] # NoRequest
      BY <1>i, <2>4, RequestFacts
    <3>2. wanted[c] = NotWanting
      BY <2>4, <3>1 DEF IpcInv, Asking
    <3>3. NoRequest \in Requests
      BY DEF Requests
    <3> QED BY <2>1, <2>2, <2>4, <3>2, <3>3
  <2> QED BY <2>3, <2>4 DEF Reading
<1>4. IpcTypeOK'
  <2>1. Taken(q, used) \in QueueRecord
    <3>1. queue[q] \in QueueRecord
      BY <1>i DEF IpcTypeOK
    <3>2. queue[q].readable - used \in Nat
      BY <3>1 DEF Reading, QueueRecord
    <3>3. Freed(l) \in Nat
      BY DEF Freed
    <3>4. After(q, queue[q].head) \in Nat
      BY <3>1 DEF After, QueueRecord
    <3> QED BY <3>1, <3>2, <3>3, <3>4 DEF Taken, QueueRecord
  <2> QED BY <1>2, <1>3, <1>i, <2>1 DEF IpcTypeOK
<1>5. StillWaiting
  BY <1>1, <1>3, <1>l, ServedStill
<1>6. Asking'
  BY <1>1, <1>3, CallerAsks DEF ServedIn
<1>7. QueueWaiters' /\ EventWaiters'
  <2>1. queue'[q] = Taken(q, used) /\ \A r \in Queues \ {q} : queue'[r] = queue[r]
    BY <1>2, <1>i DEF IpcTypeOK
  <2>2. ASSUME NEW t \in Range(lists'[ReadList[q]])
        PROVE  queue'[q].length > 0 /\ queue'[q].readable = 0
    <3>1. t \in Range(lists[ReadList[q]])
      BY <1>5, <1>l DEF StillWaiting
    <3>2. queue[q].length > 0 /\ queue[q].readable = 0
      BY <3>1 DEF IpcInv, QueueWaiters
    <3>3. used = 0
      BY <3>2 DEF Reading
    <3> QED BY <2>1, <3>2, <3>3 DEF Taken
  <2>3. ASSUME NEW t \in Range(lists'[l])
        PROVE  queue'[q].length > 0 /\ queue'[q].writable = 0
    <3>1. t \in Range(lists[l])
      BY <1>5, <1>l DEF StillWaiting
    <3>2. queue[q].length > 0 /\ queue[q].writable = 0
      BY <3>1 DEF IpcInv, QueueWaiters
    <3>3. Freed(l) = 0
      <4>1. lists[l] # <<>>
        BY <3>1 DEF Range
      <4> QED BY <4>1 DEF Freed
    <3> QED BY <2>1, <3>2, <3>3 DEF Taken
  <2> QED BY <1>3, <1>5, <2>1, <2>2, <2>3, WaitersStay
<1> QED BY <1>1, <1>2, <1>4, <1>6, <1>7 DEF IpcInv

LEMMA WritingKeeps ==
  ASSUME IpcInv, NEW q \in Queues, NEW c \in Tasks \cup {None}, NEW m \in Messages,
         NEW used \in {0, 1}, Writing(c, q, m, used)
  PROVE  /\ IpcInv' /\ ServedIn(ReadList[q], Served(ReadList[q]), c)
         /\ queue' = [queue EXCEPT ![q] = Filled(q, used)]
<1> DEFINE l == ReadList[q]
<1>l. l \in WaitObjects /\ WriteList[q] \in WaitObjects
  BY ListsOfQueues
<1>i. Consistent /\ FreeIsOut /\ IpcTypeOK
  BY DEF IpcInv
<1>1. Consistent' /\ FreeIsOut' /\ ServedIn(l, Served(l), c)
  BY <1>i, <1>l, ServedIsWaiting, ServeTasks DEF Writing, PutTail
<1>2. queue' = [queue EXCEPT ![q] = Filled(q, used)]
  BY <1>i, PutFields DEF Writing
<1>3. /\ UNCHANGED <<event, wanted>>
      /\ \A t \in Tasks : t # c => request'[t] = request[t]
      /\ c \in Tasks => request'[c] = NoRequest /\ wanted[c] = NotWanting
      /\ request' \in [Tasks -> Requests]
  <2>1. UNCHANGED <<event, wanted>>
    BY DEF Writing, eventVars
  <2>2. request \in [Tasks -> Requests]
    BY <1>i DEF IpcTypeOK
  <2>3. CASE used = 1 /\ request' = request /\ (c \in Tasks => pc[c] = "app")
    <3>1. c \in Tasks => request[c] = NoRequest /\ wanted[c] = NotWanting
      BY <2>3, OutsideFacts DEF Inside
    <3> QED BY <2>1, <2>2, <2>3, <3>1
  <2>4. CASE /\ c \in Tasks /\ request[c].op = "write"
             /\ request' = [request EXCEPT ![c] = NoRequest]
    <3>1. request[c] # NoRequest
      BY <1>i, <2>4, RequestFacts
    <3>2. wanted[c] = NotWanting
      BY <2>4, <3>1 DEF IpcInv, Asking
    <3>3. NoRequest \in Requests
      BY DEF Requests
    <3> QED BY <2>1, <2>2, <2>4, <3>2, <3>3
  <2> QED BY <2>3, <2>4 DEF Writing
<1>4. IpcTypeOK'
  <2>1. Filled(q, used) \in QueueRecord
    <3>1. queue[q] \in QueueRecord
      BY <1>i DEF IpcTypeOK
    <3>2. queue[q].writable - used \in Nat
      BY <3>1 DEF Writing, QueueRecord
    <3>3. Freed(l) \in Nat
      BY DEF Freed
    <3>4. After(q, queue[q].tail) \in Nat
      BY <3>1 DEF After, QueueRecord
    <3> QED BY <3>1, <3>2, <3>3, <3>4 DEF Filled, QueueRecord
  <2> QED BY <1>2, <1>3, <1>i, <2>1 DEF IpcTypeOK
<1>5. StillWaiting
  BY <1>1, <1>3, <1>l, ServedStill
<1>6. Asking'
  BY <1>1, <1>3, CallerAsks DEF ServedIn
<1>7. QueueWaiters' /\ EventWaiters'
  <2>1. queue'[q] = Filled(q, used) /\ \A r \in Queues \ {q} : queue'[r] = queue[r]
    BY <1>2, <1>i DEF IpcTypeOK
  <2>2. ASSUME NEW t \in Range(lists'[WriteList[q]])
        PROVE  queue'[q].length > 0 /\ queue'[q].writable = 0
    <3>1. t \in Range(lists[WriteList[q]])
      BY <1>5, <1>l DEF StillWaiting
    <3>2. queue[q].length > 0 /\ queue[q].writable = 0
      BY <3>1 DEF IpcInv, QueueWaiters
    <3>3. used = 0
      BY <3>2 DEF Writing
    <3> QED BY <2>1, <3>2, <3>3 DEF Filled
  <2>3. ASSUME NEW t \in Range(lists'[l])
        PROVE  queue'[q].length > 0 /\ queue'[q].readable = 0
    <3>1. t \in Range(lists[l])
      BY <1>5, <1>l DEF StillWaiting
    <3>2. queue[q].length > 0 /\ queue[q].readable = 0
      BY <3>1 DEF IpcInv, QueueWaiters
    <3>3. Freed(l) = 0
      <4>1. lists[l] # <<>>
        BY <3>1 DEF Range
      <4> QED BY <4>1 DEF Freed
    <3> QED BY <2>1, <3>2, <3>3 DEF Filled
  <2> QED BY <1>3, <1>5, <2>1, <2>2, <2>3, WaitersStay
<1> QED BY <1>1, <1>2, <1>4, <1>6, <1>7 DEF IpcInv

\* A step in which t begins to wait in the wait list l.
LEMMA BlockedAsks ==
  ASSUME IpcInv, NEW l \in WaitObjects, NEW t \in Tasks, NEW s, BlockedIn(l, t, s),
         \A u \in Tasks \ {t} : request'[u] = request[u] /\ wanted'[u] = wanted[u],
         request'[t] = NoRequest \/ wanted'[t] = NotWanting
  PROVE  Asking'
<1>1. pc'[t] = "pend" /\ \A u \in Tasks \ {t} : pc'[u] = pc[u]
  BY DEF BlockedIn
<1> QED BY <1>1 DEF IpcInv, Asking, Inside

LEMMA WaitingKeeps ==
  ASSUME IpcInv, NEW t \in Tasks, NEW q \in Queues, NEW k \in QueueTimeouts,
         Waiting(t, q, k)
  PROVE  /\ IpcInv' /\ UNCHANGED <<queue, store, out>>
         /\ \E l \in {ReadList[q], WriteList[q]} :
              /\ BlockedIn(l, t, InsertAt(lists[l], Place(t, l), t))
              /\ request'[t].queue = q
              /\ request'[t].op = IF l = ReadList[q] THEN "read" ELSE "write"
         /\ \A u \in Tasks \ {t} : request'[u] = request[u]
<1>i. Consistent /\ FreeIsOut /\ IpcTypeOK
  BY DEF IpcInv
<1>t. /\ lists \in [Lists -> Seq(Tasks)] /\ prio \in [Tasks -> Priorities]
      /\ WaitObjects \subseteq Lists
  BY <1>i, TaskTypes
<1>l. ReadList[q] \in WaitObjects /\ WriteList[q] \in WaitObjects
      /\ ReadList[q] # WriteList[q]
  BY ListsOfQueues
<1>0. /\ Running(t) /\ pc[t] = "app" /\ queue[q].length > 0
      /\ UNCHANGED <<event, wanted, queue, store, out>>
      /\ k \in 1 .. LOS_WAIT_FOREVER
  BY QueueAssumption DEF Waiting, QueuePend, eventVars
<1>w. wanted[t] = NotWanting /\ request[t] = NoRequest
  BY <1>0, OutsideFacts DEF Inside
<1>1. PICK l \in {ReadList[q], WriteList[q]}, r \in Requests :
        /\ QueuePend(t, l, k)
        /\ request' = [request EXCEPT ![t] = r]
        /\ r.queue = q /\ r.op = (IF l = ReadList[q] THEN "read" ELSE "write")
        /\ l = ReadList[q] => queue[q].readable = 0
        /\ l = WriteList[q] => queue[q].writable = 0
  <2>1. CASE /\ queue[q].readable = 0 /\ QueuePend(t, ReadList[q], k)
             /\ request' = [request EXCEPT ![t] = [op |-> "read", queue |-> q, msg |-> None]]
    <3>1. [op |-> "read", queue |-> q, msg |-> None] \in Requests
      BY DEF Requests
    <3> QED BY <1>l, <2>1, <3>1
  <2>2. CASE /\ queue[q].writable = 0 /\ QueuePend(t, WriteList[q], k)
             /\ \E m \in Messages :
                  request' = [request EXCEPT ![t] = [op |-> "write", queue |-> q, msg |-> m]]
    <3>0. PICK m \in Messages :
            request' = [request EXCEPT ![t] = [op |-> "write", queue |-> q, msg |-> m]]
      BY <2>2
    <3>1. [op |-> "write", queue |-> q, msg |-> m] \in Requests
      BY DEF Requests
    <3> QED BY <1>l, <2>2, <3>0, <3>1
  <2> QED BY <2>1, <2>2 DEF Waiting
<1>v. l \in WaitObjects /\ l \in Lists
  BY <1>l, <1>t
<1>s. PICK s : s = InsertAt(lists[l], Place(t, l), t)
  OBVIOUS
<1>2. s \in Seq(Tasks) /\ IsInjective(s) /\ Range(s) = Range(lists[l]) \cup {t}
  <2>1. lists[l] \in Seq(Tasks) /\ IsInjective(lists[l]) /\ t \notin Range(lists[l])
    BY <1>0, <1>i, <1>v, TaskTypes, RunnerFacts
  <2>2. Place(t, l) \in 1 .. Len(lists[l]) + 1
    BY <1>t, <1>v, PlaceFacts
  <2> QED BY <1>s, <2>1, <2>2, InsertAtElements, InsertAtFacts
<1>3. Consistent' /\ FreeIsOut' /\ BlockedIn(l, t, s)
  <2>1. lists' = [Unlink(lists, t) EXCEPT ![l] = InsertAt(Unlink(lists, t)[l], Place(t, l), t)]
    BY <1>1 DEF QueuePend
  <2>2. Unlink(lists, t)[l] = lists[l]
    <3>1. Matches(lists, status, prio) /\ "pend" \notin status[t]
      BY <1>0, <1>i, TaskTypes, RunnerFacts
    <3> QED BY <3>1, <1>v, UnlinkReady
  <2>3. lists' = [Unlink(lists, t) EXCEPT ![l] = s]
    BY <1>s, <2>1, <2>2
  <2>4. lock = 0 /\ BeginWait(t, k)
    BY <1>1 DEF QueuePend
  <2> QED BY <1>0, <1>2, <1>i, <1>v, <2>3, <2>4, BlockTasks
<1>4. /\ request'[t] = r /\ \A u \in Tasks \ {t} : request'[u] = request[u]
      /\ request' \in [Tasks -> Requests]
  BY <1>1, <1>i DEF IpcTypeOK
<1>5. IpcTypeOK'
  BY <1>0, <1>4, <1>i DEF IpcTypeOK
<1>6. Asking'
  BY <1>0, <1>3, <1>4, <1>v, <1>w, BlockedAsks
<1>7. QueueWaiters'
  <2> SUFFICES ASSUME NEW p \in Queues
               PROVE  /\ \A u \in Range(lists'[ReadList[p]]) :
                           /\ request'[u].op = "read" /\ request'[u].queue = p
                           /\ queue[p].length > 0 /\ queue[p].readable = 0
                      /\ \A u \in Range(lists'[WriteList[p]]) :
                           /\ request'[u].op = "write" /\ request'[u].queue = p
                           /\ queue[p].length > 0 /\ queue[p].writable = 0
    BY <1>0 DEF QueueWaiters
  <2>1. /\ ReadList[p] \in WaitObjects /\ WriteList[p] \in WaitObjects
        /\ ReadList[p] # WriteList[q] /\ ReadList[q] # WriteList[p]
        /\ p # q => ReadList[p] # ReadList[q] /\ WriteList[p] # WriteList[q]
    BY ListsOfQueues
  <2>2. ASSUME NEW u \in Range(lists'[ReadList[p]])
        PROVE  /\ request'[u].op = "read" /\ request'[u].queue = p
               /\ queue[p].length > 0 /\ queue[p].readable = 0
    <3>1. CASE l = ReadList[p]
      <4>1. p = q /\ u \in Range(lists[l]) \cup {t}
        BY <1>2, <1>3, <1>l, <2>1, <2>2, <3>1 DEF BlockedIn
      <4>2. CASE u = t
        BY <1>0, <1>1, <1>4, <3>1, <4>1, <4>2
      <4>3. CASE u # t
        <5>1. u \in Range(lists[ReadList[p]]) /\ u \in Tasks
          BY <1>i, <1>v, <3>1, <4>1, <4>3, WaitingFacts
        <5> QED BY <1>4, <4>3, <5>1 DEF IpcInv, QueueWaiters
      <4> QED BY <4>2, <4>3
    <3>2. CASE l # ReadList[p]
      <4>1. u \in Range(lists[ReadList[p]]) /\ u # t
        BY <1>3, <2>1, <2>2, <3>2 DEF BlockedIn
      <4>2. u \in Tasks
        BY <1>i, <2>1, <4>1, WaitingFacts
      <4> QED BY <1>4, <4>1, <4>2 DEF IpcInv, QueueWaiters
    <3> QED BY <3>1, <3>2
  <2>3. ASSUME NEW u \in Range(lists'[WriteList[p]])
        PROVE  /\ request'[u].op = "write" /\ request'[u].queue = p
               /\ queue[p].length > 0 /\ queue[p].writable = 0
    <3>1. CASE l = WriteList[p]
      <4>1. p = q /\ u \in Range(lists[l]) \cup {t} /\ l # ReadList[q]
        BY <1>2, <1>3, <1>l, <2>1, <2>3, <3>1 DEF BlockedIn
      <4>2. CASE u = t
        BY <1>0, <1>1, <1>4, <3>1, <4>1, <4>2
      <4>3. CASE u # t
        <5>1. u \in Range(lists[WriteList[p]]) /\ u \in Tasks
          BY <1>i, <1>v, <3>1, <4>1, <4>3, WaitingFacts
        <5> QED BY <1>4, <4>3, <5>1 DEF IpcInv, QueueWaiters
      <4> QED BY <4>2, <4>3
    <3>2. CASE l # WriteList[p]
      <4>1. u \in Range(lists[WriteList[p]]) /\ u # t
        BY <1>3, <2>1, <2>3, <3>2 DEF BlockedIn
      <4>2. u \in Tasks
        BY <1>i, <2>1, <4>1, WaitingFacts
      <4> QED BY <1>4, <4>1, <4>2 DEF IpcInv, QueueWaiters
    <3> QED BY <3>1, <3>2
  <2> QED BY <2>2, <2>3
<1>8. EventWaiters'
  <2>1. \A e \in Events : lists'[e] = lists[e]
    BY <1>3, <1>l, ListsOfQueues DEF BlockedIn
  <2> QED BY <1>0, <2>1 DEF IpcInv, EventWaiters, Met
<1> QED BY <1>0, <1>1, <1>3, <1>4, <1>5, <1>6, <1>7, <1>8, <1>s DEF IpcInv

LEMMA EventBlockKeeps ==
  ASSUME IpcInv, NEW t \in Tasks, NEW e \in Events, NEW r \in Reads,
         NEW k \in EventTimeouts, EventBlock(t, e, r, k), UNCHANGED queueVars
  PROVE  IpcInv' /\ BlockedIn(e, t, Append(lists[e], t))
<1>i. Consistent /\ FreeIsOut /\ IpcTypeOK
  BY DEF IpcInv
<1>t. /\ lists \in [Lists -> Seq(Tasks)] /\ WaitObjects \subseteq Lists
      /\ e \in WaitObjects /\ e \in Lists
  BY <1>i, TaskTypes, ListsOfQueues
<1>0. /\ Running(t) /\ pc[t] = "app" /\ event[e].used /\ ~Met(r, event[e].bits)
      /\ UNCHANGED <<event, queue, store, out, request>>
      /\ wanted' = [wanted EXCEPT ![t] = [event |-> e, read |-> r]]
      /\ lock = 0 /\ BeginWait(t, k) /\ k \in 1 .. LOS_WAIT_FOREVER
  BY EventAssumption DEF EventBlock, CanCall, queueVars
<1>w. wanted[t] = NotWanting /\ request[t] = NoRequest
  BY <1>0, OutsideFacts DEF Inside
<1>s. PICK s : s = Append(lists[e], t)
  OBVIOUS
<1>2. s \in Seq(Tasks) /\ IsInjective(s) /\ Range(s) = Range(lists[e]) \cup {t}
  <2>1. lists[e] \in Seq(Tasks) /\ IsInjective(lists[e]) /\ t \notin Range(lists[e])
    BY <1>0, <1>i, <1>t, TaskTypes, RunnerFacts
  <2> QED BY <1>s, <2>1, AppendFacts
<1>3. Consistent' /\ FreeIsOut' /\ BlockedIn(e, t, s)
  <2>1. lists' = [Unlink(lists, t) EXCEPT ![e] = Append(Unlink(lists, t)[e], t)]
    BY DEF EventBlock, Enqueue
  <2>2. Unlink(lists, t)[e] = lists[e]
    <3>1. Matches(lists, status, prio) /\ "pend" \notin status[t]
      BY <1>0, <1>i, TaskTypes, RunnerFacts
    <3> QED BY <3>1, <1>t, UnlinkReady
  <2>3. lists' = [Unlink(lists, t) EXCEPT ![e] = s]
    BY <1>s, <2>1, <2>2
  <2> QED BY <1>0, <1>2, <1>i, <1>t, <2>3, BlockTasks
<1>4. /\ wanted'[t] = [event |-> e, read |-> r]
      /\ \A u \in Tasks \ {t} : wanted'[u] = wanted[u]
      /\ wanted' \in [Tasks -> Wants]
  <2>1. [event |-> e, read |-> r] \in Wants
    BY DEF Wants
  <2> QED BY <1>0, <1>i, <2>1 DEF IpcTypeOK
<1>5. IpcTypeOK'
  BY <1>0, <1>4, <1>i DEF IpcTypeOK
<1>6. Asking'
  BY <1>0, <1>3, <1>4, <1>t, <1>w, BlockedAsks
<1>7. QueueWaiters'
  <2>1. \A q \in Queues : /\ lists'[ReadList[q]] = lists[ReadList[q]]
                          /\ lists'[WriteList[q]] = lists[WriteList[q]]
    BY <1>3, ListsOfQueues DEF BlockedIn
  <2> QED BY <1>0, <2>1 DEF IpcInv, QueueWaiters
<1>8. EventWaiters'
  <2> SUFFICES ASSUME NEW d \in Events, NEW u \in Range(lists'[d])
               PROVE  /\ event[d].used /\ wanted'[u].event = d
                      /\ ~Met(wanted'[u].read, event[d].bits)
    BY <1>0 DEF EventWaiters, Met
  <2>1. CASE u = t
    <3>1. d = e
      BY <1>3, <2>1, ListsOfQueues DEF BlockedIn
    <3> QED BY <1>0, <1>4, <2>1, <3>1
  <2>2. CASE u # t
    <3>1. u \in Range(lists[d])
      BY <1>2, <1>3, <2>2, ListsOfQueues DEF BlockedIn
    <3>2. u \in Tasks
      BY <1>i, <3>1, WaitingFacts, ListsOfQueues
    <3> QED BY <1>4, <2>2, <3>1, <3>2 DEF IpcInv, EventWaiters
  <2> QED BY <2>1, <2>2
<1> QED BY <1>3, <1>5, <1>6, <1>7, <1>8, <1>s DEF IpcInv

LEMMA TimeoutKeeps ==
  ASSUME IpcInv, NEW t \in Tasks, QueueTimeout(t), UNCHANGED eventVars
  PROVE  /\ IpcInv' /\ UNCHANGED <<queue, store, out, lists, prio>>
         /\ request' = [request EXCEPT ![t] = NoRequest]
         /\ "timeout" \in status[t]
         /\ \A u \in Tasks \ {t} : status'[u] = status[u]
<1>i. Consistent /\ FreeIsOut /\ IpcTypeOK
  BY DEF IpcInv
<1>0. /\ Running(t) /\ pc[t] = "tail" /\ "timeout" \in status[t]
      /\ request[t].op \in {"read", "write"}
      /\ request' = [request EXCEPT ![t] = NoRequest]
      /\ status' = [status EXCEPT ![t] = status[t] \ {"timeout"}]
      /\ TaskGoesOn(t, {})
      /\ UNCHANGED <<lists, timer, queue, store, out, event, wanted>>
  BY DEF QueueTimeout, Back, eventVars
<1>1. /\ Consistent' /\ FreeIsOut' /\ prio' = prio /\ lists' = lists
      /\ \A w \in WaitObjects : t \notin Range(lists[w])
      /\ \A u \in Tasks \ {t} : pc'[u] = pc[u] /\ status'[u] = status[u]
  BY <1>0, <1>i, ReturnTasks
<1>2. /\ request'[t] = NoRequest /\ \A u \in Tasks \ {t} : request'[u] = request[u]
      /\ request' \in [Tasks -> Requests]
  <2>1. NoRequest \in Requests
    BY DEF Requests
  <2> QED BY <1>0, <1>i, <2>1 DEF IpcTypeOK
<1>3. IpcTypeOK'
  BY <1>0, <1>2, <1>i DEF IpcTypeOK
<1>4. Asking'
  <2>1. request[t] # NoRequest
    BY <1>0, <1>i, RequestFacts
  <2>2. wanted[t] = NotWanting
    BY <2>1 DEF IpcInv, Asking
  <2> QED BY <1>0, <1>1, <1>2, <2>2, CallerAsks
<1>5. StillWaiting
  <2> SUFFICES ASSUME NEW w \in WaitObjects, NEW u \in Range(lists'[w])
               PROVE  /\ u \in Range(lists[w])
                      /\ request'[u] = request[u] /\ wanted'[u] = wanted[u]
    BY DEF StillWaiting
  <2>1. u \in Range(lists[w]) /\ u # t
    BY <1>1
  <2>2. u \in Tasks
    BY <1>i, <2>1, WaitingFacts
  <2> QED BY <1>0, <1>2, <2>1, <2>2
<1>6. QueueWaiters' /\ EventWaiters'
  BY <1>0, <1>5, WaitersStay
<1> QED BY <1>0, <1>1, <1>3, <1>4, <1>6 DEF IpcInv

\* A bit more or less does not make what somebody waits for.
LEMMA EventFields ==
  ASSUME IpcTypeOK, NEW e \in Events, NEW b \in SUBSET Bits,
         event' = [event EXCEPT ![e].bits = b]
  PROVE  /\ event'[e] = [used |-> event[e].used, bits |-> b]
         /\ event' \in [Events -> EventRecord]
         /\ \A d \in Events \ {e} : event'[d] = event[d]
<1>1. event \in [Events -> EventRecord]
  BY DEF IpcTypeOK
<1>2. event[e] \in [used : BOOLEAN, bits : SUBSET Bits]
  BY <1>1 DEF EventRecord
<1>3. [event[e] EXCEPT !.bits = b] = [used |-> event[e].used, bits |-> b]
  BY <1>2
<1>4. event' = [event EXCEPT ![e] = [event[e] EXCEPT !.bits = b]]
  OBVIOUS
<1>5. event' = [event EXCEPT ![e] = [used |-> event[e].used, bits |-> b]]
  BY <1>3, <1>4
<1>6. [used |-> event[e].used, bits |-> b] \in EventRecord
  BY <1>2 DEF EventRecord
<1> QED BY <1>1, <1>5, <1>6

LEMMA MetLess ==
  ASSUME NEW r, NEW b, NEW c \in SUBSET b, ~Met(r, b)
  PROVE  ~Met(r, c)
BY DEF Met

LEMMA WantFacts ==
  ASSUME IpcTypeOK, NEW t \in Tasks, wanted[t] # NotWanting
  PROVE  wanted[t].event \in Events /\ wanted[t].read \in Reads
BY DEF IpcTypeOK, Wants

LEMMA EventReturnKeeps ==
  ASSUME IpcInv, NEW t \in Tasks, EventReturn(t), UNCHANGED queueVars
  PROVE  /\ IpcInv' /\ UNCHANGED <<lists, prio>>
         /\ \A u \in Tasks \ {t} : status'[u] = status[u]
         /\ request[t] = NoRequest
<1>i. Consistent /\ FreeIsOut /\ IpcTypeOK
  BY DEF IpcInv
<1>0. /\ Running(t) /\ pc[t] = "tail" /\ wanted[t] # NotWanting
      /\ wanted' = [wanted EXCEPT ![t] = NotWanting]
      /\ status' = [status EXCEPT ![t] = status[t] \ {"timeout"}]
      /\ TaskGoesOn(t, {})
      /\ UNCHANGED <<lists, timer, queue, store, out, request>>
      /\ event' = IF "timeout" \in status[t] THEN event
                  ELSE [event EXCEPT ![wanted[t].event].bits =
                          Polled(wanted[t].read, event[wanted[t].event].bits)]
  BY DEF EventReturn, queueVars
<1>1. /\ Consistent' /\ FreeIsOut' /\ prio' = prio /\ lists' = lists
      /\ \A w \in WaitObjects : t \notin Range(lists[w])
      /\ \A u \in Tasks \ {t} : pc'[u] = pc[u] /\ status'[u] = status[u]
  BY <1>0, <1>i, ReturnTasks
<1>2. /\ wanted'[t] = NotWanting /\ \A u \in Tasks \ {t} : wanted'[u] = wanted[u]
      /\ wanted' \in [Tasks -> Wants]
  BY <1>0, <1>i DEF IpcTypeOK, Wants
<1>r. request[t] = NoRequest
  BY <1>0 DEF IpcInv, Asking
<1>3. /\ event' \in [Events -> EventRecord]
      /\ \A d \in Events : /\ event'[d].used = event[d].used
                           /\ event'[d].bits \subseteq event[d].bits
  <2>1. CASE event' = event
    BY <1>i, <2>1 DEF IpcTypeOK
  <2>2. CASE "timeout" \notin status[t]
    <3>1. PICK e \in Events : e = wanted[t].event
      BY <1>0, <1>i, WantFacts
    <3>2. PICK b : b = Polled(wanted[t].read, event[e].bits)
      OBVIOUS
    <3>3. b \subseteq event[e].bits /\ b \in SUBSET Bits
      BY <1>i, <3>2 DEF Polled, IpcTypeOK, EventRecord
    <3>4. event' = [event EXCEPT ![e].bits = b]
      BY <1>0, <2>2, <3>1, <3>2
    <3>5. /\ event'[e] = [used |-> event[e].used, bits |-> b]
          /\ event' \in [Events -> EventRecord]
          /\ \A d \in Events \ {e} : event'[d] = event[d]
      BY <1>i, <3>3, <3>4, EventFields
    <3>6. event'[e].used = event[e].used /\ event'[e].bits \subseteq event[e].bits
      BY <3>3, <3>5
    <3>7. \A d \in Events \ {e} : /\ event'[d].used = event[d].used
                                  /\ event'[d].bits \subseteq event[d].bits
      BY <3>5
    <3> QED BY <3>5, <3>6, <3>7
  <2> QED BY <1>0, <2>1, <2>2
<1>4. IpcTypeOK'
  BY <1>0, <1>2, <1>3, <1>i DEF IpcTypeOK
<1>5. Asking'
  BY <1>0, <1>1, <1>2, <1>r, CallerAsks
<1>6. StillWaiting
  <2> SUFFICES ASSUME NEW w \in WaitObjects, NEW u \in Range(lists'[w])
               PROVE  /\ u \in Range(lists[w])
                      /\ request'[u] = request[u] /\ wanted'[u] = wanted[u]
    BY DEF StillWaiting
  <2>1. u \in Range(lists[w]) /\ u # t
    BY <1>1
  <2>2. u \in Tasks
    BY <1>i, <2>1, WaitingFacts
  <2> QED BY <1>0, <1>2, <2>1, <2>2
<1>7. ASSUME NEW e \in Events, NEW u \in Range(lists'[e])
      PROVE  event'[e].used /\ ~Met(wanted[u].read, event'[e].bits)
  <2>1. event[e].used /\ ~Met(wanted[u].read, event[e].bits)
    BY <1>1 DEF IpcInv, EventWaiters
  <2> QED BY <1>3, <2>1, MetLess
<1>8. QueueWaiters' /\ EventWaiters'
  BY <1>0, <1>6, <1>7, WaitersStay
<1> QED BY <1>0, <1>1, <1>4, <1>5, <1>8, <1>r DEF IpcInv

LEMMA EventWritingKeeps ==
  ASSUME IpcInv, NEW c \in Tasks \cup {None}, NEW e \in Events, NEW new \in SUBSET Bits,
         EventWriting(c, e, new)
  PROVE  IpcInv' /\ ServedIn(e, ServedBy(e, new), c)
<1>i. Consistent /\ FreeIsOut /\ IpcTypeOK
  BY DEF IpcInv
<1>e. e \in WaitObjects
  BY ListsOfQueues
<1>0. /\ c \in Tasks => pc[c] = "app"
      /\ event[e].used /\ event' = [event EXCEPT ![e].bits = event[e].bits \cup new]
      /\ EndWaits(e, ServedBy(e, new)) /\ GoesOn(c, ServedBy(e, new))
      /\ UNCHANGED <<wanted, queue, store, out, request>>
  BY DEF EventWriting, EventWrite, queueVars
<1>1. Consistent' /\ FreeIsOut' /\ ServedIn(e, ServedBy(e, new), c)
  <2>1. ServedBy(e, new) \in SUBSET Range(lists[e])
    BY DEF ServedBy
  <2> QED BY <1>0, <1>e, <1>i, <2>1, ServeTasks
<1>b. event[e].bits \cup new \in SUBSET Bits
  BY <1>i DEF IpcTypeOK, EventRecord
<1>2. /\ event'[e] = [used |-> event[e].used, bits |-> event[e].bits \cup new]
      /\ event' \in [Events -> EventRecord]
      /\ \A d \in Events \ {e} : event'[d] = event[d]
  BY <1>0, <1>b, <1>i, EventFields
<1>3. IpcTypeOK'
  BY <1>0, <1>2, <1>i DEF IpcTypeOK
<1>4. Asking'
  BY <1>0, <1>1, OutsideFacts, CallerAsks DEF ServedIn, Inside
<1>5. StillWaiting
  BY <1>0, <1>1, <1>e, ServedStill
<1>6. ASSUME NEW d \in Events, NEW u \in Range(lists'[d])
      PROVE  event'[d].used /\ ~Met(wanted[u].read, event'[d].bits)
  <2>0. d \in WaitObjects
    BY ListsOfQueues
  <2>1. u \in Range(lists[d])
    BY <1>5, <2>0 DEF StillWaiting
  <2>2. event[d].used /\ ~Met(wanted[u].read, event[d].bits)
    BY <2>1 DEF IpcInv, EventWaiters
  <2>3. CASE d = e
    <3>1. u \notin ServedBy(e, new)
      BY <1>1, <1>e, <2>3 DEF ServedIn
    <3>2. ~Serves(u, new, event[e].bits \cup new)
      BY <2>1, <2>3, <3>1 DEF ServedBy
    <3>3. ~Met(wanted[u].read, event[e].bits \cup new)
      BY <2>2, <2>3, <3>2 DEF Serves, Met
    <3>4. event'[e].used = event[e].used /\ event'[e].bits = event[e].bits \cup new
      BY <1>2
    <3>5. ~Met(wanted[u].read, event'[e].bits)
      BY <3>3, <3>4
    <3> QED BY <2>2, <2>3, <3>4, <3>5
  <2>4. CASE d # e
    BY <1>2, <2>2, <2>4
  <2> QED BY <2>3, <2>4
<1>7. QueueWaiters' /\ EventWaiters'
  BY <1>0, <1>5, <1>6, WaitersStay
<1> QED BY <1>1, <1>3, <1>4, <1>7 DEF IpcInv

\* A step that leaves the tasks alone.
LEMMA TasksStay ==
  ASSUME TimesliceTimeout = 0, IpcInv, UNCHANGED <<taskVars, request, wanted>>
  PROVE  Consistent' /\ FreeIsOut' /\ Asking' /\ StillWaiting
<1>1. Consistent'
  BY NextConsistent DEF IpcInv, taskVars
<1>2. UNCHANGED <<status, lists, pc>>
  BY DEF taskVars
<1> QED BY <1>1, <1>2 DEF IpcInv, FreeIsOut, Asking, Inside, StillWaiting

LEMMA EventSetKeeps ==
  ASSUME TimesliceTimeout = 0, IpcInv, NEW e \in Events, EventSet(e)
  PROVE  IpcInv'
<1>i. Consistent /\ FreeIsOut /\ IpcTypeOK
  BY DEF IpcInv
<1>0. UNCHANGED <<taskVars, lists, queue, store, request, out, wanted>>
  BY DEF EventSet, queueVars, taskVars
<1>1. Consistent' /\ FreeIsOut' /\ Asking' /\ StillWaiting
  BY <1>0, TasksStay
<1>t. event \in [Events -> EventRecord] /\ event[e] \in [used : BOOLEAN, bits : SUBSET Bits]
  BY <1>i DEF IpcTypeOK, EventRecord
<1>2. /\ event' \in [Events -> EventRecord]
      /\ \A d \in Events : event'[d] = event[d] \/ \A u \in Range(lists[d]) :
           event'[d].used /\ ~Met(wanted[u].read, event'[d].bits)
  <2>1. CASE lists[e] = <<>> /\ event' = [event EXCEPT ![e] = [used |-> TRUE, bits |-> {}]]
    <3>1. \A u \in Range(lists[e]) : FALSE
      BY <2>1 DEF Range
    <3>2. [used |-> TRUE, bits |-> {}] \in EventRecord
      BY DEF EventRecord
    <3> QED BY <1>t, <2>1, <3>1, <3>2
  <2>2. CASE lists[e] = <<>> /\ event' = [event EXCEPT ![e].used = FALSE]
    <3>1. \A u \in Range(lists[e]) : FALSE
      BY <2>2 DEF Range
    <3>2. [event[e] EXCEPT !.used = FALSE] \in EventRecord
      BY <1>t DEF EventRecord
    <3>3. event' = [event EXCEPT ![e] = [event[e] EXCEPT !.used = FALSE]]
      BY <2>2
    <3> QED BY <1>t, <3>1, <3>2, <3>3
  <2>3. CASE event[e].used /\ \E b \in SUBSET event[e].bits :
               event' = [event EXCEPT ![e].bits = b]
    <3>1. PICK b \in SUBSET event[e].bits : event' = [event EXCEPT ![e].bits = b]
      BY <2>3
    <3>2. b \in SUBSET Bits
      BY <1>t
    <3>3. /\ event'[e] = [used |-> event[e].used, bits |-> b]
          /\ event' \in [Events -> EventRecord]
          /\ \A d \in Events \ {e} : event'[d] = event[d]
      BY <1>i, <3>1, <3>2, EventFields
    <3>4. \A u \in Range(lists[e]) : ~Met(wanted[u].read, event[e].bits)
      BY DEF IpcInv, EventWaiters
    <3>5. \A u \in Range(lists[e]) : ~Met(wanted[u].read, b)
      BY <3>4, MetLess
    <3> QED BY <2>3, <3>3, <3>5
  <2> QED BY <2>1, <2>2, <2>3 DEF EventSet
<1>3. IpcTypeOK'
  BY <1>0, <1>2, <1>i DEF IpcTypeOK
<1>4. QueueWaiters' /\ EventWaiters'
  BY <1>0, <1>1, <1>2, WaitersStay
<1> QED BY <1>1, <1>3, <1>4 DEF IpcInv

\* A queue that comes or goes has no waiters.
LEMMA QueueMadeKeeps ==
  ASSUME TimesliceTimeout = 0, IpcInv, NEW q \in Queues, QueueMade(q)
  PROVE  /\ IpcInv' /\ lists[ReadList[q]] = <<>> /\ lists[WriteList[q]] = <<>>
         /\ \A r \in Queues \ {q} : queue'[r] = queue[r]
         /\ \/ \E n \in Lengths : /\ queue[q].length = 0
                                  /\ queue'[q] = [length |-> n, readable |-> 0, writable |-> n,
                                                  head |-> 0, tail |-> 0]
            \/ queue'[q] = Unused /\ Deletable(q) /\ queue[q].length > 0
<1>i. Consistent /\ FreeIsOut /\ IpcTypeOK
  BY DEF IpcInv
<1>0. UNCHANGED <<taskVars, lists, request, out, event, wanted>>
  BY DEF QueueMade, taskVars, eventVars
<1>1. Consistent' /\ FreeIsOut' /\ Asking' /\ StillWaiting
  BY <1>0, TasksStay
<1>l. /\ ReadList[q] \in WaitObjects /\ WriteList[q] \in WaitObjects
      /\ lists[ReadList[q]] \in Seq(Tasks) /\ lists[WriteList[q]] \in Seq(Tasks)
  BY <1>i, ListsOfQueues, TaskTypes
<1>t. queue \in [Queues -> QueueRecord]
  BY <1>i DEF IpcTypeOK
<1>2. /\ \/ \E n \in Lengths : /\ queue[q].length = 0
                               /\ queue'[q] = [length |-> n, readable |-> 0, writable |-> n,
                                               head |-> 0, tail |-> 0]
         \/ queue'[q] = Unused /\ Deletable(q) /\ queue[q].length > 0
      /\ queue' \in [Queues -> QueueRecord]
      /\ \A r \in Queues \ {q} : queue'[r] = queue[r]
      /\ lists[ReadList[q]] = <<>> /\ lists[WriteList[q]] = <<>>
  <2>1. ASSUME NEW n \in Lengths, queue[q].length = 0,
               queue' = [queue EXCEPT ![q] = [Unused EXCEPT !.length = n, !.writable = n]]
        PROVE  /\ queue'[q] = [length |-> n, readable |-> 0, writable |-> n,
                               head |-> 0, tail |-> 0]
               /\ queue' \in [Queues -> QueueRecord]
               /\ \A r \in Queues \ {q} : queue'[r] = queue[r]
               /\ lists[ReadList[q]] = <<>> /\ lists[WriteList[q]] = <<>>
    <3>1. [Unused EXCEPT !.length = n] =
            [length |-> n, readable |-> 0, writable |-> 0, head |-> 0, tail |-> 0]
      BY DEF Unused
    <3>2. [Unused EXCEPT !.length = n, !.writable = n]
            = [[Unused EXCEPT !.length = n] EXCEPT !.writable = n]
      OBVIOUS
    <3>3. [Unused EXCEPT !.length = n, !.writable = n] =
            [length |-> n, readable |-> 0, writable |-> n, head |-> 0, tail |-> 0]
      <4> DEFINE c == [length |-> n, readable |-> 0, writable |-> 0, head |-> 0, tail |-> 0]
      <4>1. [c EXCEPT !.writable = n] =
              [length |-> n, readable |-> 0, writable |-> n, head |-> 0, tail |-> 0]
        OBVIOUS
      <4> HIDE DEF c
      <4>2. [Unused EXCEPT !.length = n, !.writable = n] = [c EXCEPT !.writable = n]
        BY <3>1, <3>2 DEF c
      <4> QED BY <4>1, <4>2
    <3>4. n \in Nat
      BY QueueAssumption
    <3>5. [length |-> n, readable |-> 0, writable |-> n, head |-> 0, tail |-> 0] \in QueueRecord
      BY <3>4 DEF QueueRecord
    <3>6. lists[ReadList[q]] = <<>> /\ lists[WriteList[q]] = <<>>
      <4>1. Range(lists[ReadList[q]]) = {} /\ Range(lists[WriteList[q]]) = {}
        BY <2>1 DEF IpcInv, QueueWaiters
      <4>2. \A s \in Seq(Tasks) : Range(s) = {} => s = <<>>
        <5> TAKE s \in Seq(Tasks)
        <5>1. s # <<>> => 1 \in DOMAIN s
          BY EmptySeq
        <5> QED BY <5>1 DEF Range
      <4> QED BY <1>l, <4>1, <4>2
    <3> QED BY <1>t, <2>1, <3>3, <3>5, <3>6
  <2>2. ASSUME queue[q].length > 0, Deletable(q), queue' = [queue EXCEPT ![q] = Unused]
        PROVE  /\ queue'[q] = Unused /\ queue' \in [Queues -> QueueRecord]
               /\ \A r \in Queues \ {q} : queue'[r] = queue[r]
               /\ lists[ReadList[q]] = <<>> /\ lists[WriteList[q]] = <<>>
    BY <1>t, <2>2 DEF Unused, QueueRecord, Deletable
  <2> QED BY <2>1, <2>2 DEF QueueMade
<1>3. IpcTypeOK'
  BY <1>0, <1>2, <1>i DEF IpcTypeOK
<1>4. QueueWaiters' /\ EventWaiters'
  <2>1. /\ \A w \in Range(lists'[ReadList[q]]) : FALSE
        /\ \A w \in Range(lists'[WriteList[q]]) : FALSE
    BY <1>0, <1>2 DEF Range
  <2> QED BY <1>0, <1>1, <1>2, <2>1, WaitersStay
<1> QED BY <1>1, <1>2, <1>3, <1>4 DEF IpcInv

LEMMA SchedulerKeeps ==
  ASSUME IpcInv, SchedulerStep, TimesliceTimeout = 0
  PROVE  /\ IpcInv' /\ UNCHANGED <<queue, store, out>> /\ ListsLeft /\ CallsLeft
         /\ request' = [u \in Tasks |-> IF pc'[u] = "none" THEN NoRequest ELSE request[u]]
<1>i. Consistent /\ FreeIsOut /\ IpcTypeOK
  BY DEF IpcInv
<1>0. /\ TaskNext /\ UNCHANGED <<queue, store, out, event>>
      /\ request' = [u \in Tasks |-> IF pc'[u] = "none" THEN NoRequest ELSE request[u]]
      /\ wanted' = [u \in Tasks |-> IF pc'[u] = "none" THEN NotWanting ELSE wanted[u]]
  BY DEF SchedulerStep, RequestsKept, WantedKept
<1>1. /\ Consistent' /\ FreeIsOut' /\ ListsLeft /\ CallsLeft
      /\ \A w \in WaitObjects : Range(lists'[w]) \subseteq Range(lists[w])
      /\ \A w \in WaitObjects : \A t \in Range(lists'[w]) :
              t \in Tasks /\ pc'[t] # "none"
  BY <1>0, <1>i, SchedulerTasks
<1>2. IpcTypeOK'
  <2>1. NoRequest \in Requests /\ NotWanting \in Wants
    BY DEF Requests, Wants
  <2> QED BY <1>0, <1>i, <2>1 DEF IpcTypeOK
<1>3. Asking'
  <2> SUFFICES ASSUME NEW t \in Tasks
               PROVE  /\ request'[t] # NoRequest => Inside(t)' /\ wanted'[t] = NotWanting
                      /\ wanted'[t] # NotWanting => Inside(t)'
    BY DEF Asking
  <2>1. CASE pc'[t] = "none"
    BY <1>0, <2>1
  <2>2. CASE pc'[t] # "none"
    <3>1. request'[t] = request[t] /\ wanted'[t] = wanted[t]
      BY <1>0, <2>2
    <3>2. Inside(t) => Inside(t)'
      BY <1>1, <2>2 DEF CallsLeft, Inside
    <3> QED BY <3>1, <3>2 DEF IpcInv, Asking
  <2> QED BY <2>1, <2>2
<1>4. StillWaiting
  BY <1>0, <1>1 DEF StillWaiting
<1>5. QueueWaiters' /\ EventWaiters'
  BY <1>0, <1>4, WaitersStay
<1> QED BY <1>0, <1>1, <1>2, <1>3, <1>5 DEF IpcInv

LEMMA NextIpc ==
  TimesliceTimeout = 0 /\ IpcInv /\ [IpcNext]_vars => IpcInv'
<1> SUFFICES ASSUME TimesliceTimeout = 0, IpcInv, [IpcNext]_vars PROVE IpcInv'
  OBVIOUS
<1>1. CASE UNCHANGED vars
  <2>1. UNCHANGED <<taskVars, request, wanted, queue, event, lists>>
    BY <1>1 DEF vars, queueVars, eventVars, taskVars
  <2>2. Consistent' /\ FreeIsOut' /\ Asking'
    BY <2>1, TasksStay
  <2>3. IpcTypeOK'
    BY <2>1 DEF IpcInv, IpcTypeOK
  <2>4. QueueWaiters' /\ EventWaiters'
    BY <2>1 DEF IpcInv, QueueWaiters, EventWaiters, Met
  <2> QED BY <2>2, <2>3, <2>4 DEF IpcInv
<1> QED
  BY <1>1, Kinds, SchedulerKeeps, QueueMadeKeeps, ReadingKeeps, WritingKeeps, WaitingKeeps,
     TimeoutKeeps, EventSetKeeps, EventBlockKeeps, EventReturnKeeps, EventWritingKeeps

LEMMA AlwaysIpc ==
  ASSUME TimesliceTimeout = 0
  PROVE  IpcSpec => []IpcInv
BY InitIpc, NextIpc, PTL DEF IpcSpec

\* An event's waiters are told: with no time slice, a task in the wait list of
\* an event is inside LOS_EventRead for it and what it waits for is not there.
THEOREM WaitersNeedTheirBits ==
  ASSUME TimesliceTimeout = 0
  PROVE  IpcSpec => []NobodySleepsOnEvent
<1>1. IpcInv => NobodySleepsOnEvent
  BY DEF IpcInv, EventWaiters, NobodySleepsOnEvent
<1> QED BY <1>1, AlwaysIpc, PTL

-----------------------------------------------------------------------------
(***************************************************************************)
(* The order in which the waiters of a queue stand.                        *)
(***************************************************************************)

\* A queue's waiters stand by priority.
QueueLists == {ReadList[q] : q \in Queues} \cup {WriteList[q] : q \in Queues}
Lines == \A w \in QueueLists : InLine(lists[w])

\* Where nothing sets priorities, a task has the same as long as it exists.
LEMMA PrioStays ==
  ASSUME Consistent, FreeIsOut, [TaskNext]_taskVars, "priset" \notin Calls,
         NEW u \in Tasks, pc[u] # "none"
  PROVE  prio'[u] = prio[u]
<1>t. prio \in [Tasks -> Priorities]
  BY TaskTypes
<1>n. ASSUME NEW n \in Tasks, NEW p \in Priorities, NEW d, NEW r, NewTask(n, p, d, r)
      PROVE  prio'[u] = prio[u]
  <2>1. n # u
    BY <1>n DEF NewTask, FreeIsOut
  <2> QED BY <1>n, <1>t, <2>1 DEF NewTask
<1>1. CASE Boot
  BY <1>1, <1>n DEF Boot, BootCreate, Start
<1>2. ASSUME NEW t \in Tasks, TaskCall(t)
      PROVE  prio'[u] = prio[u]
  <2>1. CASE \E n \in Tasks, p \in Priorities, d \in Detached :
               LOS_TaskCreate(t, n, p, d) \/ LOS_TaskCreateOnly(t, n, p, d)
    BY <2>1, <1>n DEF LOS_TaskCreate, LOS_TaskCreateOnly
  <2>2. \A n \in Tasks, p \in Priorities : ~LOS_TaskPriSet(t, n, p)
    BY DEF LOS_TaskPriSet, CanCall
  <2>3. CASE \/ \E n \in Tasks : \/ LOS_TaskResume(t, n) \/ LOS_TaskSuspend(t, n)
                                 \/ LOS_TaskDelete(t, n)
             \/ \E k \in Timeouts : LOS_TaskDelay(t, k)
             \/ LOS_TaskYield(t) \/ LOS_TaskLock(t) \/ LOS_TaskUnlock(t)
             \/ DetachedReturn(t) \/ JoinableReturn(t)
    BY <2>3 DEF LOS_TaskResume, LOS_TaskSuspend, LOS_TaskDelete, Fault, LOS_TaskDelay,
      LOS_TaskYield, LOS_TaskLock, LOS_TaskUnlock, DetachedReturn, JoinableReturn
  <2> QED BY <1>2, <2>1, <2>2, <2>3 DEF TaskCall
<1>3. ASSUME NEW t \in Tasks, TaskInternal(t)
      PROVE  prio'[u] = prio[u]
  BY <1>3 DEF TaskInternal, LOS_Schedule, JoinableLeave, JoinableUnlock, RunOffEnd, Fault
<1>4. CASE Tick
  BY <1>4 DEF Tick, TickBegin, TickExpire, TickEnd, Fault
<1>5. CASE UNCHANGED taskVars
  BY <1>5 DEF taskVars
<1> QED BY <1>1, <1>2, <1>3, <1>4, <1>5 DEF TaskNext

LEMMA QueueListsWait == QueueLists \subseteq WaitObjects /\ QueueLists \cap Events = {}
BY ListsOfQueues DEF QueueLists

LEMMA LineStays ==
  ASSUME Consistent, NEW w \in WaitObjects, InLine(lists[w]),
         \A t \in Range(lists[w]) : prio'[t] = prio[t],
         \/ lists'[w] = lists[w]
         \/ \E n : lists'[w] = Without(lists[w], n)
  PROVE  InLine(lists[w])'
<1>s. PICK s : s = lists[w]
  OBVIOUS
<1>1. s \in Seq(Tasks)
  BY <1>s, TaskTypes
<1>2. CASE lists'[w] = s
  <2>1. \A i \in DOMAIN s : prio'[s[i]] = prio[s[i]]
    BY <1>s DEF Range
  <2> QED BY <1>2, <1>s, <2>1 DEF InLine
<1>3. ASSUME NEW n, lists'[w] = Without(s, n) PROVE InLine(lists[w])'
  <2>1. \A i, j \in DOMAIN Without(s, n) :
           i < j => prio'[Without(s, n)[i]] <= prio'[Without(s, n)[j]]
    BY <1>1, <1>s, InLineWithout
  <2>2. PICK v : v = Without(s, n)
    OBVIOUS
  <2>3. \A i, j \in DOMAIN v : i < j => prio'[v[i]] <= prio'[v[j]]
    BY <2>1, <2>2
  <2> QED BY <1>3, <2>2, <2>3 DEF InLine
<1> QED BY <1>2, <1>3, <1>s

LEMMA ServedLines ==
  ASSUME Consistent, Lines, NEW l \in QueueLists, NEW c, ServedIn(l, Served(l), c)
  PROVE  Lines'
<1> SUFFICES ASSUME NEW w \in QueueLists PROVE InLine(lists[w])'
  BY DEF Lines, QueueLists
<1>1. l \in WaitObjects /\ w \in WaitObjects /\ InLine(lists[w]) /\ prio' = prio
  BY QueueListsWait DEF Lines, ServedIn
<1>2. CASE w # l
  BY <1>1, <1>2, LineStays DEF ServedIn
<1>3. CASE w = l
  <2>t. /\ lists \in [Lists -> Seq(Tasks)] /\ prio \in [Tasks -> Priorities]
        /\ l \in Lists /\ IsInjective(lists[l]) /\ lists[l] \in Seq(Tasks)
    BY <1>1, TaskTypes
  <2>1. lists'[l] = (IF lists[l] = <<>> THEN lists ELSE Wake(lists, Head(lists[l])))[l]
    BY <2>t, TurnsServed DEF ServedIn
  <2>2. CASE lists[l] = <<>>
    BY <1>1, <1>3, <2>1, <2>2, LineStays
  <2>3. CASE lists[l] # <<>>
    <3>1. PICK n \in Tasks : n = Head(lists[l])
      BY <2>3, <2>t
    <3>2. lists'[l] = Wake(lists, n)[l]
      BY <2>1, <2>3, <3>1
    <3>3. Unlink(lists, n)[l] = Without(lists[l], n)
      BY <1>1, UnlinkOne
    <3>4. Unlink(lists, n) \in [Lists -> Seq(Tasks)] /\ prio[n] \in Priorities
      BY <2>t, UnlinkFacts
    <3>5. Enqueue(Unlink(lists, n), n, prio[n])[l] = Unlink(lists, n)[l]
      BY <1>1, <3>4, QueuesOnly
    <3>6. lists'[l] = Without(lists[l], n)
      BY <3>2, <3>3, <3>5 DEF Wake
    <3> QED BY <1>1, <1>3, <3>6, LineStays
  <2> QED BY <2>2, <2>3
<1> QED BY <1>2, <1>3

LEMMA SameLines ==
  ASSUME Consistent, Lines, prio' = prio, \A w \in QueueLists : lists'[w] = lists[w]
  PROVE  Lines'
<1>1. \A w \in QueueLists : InLine(lists[w])'
  BY QueueListsWait, LineStays DEF Lines
<1> QED BY <1>1 DEF Lines, QueueLists

LEMMA NextLines ==
  /\ TimesliceTimeout = 0 /\ "priset" \notin Calls
  /\ IpcInv /\ Lines /\ [IpcNext]_vars
  => Lines'
<1> SUFFICES ASSUME TimesliceTimeout = 0, "priset" \notin Calls,
                    IpcInv, Lines, [IpcNext]_vars
             PROVE  Lines'
  OBVIOUS
<1>i. Consistent /\ FreeIsOut /\ IpcTypeOK
  BY DEF IpcInv
<1>q. \A q \in Queues : ReadList[q] \in QueueLists /\ WriteList[q] \in QueueLists
  BY DEF QueueLists
<1>1. CASE SchedulerStep
  <2> SUFFICES ASSUME NEW w \in QueueLists PROVE InLine(lists[w])'
    BY DEF Lines, QueueLists
  <2>1. w \in WaitObjects /\ InLine(lists[w])
    BY QueueListsWait DEF Lines
  <2>2. \A t \in Range(lists[w]) : prio'[t] = prio[t]
    <3> TAKE t \in Range(lists[w])
    <3>1. t \in Tasks /\ pc[t] # "none"
      BY <1>i, <2>1, WaitingIsInside DEF WaitersExist
    <3> QED BY <1>1, <1>i, <3>1, PrioStays DEF SchedulerStep
  <2>3. ListsLeft
    BY <1>1, SchedulerKeeps
  <2>4. \/ lists'[w] = lists[w]
        \/ \E n : lists'[w] = Without(lists[w], n)
    BY <2>1, <2>3 DEF ListsLeft
  <2> QED BY <1>i, <2>1, <2>2, <2>4, LineStays
<1>2. CASE \/ \E q \in Queues : QueueMade(q)
           \/ \E e \in Events : EventSet(e)
           \/ UNCHANGED vars
  <2>1. lists' = lists /\ prio' = prio
    BY <1>2 DEF QueueMade, EventSet, vars, taskVars
  <2> QED BY <1>i, <2>1, SameLines
<1>3. ASSUME NEW q \in Queues, NEW c \in Tasks \cup {None}, NEW used \in {0, 1},
             Reading(c, q, used)
      PROVE  Lines'
  BY <1>3, <1>i, <1>q, ReadingKeeps, ServedLines
<1>4. ASSUME NEW q \in Queues, NEW c \in Tasks \cup {None}, NEW m \in Messages,
             NEW used \in {0, 1}, Writing(c, q, m, used)
      PROVE  Lines'
  BY <1>4, <1>i, <1>q, WritingKeeps, ServedLines
<1>5. ASSUME NEW t \in Tasks, NEW q \in Queues, NEW k \in QueueTimeouts, Waiting(t, q, k)
      PROVE  Lines'
  <2>1. PICK l \in QueueLists : BlockedIn(l, t, InsertAt(lists[l], Place(t, l), t))
    BY <1>5, <1>q, WaitingKeeps
  <2>2. /\ lists'[l] = InsertAt(lists[l], Place(t, l), t) /\ prio' = prio
        /\ \A w \in QueueLists \ {l} : lists'[w] = lists[w]
    BY <2>1, QueueListsWait DEF BlockedIn
  <2> SUFFICES ASSUME NEW w \in QueueLists PROVE InLine(lists[w])'
    BY DEF Lines, QueueLists
  <2>3. w \in WaitObjects /\ l \in WaitObjects /\ InLine(lists[w]) /\ InLine(lists[l])
    BY QueueListsWait DEF Lines
  <2>4. CASE w # l
    BY <1>i, <2>2, <2>3, <2>4, LineStays
  <2>5. CASE w = l
    <3>1. PICK s : s = InsertAt(lists[l], Place(t, l), t)
      OBVIOUS
    <3>2. InLine(s)
      BY <1>i, <2>3, <3>1, TaskTypes, InLineInsert
    <3> QED BY <2>2, <2>5, <3>1, <3>2 DEF InLine
  <2> QED BY <2>4, <2>5
<1>6. ASSUME NEW t \in Tasks, QueueTimeout(t), UNCHANGED eventVars
      PROVE  Lines'
  BY <1>6, <1>i, TimeoutKeeps, SameLines
<1>7. ASSUME NEW t \in Tasks, NEW e \in Events, NEW r \in Reads, NEW k \in EventTimeouts,
             EventBlock(t, e, r, k), UNCHANGED queueVars
      PROVE  Lines'
  <2>1. BlockedIn(e, t, Append(lists[e], t))
    BY <1>7, EventBlockKeeps
  <2> QED BY <1>i, <2>1, QueueListsWait, SameLines DEF BlockedIn
<1>8. ASSUME NEW t \in Tasks, EventReturn(t), UNCHANGED queueVars
      PROVE  Lines'
  BY <1>8, <1>i, EventReturnKeeps, SameLines
<1>9. ASSUME NEW c \in Tasks \cup {None}, NEW e \in Events, NEW new \in SUBSET Bits,
             EventWriting(c, e, new)
      PROVE  Lines'
  <2>1. ServedIn(e, ServedBy(e, new), c)
    BY <1>9, EventWritingKeeps
  <2> QED BY <1>i, <2>1, QueueListsWait, SameLines DEF ServedIn
<1> QED BY <1>1, <1>2, <1>3, <1>4, <1>5, <1>6, <1>7, <1>8, <1>9, Kinds

LEMMA InitLines == IpcInit => Lines
<1> SUFFICES ASSUME IpcInit PROVE Lines
  OBVIOUS
<1>1. \A w \in WaitObjects : lists[w] = <<>>
  BY ParamAssumption DEF IpcInit, Init, Lists, Priorities
<1> QED BY <1>1, QueueListsWait DEF Lines, InLine

\* Nobody sleeps in front of what he needs at a queue, and the most urgent is
\* the first to be served: with no time slice, and as long as nothing sets
\* priorities, the readers and the writers of every queue stand in its lists
\* by priority, and there is nothing for them to take.
THEOREM MostUrgentFirst ==
  ASSUME TimesliceTimeout = 0, "priset" \notin Calls
  PROVE  IpcSpec => []WaitersInLine
<1>1. IpcInv /\ Lines => WaitersInLine
  <2> SUFFICES ASSUME IpcInv, Lines, NEW q \in Queues
               PROVE  LET readers == lists[ReadList[q]]
                          writers == lists[WriteList[q]]
                      IN /\ readers # <<>> => queue[q].length > 0 /\ queue[q].readable = 0
                         /\ writers # <<>> => queue[q].length > 0 /\ queue[q].writable = 0
                         /\ \A i \in DOMAIN readers :
                              request[readers[i]].op = "read" /\ request[readers[i]].queue = q
                         /\ \A i \in DOMAIN writers :
                              request[writers[i]].op = "write" /\ request[writers[i]].queue = q
                         /\ \A s \in {readers, writers} : \A i, j \in DOMAIN s :
                              i < j => prio[s[i]] <= prio[s[j]]
    BY DEF WaitersInLine
  <2>1. \A s \in Seq(Tasks) : s # <<>> => Head(s) \in Range(s)
    <3> TAKE s \in Seq(Tasks)
    <3>1. s # <<>> => 1 \in DOMAIN s /\ Head(s) = s[1]
      BY EmptySeq
    <3> QED BY <3>1 DEF Range
  <2>2. /\ lists[ReadList[q]] \in Seq(Tasks) /\ lists[WriteList[q]] \in Seq(Tasks)
        /\ InLine(lists[ReadList[q]]) /\ InLine(lists[WriteList[q]])
    BY ListsOfQueues, TaskTypes DEF IpcInv, Lines, QueueLists
  <2> DEFINE readers == lists[ReadList[q]]
             writers == lists[WriteList[q]]
  <2>3. /\ \A t \in Range(readers) : /\ request[t].op = "read" /\ request[t].queue = q
                                     /\ queue[q].length > 0 /\ queue[q].readable = 0
        /\ \A t \in Range(writers) : /\ request[t].op = "write" /\ request[t].queue = q
                                     /\ queue[q].length > 0 /\ queue[q].writable = 0
    BY DEF IpcInv, QueueWaiters
  <2>4. \A s \in {readers, writers} : \A i, j \in DOMAIN s : i < j => prio[s[i]] <= prio[s[j]]
    BY <2>2 DEF InLine
  <2> HIDE DEF readers, writers
  <2>5. /\ readers # <<>> => Head(readers) \in Range(readers)
        /\ writers # <<>> => Head(writers) \in Range(writers)
    BY <2>1, <2>2 DEF readers, writers
  <2>6. /\ \A i \in DOMAIN readers : readers[i] \in Range(readers)
        /\ \A i \in DOMAIN writers : writers[i] \in Range(writers)
    BY DEF Range
  <2>7. /\ readers # <<>> => queue[q].length > 0 /\ queue[q].readable = 0
        /\ writers # <<>> => queue[q].length > 0 /\ queue[q].writable = 0
    BY <2>3, <2>5
  <2>8. /\ \A i \in DOMAIN readers :
             request[readers[i]].op = "read" /\ request[readers[i]].queue = q
        /\ \A i \in DOMAIN writers :
             request[writers[i]].op = "write" /\ request[writers[i]].queue = q
    BY <2>3, <2>6
  <2> QED BY <2>4, <2>7, <2>8 DEF readers, writers
<1> QED BY <1>1, InitLines, NextLines, AlwaysIpc, InitIpc, NextIpc, PTL DEF IpcSpec

-----------------------------------------------------------------------------
(***************************************************************************)
(* The slots of a queue.                                                   *)
(***************************************************************************)

\* The counters of a queue, and where its messages lie.
Counted(q) ==
  LET c == queue[q] IN
  /\ Held(q) + c.writable + Cardinality(Woken(q, "write")) = c.length
  /\ c.length > 0 =>
       /\ c.head < c.length
       /\ c.tail = IF c.head + Held(q) < c.length THEN c.head + Held(q)
                   ELSE c.head + Held(q) - c.length
       /\ store[q] \in [0 .. c.length - 1 -> Messages \cup {None}]

Slots ==
  /\ store = [q \in Queues |-> store[q]]
  /\ \A q \in Queues : Counted(q)

\* Who is woken stays so until he uses what is kept for him.
SameWoken ==
  \A q \in Queues, op \in {"read", "write"} : Woken(q, op)' = Woken(q, op)

LEMMA WokenStays ==
  ASSUME \A t \in Tasks :
           \/ /\ request'[t] = request[t]
              /\ request[t] # NoRequest =>
                   (status'[t] \cap {"pend", "timeout"} = {} <=> WaitServed(t))
           \/ request[t] = NoRequest /\ "pend" \in status'[t]
           \/ request'[t] = NoRequest /\ "timeout" \in status[t]
  PROVE  SameWoken
<1> SUFFICES ASSUME NEW q \in Queues, NEW op \in {"read", "write"}, NEW t \in Tasks
             PROVE  /\ request'[t].op = op /\ request'[t].queue = q
                    /\ status'[t] \cap {"pend", "timeout"} = {}
                    <=>
                    /\ request[t].op = op /\ request[t].queue = q
                    /\ status[t] \cap {"pend", "timeout"} = {}
  BY DEF SameWoken, Woken
<1>1. NoRequest.op = "none"
  BY DEF NoRequest
<1> QED BY <1>1 DEF WaitServed

LEMMA WokenCount ==
  ASSUME NEW q, NEW op
  PROVE  /\ IsFiniteSet(Woken(q, op)) /\ Cardinality(Woken(q, op)) \in Nat
         /\ IsFiniteSet(Woken(q, op)') /\ Cardinality(Woken(q, op)') \in Nat
<1>1. Woken(q, op) \in SUBSET Tasks /\ Woken(q, op)' \in SUBSET Tasks
  BY DEF Woken
<1> QED BY <1>1, QueueAssumption, FS_Subset, FS_CardinalityType

\* Who is served at a queue is not counted as woken yet.
LEMMA ServedWoken ==
  ASSUME IpcInv, NEW l \in WaitObjects, NEW c \in Tasks \cup {None},
         ServedIn(l, Served(l), c), NEW q \in Queues, NEW op \in {"read", "write"},
         \A t \in Served(l) : request[t].op = op /\ request[t].queue = q,
         \A t \in Tasks : t # c => request'[t] = request[t],
         c \in Tasks => request'[c] = NoRequest
  PROVE  /\ c \notin Served(l) /\ Served(l) \cap Woken(q, op) = {}
         /\ Woken(q, op)' = (Woken(q, op) \ {c}) \cup Served(l)
         /\ \A r \in Queues, o \in {"read", "write"} :
              <<r, o>> # <<q, op>> => Woken(r, o)' = Woken(r, o) \ {c}
<1>i. Consistent
  BY DEF IpcInv
<1>1. Served(l) \subseteq Range(lists[l]) /\ c \notin Served(l)
  BY <1>i, ServedIsWaiting DEF ServedIn
<1>2. \A t \in Served(l) : t \in Tasks /\ "pend" \in status[t] /\ t # c
  BY <1>1, <1>i, WaitingFacts
<1>3. \A t \in Tasks : status'[t] = IF t \in Served(l) THEN Woke(t) ELSE status[t]
  BY DEF ServedIn
<1>4. \A t \in Tasks : Woke(t) \cap {"pend", "timeout"} = {}
  BY DEF Woke, Ended
<1>5. NoRequest.op \notin {"read", "write"}
  BY DEF NoRequest
<1>6. Served(l) \cap Woken(q, op) = {}
  BY <1>2 DEF Woken
<1>7. ASSUME NEW t \in Tasks, NEW r \in Queues, NEW o \in {"read", "write"}
      PROVE  t \in Woken(r, o)' <=>
               \/ t # c /\ t \in Woken(r, o)
               \/ t \in Served(l) /\ r = q /\ o = op
  <2>0. t \in Woken(r, o)' <=> /\ request'[t].op = o /\ request'[t].queue = r
                               /\ status'[t] \cap {"pend", "timeout"} = {}
    BY DEF Woken
  <2>1. CASE t = c
    BY <1>1, <1>5, <2>0, <2>1
  <2>2. CASE t # c /\ t \in Served(l)
    <3>1. t \notin Woken(r, o)
      BY <1>2, <2>2 DEF Woken
    <3>2. status'[t] \cap {"pend", "timeout"} = {}
      BY <1>3, <1>4, <2>2
    <3> QED BY <2>0, <2>2, <3>1, <3>2
  <2>3. CASE t # c /\ t \notin Served(l)
    <3>1. status'[t] = status[t] /\ request'[t] = request[t]
      BY <1>3, <2>3
    <3> QED BY <2>0, <2>3, <3>1 DEF Woken
  <2> QED BY <2>1, <2>2, <2>3
<1>8. \A r \in Queues, o \in {"read", "write"} :
        Woken(r, o) \subseteq Tasks /\ Woken(r, o)' \subseteq Tasks
  BY DEF Woken
<1>9. Woken(q, op)' = (Woken(q, op) \ {c}) \cup Served(l)
  <2>1. \A t \in Tasks : t \in Woken(q, op)' <=> t \in (Woken(q, op) \ {c}) \cup Served(l)
    BY <1>7
  <2>2. Served(l) \subseteq Tasks
    BY <1>2
  <2> QED BY <1>8, <2>1, <2>2
<1>10. ASSUME NEW r \in Queues, NEW o \in {"read", "write"}, <<r, o>> # <<q, op>>
       PROVE  Woken(r, o)' = Woken(r, o) \ {c}
  <2>1. \A t \in Tasks : t \in Woken(r, o)' <=> t \in Woken(r, o) \ {c}
    BY <1>7, <1>10
  <2> QED BY <1>8, <2>1
<1> QED BY <1>1, <1>6, <1>9, <1>10

LEMMA ServedOne ==
  ASSUME NEW l, NEW S, IsFiniteSet(S), S \cap Served(l) = {}
  PROVE  Cardinality(S \cup Served(l)) + Freed(l) = Cardinality(S) + 1
<1>0. Cardinality(S) \in Nat
  BY FS_CardinalityType
<1>1. CASE lists[l] = <<>>
  BY <1>0, <1>1 DEF Served, Freed
<1>2. CASE lists[l] # <<>>
  <2>1. Served(l) = {Head(lists[l])} /\ Head(lists[l]) \notin S
    BY <1>2 DEF Served
  <2>2. Cardinality(S \cup {Head(lists[l])}) = Cardinality(S) + 1
    BY <2>1, FS_AddElement
  <2> QED BY <1>0, <1>2, <2>1, <2>2 DEF Freed
<1> QED BY <1>1, <1>2

\* What a read does to the counts of its queue.
LEMMA ReadingCounts ==
  ASSUME IpcInv, NEW q \in Queues, NEW c \in Tasks \cup {None}, NEW used \in {0, 1},
         Reading(c, q, used), IpcInv'
  PROVE  /\ Held(q) \in Nat /\ Held(q) > 0 /\ Held(q)' = Held(q) - 1
         /\ queue'[q].writable + Cardinality(Woken(q, "write")')
              = queue[q].writable + Cardinality(Woken(q, "write")) + 1
         /\ \A r \in Queues \ {q}, o \in {"read", "write"} : Woken(r, o)' = Woken(r, o)
<1> DEFINE l == WriteList[q]
<1>k. /\ ServedIn(l, Served(l), c)
      /\ queue' = [queue EXCEPT ![q] = Taken(q, used)]
  BY ReadingKeeps
<1>l. l \in WaitObjects
  BY ListsOfQueues
<1>i. Consistent /\ IpcTypeOK
  BY DEF IpcInv
<1>t. queue[q] \in QueueRecord /\ queue \in [Queues -> QueueRecord]
  BY <1>i DEF IpcTypeOK
<1>1. \A t \in Served(l) : request[t].op = "write" /\ request[t].queue = q
  BY <1>i, <1>l, ServedIsWaiting DEF IpcInv, QueueWaiters
<1>2. /\ \A t \in Tasks : t # c => request'[t] = request[t]
      /\ c \in Tasks => request'[c] = NoRequest
      /\ used = 0 => /\ c \in Woken(q, "read") /\ request[c].op = "read"
                     /\ request[c].queue = q
      /\ used = 1 => request' = request /\ (c \in Tasks => request[c] = NoRequest)
      /\ used = 1 => queue[q].readable > 0
  <2>1. CASE /\ used = 1 /\ queue[q].readable > 0 /\ request' = request
             /\ (c \in Tasks => pc[c] = "app")
    BY <2>1, OutsideFacts DEF Inside
  <2>2. CASE /\ used = 0 /\ c \in Tasks /\ pc[c] = "tail"
             /\ request[c].op = "read" /\ request[c].queue = q
             /\ "timeout" \notin status[c]
             /\ request' = [request EXCEPT ![c] = NoRequest]
    <3>1. "pend" \notin status[c]
      <4>1. Running(c)
        BY <2>2, ParamAssumption DEF Reading, GoesOn
      <4> QED BY <1>i, <2>2, <4>1, RunnerFacts
    <3> QED BY <1>i, <2>2, <3>1 DEF Woken, IpcTypeOK
  <2> QED BY <2>1, <2>2 DEF Reading
<1>3. /\ c \notin Served(l) /\ Served(l) \cap Woken(q, "write") = {}
      /\ Woken(q, "write")' = (Woken(q, "write") \ {c}) \cup Served(l)
      /\ \A r \in Queues, o \in {"read", "write"} :
           <<r, o>> # <<q, "write">> => Woken(r, o)' = Woken(r, o) \ {c}
  BY <1>1, <1>2, <1>k, <1>l, ServedWoken
<1>4. \A r \in Queues, o \in {"read", "write"} :
        <<r, o>> # <<q, "read">> => c \notin Woken(r, o)
  <2>1. NoRequest.op \notin {"read", "write"}
    BY DEF NoRequest
  <2> QED BY <1>2, <2>1 DEF Woken
<1>5. ASSUME NEW r \in Queues \ {q}, NEW o \in {"read", "write"}
      PROVE  Woken(r, o)' = Woken(r, o)
  <2>1. r \in Queues /\ <<r, o>> # <<q, "read">> /\ <<r, o>> # <<q, "write">>
    BY <1>5
  <2>2. Woken(r, o)' = Woken(r, o) \ {c} /\ c \notin Woken(r, o)
    BY <1>3, <1>4, <1>5, <2>1
  <2> QED BY <2>2
<1>6. Woken(q, "write")' = Woken(q, "write") \cup Served(l)
  BY <1>3, <1>4
<1>7. Woken(q, "read")' = Woken(q, "read") \ {c}
  BY <1>3
<1>8. queue'[q] = Taken(q, used)
  BY <1>k, <1>t
<1>n. PICK nr \in Nat, nw \in Nat : /\ nr = Cardinality(Woken(q, "read"))
                                    /\ nw = Cardinality(Woken(q, "write"))
  BY WokenCount
<1>9. Cardinality(Woken(q, "write")') + Freed(l) = nw + 1
  BY <1>3, <1>6, <1>n, WokenCount, ServedOne
<1>10. Cardinality(Woken(q, "read")') = (IF used = 0 THEN nr - 1 ELSE nr)
  <2>1. c \in Woken(q, "read") <=> used = 0
    <3>1. NoRequest.op \notin {"read", "write"}
      BY DEF NoRequest
    <3> QED BY <1>2, <3>1 DEF Woken
  <2>2. IsFiniteSet(Woken(q, "read"))
    BY WokenCount
  <2> QED BY <1>7, <1>n, <2>1, <2>2, FS_RemoveElement
<1>11. /\ Held(q) = queue[q].readable + nr
       /\ Held(q)' = queue'[q].readable + Cardinality(Woken(q, "read")')
  BY <1>n DEF Held
<1>12. used = 0 => nr > 0
  <2>1. used = 0 => Woken(q, "read") # {}
    BY <1>2
  <2> QED BY <1>n, <2>1, WokenCount, FS_EmptySet
<1>13. /\ queue'[q].readable = queue[q].readable - used
       /\ queue'[q].writable = queue[q].writable + Freed(l)
       /\ Freed(l) \in Nat /\ queue[q].readable \in Nat /\ queue[q].writable \in Nat
  BY <1>8, <1>t DEF Taken, QueueRecord, Freed
<1>14. Held(q) \in Nat /\ Held(q) > 0 /\ Held(q)' = Held(q) - 1
  BY <1>2, <1>10, <1>11, <1>12, <1>13
<1>15. queue'[q].writable + Cardinality(Woken(q, "write")')
         = queue[q].writable + Cardinality(Woken(q, "write")) + 1
  BY <1>9, <1>13, <1>n, WokenCount
<1> QED BY <1>5, <1>14, <1>15

LEMMA WritingCounts ==
  ASSUME IpcInv, NEW q \in Queues, NEW c \in Tasks \cup {None}, NEW m \in Messages,
         NEW used \in {0, 1}, Writing(c, q, m, used), IpcInv'
  PROVE  /\ Held(q) \in Nat /\ Held(q)' = Held(q) + 1
         /\ queue'[q].writable + Cardinality(Woken(q, "write")')
              = queue[q].writable + Cardinality(Woken(q, "write")) - 1
         /\ queue[q].writable + Cardinality(Woken(q, "write")) > 0
         /\ \A r \in Queues \ {q}, o \in {"read", "write"} : Woken(r, o)' = Woken(r, o)
<1> DEFINE l == ReadList[q]
<1>k. /\ ServedIn(l, Served(l), c)
      /\ queue' = [queue EXCEPT ![q] = Filled(q, used)]
  BY WritingKeeps
<1>l. l \in WaitObjects
  BY ListsOfQueues
<1>i. Consistent /\ IpcTypeOK
  BY DEF IpcInv
<1>t. queue[q] \in QueueRecord /\ queue \in [Queues -> QueueRecord]
  BY <1>i DEF IpcTypeOK
<1>1. \A t \in Served(l) : request[t].op = "read" /\ request[t].queue = q
  BY <1>i, <1>l, ServedIsWaiting DEF IpcInv, QueueWaiters
<1>2. /\ \A t \in Tasks : t # c => request'[t] = request[t]
      /\ c \in Tasks => request'[c] = NoRequest
      /\ used = 0 => /\ c \in Woken(q, "write") /\ request[c].op = "write"
                     /\ request[c].queue = q
      /\ used = 1 => request' = request /\ (c \in Tasks => request[c] = NoRequest)
      /\ used = 1 => queue[q].writable > 0
  <2>1. CASE /\ used = 1 /\ queue[q].writable > 0 /\ request' = request
             /\ (c \in Tasks => pc[c] = "app")
    BY <2>1, OutsideFacts DEF Inside
  <2>2. CASE /\ used = 0 /\ c \in Tasks /\ pc[c] = "tail"
             /\ request[c].op = "write" /\ request[c].queue = q
             /\ "timeout" \notin status[c]
             /\ request' = [request EXCEPT ![c] = NoRequest]
    <3>1. "pend" \notin status[c]
      <4>1. Running(c)
        BY <2>2, ParamAssumption DEF Writing, GoesOn
      <4> QED BY <1>i, <2>2, <4>1, RunnerFacts
    <3> QED BY <1>i, <2>2, <3>1 DEF Woken, IpcTypeOK
  <2> QED BY <2>1, <2>2 DEF Writing
<1>3. /\ c \notin Served(l) /\ Served(l) \cap Woken(q, "read") = {}
      /\ Woken(q, "read")' = (Woken(q, "read") \ {c}) \cup Served(l)
      /\ \A r \in Queues, o \in {"read", "write"} :
           <<r, o>> # <<q, "read">> => Woken(r, o)' = Woken(r, o) \ {c}
  BY <1>1, <1>2, <1>k, <1>l, ServedWoken
<1>4. \A r \in Queues, o \in {"read", "write"} :
        <<r, o>> # <<q, "write">> => c \notin Woken(r, o)
  <2>1. NoRequest.op \notin {"read", "write"}
    BY DEF NoRequest
  <2> QED BY <1>2, <2>1 DEF Woken
<1>5. ASSUME NEW r \in Queues \ {q}, NEW o \in {"read", "write"}
      PROVE  Woken(r, o)' = Woken(r, o)
  <2>1. r \in Queues /\ <<r, o>> # <<q, "read">> /\ <<r, o>> # <<q, "write">>
    BY <1>5
  <2>2. Woken(r, o)' = Woken(r, o) \ {c} /\ c \notin Woken(r, o)
    BY <1>3, <1>4, <1>5, <2>1
  <2> QED BY <2>2
<1>6. Woken(q, "read")' = Woken(q, "read") \cup Served(l)
  BY <1>3, <1>4
<1>7. Woken(q, "write")' = Woken(q, "write") \ {c}
  BY <1>3
<1>8. queue'[q] = Filled(q, used)
  BY <1>k, <1>t
<1>n. PICK nr \in Nat, nw \in Nat : /\ nr = Cardinality(Woken(q, "read"))
                                    /\ nw = Cardinality(Woken(q, "write"))
  BY WokenCount
<1>9. Cardinality(Woken(q, "read")') + Freed(l) = nr + 1
  BY <1>3, <1>6, <1>n, WokenCount, ServedOne
<1>10. Cardinality(Woken(q, "write")') = (IF used = 0 THEN nw - 1 ELSE nw)
  <2>1. c \in Woken(q, "write") <=> used = 0
    <3>1. NoRequest.op \notin {"read", "write"}
      BY DEF NoRequest
    <3> QED BY <1>2, <3>1 DEF Woken
  <2>2. IsFiniteSet(Woken(q, "write"))
    BY WokenCount
  <2> QED BY <1>7, <1>n, <2>1, <2>2, FS_RemoveElement
<1>11. /\ Held(q) = queue[q].readable + nr
       /\ Held(q)' = queue'[q].readable + Cardinality(Woken(q, "read")')
  BY <1>n DEF Held
<1>12. used = 0 => nw > 0
  <2>1. used = 0 => Woken(q, "write") # {}
    BY <1>2
  <2> QED BY <1>n, <2>1, WokenCount, FS_EmptySet
<1>13. /\ queue'[q].writable = queue[q].writable - used
       /\ queue'[q].readable = queue[q].readable + Freed(l)
       /\ Freed(l) \in Nat /\ queue[q].readable \in Nat /\ queue[q].writable \in Nat
  BY <1>8, <1>t DEF Filled, QueueRecord, Freed
<1>14. Held(q) \in Nat /\ Held(q)' = Held(q) + 1
  BY <1>9, <1>11, <1>13, WokenCount
<1>15. /\ queue'[q].writable + Cardinality(Woken(q, "write")')
            = queue[q].writable + Cardinality(Woken(q, "write")) - 1
       /\ queue[q].writable + Cardinality(Woken(q, "write")) > 0
  BY <1>2, <1>10, <1>12, <1>13, <1>n
<1> QED BY <1>5, <1>14, <1>15

LEMMA CountedElse ==
  ASSUME NEW r, Counted(r), queue'[r] = queue[r], store'[r] = store[r],
         Woken(r, "read")' = Woken(r, "read"), Woken(r, "write")' = Woken(r, "write")
  PROVE  Counted(r)' /\ Held(r)' = Held(r)
<1>1. Held(r)' = Held(r)
  BY DEF Held
<1>2. Cardinality(Woken(r, "write"))' = Cardinality(Woken(r, "write"))
  OBVIOUS
<1> QED BY <1>1, <1>2 DEF Counted

LEMMA SlotsStay ==
  ASSUME Slots, SameWoken, UNCHANGED <<queue, store>>
  PROVE  Slots' /\ \A q \in Queues : Held(q)' = Held(q)
<1>1. \A q \in Queues : Counted(q)' /\ Held(q)' = Held(q)
  BY CountedElse DEF Slots, SameWoken
<1> QED BY <1>1 DEF Slots

LEMMA StoreSet ==
  ASSUME store = [x \in Queues |-> store[x]], NEW q \in Queues, NEW v,
         store' = [store EXCEPT ![q] = v]
  PROVE  /\ store' = [x \in Queues |-> store'[x]] /\ store'[q] = v
         /\ \A r \in Queues \ {q} : store'[r] = store[r]
<1>1. store' = [x \in Queues |-> IF x = q THEN v ELSE store[x]]
  OBVIOUS
<1> QED BY <1>1

\* The index after i, and the one n places after it.
LEMMA AfterFacts ==
  ASSUME NEW q \in Queues, NEW len \in Nat, queue[q].length = len, NEW i \in 0 .. len - 1
  PROVE  /\ After(q, i) = (IF i + 1 < len THEN i + 1 ELSE 0)
         /\ After(q, i) \in 0 .. len - 1
BY DEF After

LEMMA ReadingSlots ==
  ASSUME IpcInv, Slots, NEW q \in Queues, NEW c \in Tasks \cup {None}, NEW used \in {0, 1},
         Reading(c, q, used)
  PROVE  /\ Slots'
         /\ \A r \in Queues \ {q} : /\ Held(r)' = Held(r) /\ queue'[r] = queue[r]
                                    /\ store'[r] = store[r]
         /\ Held(q) \in 1 .. queue[q].length /\ Held(q)' = Held(q) - 1
         /\ queue[q].head \in 0 .. queue[q].length - 1
         /\ queue'[q].length = queue[q].length
         /\ queue'[q].head = After(q, queue[q].head)
         /\ store'[q] = [store[q] EXCEPT ![queue[q].head] = None]
         /\ out' = store[q][queue[q].head]
<1>k. IpcInv' /\ queue' = [queue EXCEPT ![q] = Taken(q, used)]
  BY ReadingKeeps
<1>t. queue[q] \in QueueRecord /\ queue \in [Queues -> QueueRecord]
  BY DEF IpcInv, IpcTypeOK
<1>c. /\ Held(q) \in Nat /\ Held(q) > 0 /\ Held(q)' = Held(q) - 1
      /\ queue'[q].writable + Cardinality(Woken(q, "write")')
           = queue[q].writable + Cardinality(Woken(q, "write")) + 1
      /\ \A r \in Queues \ {q}, o \in {"read", "write"} : Woken(r, o)' = Woken(r, o)
  BY <1>k, ReadingCounts
<1>n. PICK len \in Nat, hd \in Nat, tl \in Nat, w \in Nat, nw \in Nat, h \in Nat :
        /\ len = queue[q].length /\ hd = queue[q].head /\ tl = queue[q].tail
        /\ w = queue[q].writable /\ nw = Cardinality(Woken(q, "write")) /\ h = Held(q)
  BY <1>c, <1>t, WokenCount DEF QueueRecord
<1>1. /\ h + w + nw = len /\ len > 0 /\ hd < len
      /\ tl = IF hd + h < len THEN hd + h ELSE hd + h - len
      /\ store[q] \in [0 .. len - 1 -> Messages \cup {None}]
  <2>1. Counted(q)
    BY DEF Slots
  <2>2. h + w + nw = len
    BY <1>n, <2>1 DEF Counted
  <2>3. len > 0
    BY <1>c, <1>n, <2>2
  <2> QED BY <1>n, <2>1, <2>2, <2>3 DEF Counted
<1>2. queue'[q] = Taken(q, used) /\ \A r \in Queues \ {q} : queue'[r] = queue[r]
  BY <1>k, <1>t
<1>v. PICK v : v = [store[q] EXCEPT ![hd] = None]
  OBVIOUS
<1>3. store' = [store EXCEPT ![q] = v] /\ out' = store[q][hd]
  <2>1. store' = [store EXCEPT ![q][queue[q].head] = None] /\ out' = store[q][queue[q].head]
    BY DEF Reading, TakeHead
  <2> QED BY <1>n, <1>v, <2>1
<1>4. /\ store' = [x \in Queues |-> store'[x]] /\ store'[q] = v
      /\ \A r \in Queues \ {q} : store'[r] = store[r]
  BY <1>3, StoreSet DEF Slots
<1>5. After(q, hd) = (IF hd + 1 < len THEN hd + 1 ELSE 0) /\ After(q, hd) \in 0 .. len - 1
  <2>1. hd \in 0 .. len - 1
    BY <1>1
  <2> QED BY <1>n, <2>1, AfterFacts
<1>6. /\ queue'[q].length = len /\ queue'[q].head = After(q, hd) /\ queue'[q].tail = tl
  BY <1>2, <1>n DEF Taken
<1>7. Counted(q)'
  <2>1. Held(q)' + queue'[q].writable + Cardinality(Woken(q, "write")') = queue'[q].length
    <3>1. Held(q)' \in Int /\ Held(q)' = h - 1
      BY <1>c, <1>n
    <3>2. queue'[q].writable \in Nat /\ Cardinality(Woken(q, "write")') \in Nat
      BY <1>k, WokenCount DEF IpcInv, IpcTypeOK, QueueRecord
    <3>3. queue'[q].writable + Cardinality(Woken(q, "write")') = w + nw + 1
      BY <1>c, <1>n
    <3>4. \A x, y \in Nat : x + y = w + nw + 1 => (h - 1) + x + y = len
      BY <1>1
    <3> QED BY <1>6, <3>1, <3>2, <3>3, <3>4
  <2>2. queue'[q].head < queue'[q].length
    BY <1>5, <1>6
  <2>3. queue'[q].tail = IF queue'[q].head + Held(q)' < queue'[q].length
                         THEN queue'[q].head + Held(q)'
                         ELSE queue'[q].head + Held(q)' - queue'[q].length
    <3>1. Held(q)' = h - 1
      BY <1>c, <1>n
    <3>2. PICK hd2 : hd2 = After(q, hd)
      OBVIOUS
    <3>3. tl = IF hd2 + (h - 1) < len THEN hd2 + (h - 1) ELSE hd2 + (h - 1) - len
      <4>1. h > 0
        BY <1>c, <1>n
      <4>2. hd2 = IF hd + 1 < len THEN hd + 1 ELSE 0
        BY <1>5, <3>2
      <4>3. CASE hd + 1 < len
        BY <1>1, <4>1, <4>2, <4>3
      <4>4. CASE ~(hd + 1 < len)
        <5>1. hd + 1 = len /\ hd2 = 0
          BY <1>1, <4>2, <4>4
        <5> QED BY <1>1, <4>1, <5>1
      <4> QED BY <4>3, <4>4
    <3> QED BY <1>6, <3>1, <3>2, <3>3
  <2>4. store'[q] \in [0 .. queue'[q].length - 1 -> Messages \cup {None}]
    BY <1>1, <1>4, <1>6, <1>v
  <2> QED BY <2>1, <2>2, <2>3, <2>4 DEF Counted
<1>8. ASSUME NEW r \in Queues \ {q} PROVE Counted(r)' /\ Held(r)' = Held(r)
  <2>1. Counted(r) /\ Woken(r, "read")' = Woken(r, "read") /\ Woken(r, "write")' = Woken(r, "write")
    BY <1>8, <1>c DEF Slots
  <2> QED BY <1>2, <1>4, <1>8, <2>1, CountedElse
<1>9. Slots'
  BY <1>4, <1>7, <1>8 DEF Slots
<1>10. Held(q) \in 1 .. queue[q].length /\ queue[q].head \in 0 .. queue[q].length - 1
  <2>1. h \in 1 .. len /\ hd \in 0 .. len - 1
    <3>1. h > 0
      BY <1>c, <1>n
    <3>2. h <= len
      BY <1>1
    <3> QED BY <1>1, <3>1, <3>2
  <2> QED BY <1>n, <2>1
<1>11. store'[q] = [store[q] EXCEPT ![queue[q].head] = None]
  BY <1>4, <1>n, <1>v
<1>12. /\ out' = store[q][queue[q].head] /\ queue'[q].length = queue[q].length
       /\ queue'[q].head = After(q, queue[q].head)
  BY <1>3, <1>6, <1>n
<1> QED BY <1>2, <1>4, <1>8, <1>9, <1>10, <1>11, <1>12, <1>c

\* What lies in q after a write of m.
Stored(q, m) == [store[q] EXCEPT ![queue[q].tail] = m]

LEMMA WritingSlots ==
  ASSUME IpcInv, Slots, NEW q \in Queues, NEW c \in Tasks \cup {None}, NEW m \in Messages,
         NEW used \in {0, 1}, Writing(c, q, m, used)
  PROVE  /\ Slots'
         /\ \A r \in Queues \ {q} : /\ Held(r)' = Held(r) /\ queue'[r] = queue[r]
                                    /\ store'[r] = store[r]
         /\ Held(q) \in 0 .. queue[q].length - 1
         /\ Held(q)' = Held(q) + 1
         /\ queue[q].head \in 0 .. queue[q].length - 1
         /\ queue'[q].length = queue[q].length
         /\ queue'[q].head = queue[q].head
         /\ store'[q] = Stored(q, m)
         /\ out' = out
<1>k. IpcInv' /\ queue' = [queue EXCEPT ![q] = Filled(q, used)]
  BY WritingKeeps
<1>t. queue[q] \in QueueRecord /\ queue \in [Queues -> QueueRecord]
  BY DEF IpcInv, IpcTypeOK
<1>c. /\ Held(q) \in Nat /\ Held(q)' = Held(q) + 1
      /\ queue'[q].writable + Cardinality(Woken(q, "write")')
           = queue[q].writable + Cardinality(Woken(q, "write")) - 1
      /\ queue[q].writable + Cardinality(Woken(q, "write")) > 0
      /\ \A r \in Queues \ {q}, o \in {"read", "write"} : Woken(r, o)' = Woken(r, o)
  BY <1>k, WritingCounts
<1>n. PICK len \in Nat, hd \in Nat, tl \in Nat, w \in Nat, nw \in Nat, h \in Nat :
        /\ len = queue[q].length /\ hd = queue[q].head /\ tl = queue[q].tail
        /\ w = queue[q].writable /\ nw = Cardinality(Woken(q, "write")) /\ h = Held(q)
  BY <1>c, <1>t, WokenCount DEF QueueRecord
<1>1. /\ h + w + nw = len /\ len > 0 /\ hd < len /\ h < len
      /\ tl = IF hd + h < len THEN hd + h ELSE hd + h - len
      /\ store[q] \in [0 .. len - 1 -> Messages \cup {None}]
  <2>1. Counted(q)
    BY DEF Slots
  <2>2. h + w + nw = len
    BY <1>n, <2>1 DEF Counted
  <2>3. len > 0 /\ h < len
    BY <1>c, <1>n, <2>2
  <2> QED BY <1>n, <2>1, <2>2, <2>3 DEF Counted
<1>2. queue'[q] = Filled(q, used) /\ \A r \in Queues \ {q} : queue'[r] = queue[r]
  BY <1>k, <1>t
<1>v. PICK v : v = [store[q] EXCEPT ![tl] = m]
  OBVIOUS
<1>3. store' = [store EXCEPT ![q] = v] /\ out' = out
  <2>1. store' = [store EXCEPT ![q][queue[q].tail] = m] /\ out' = out
    BY DEF Writing, PutTail
  <2> QED BY <1>n, <1>v, <2>1
<1>4. /\ store' = [x \in Queues |-> store'[x]] /\ store'[q] = v
      /\ \A r \in Queues \ {q} : store'[r] = store[r]
  BY <1>3, StoreSet DEF Slots
<1>5. After(q, tl) = (IF tl + 1 < len THEN tl + 1 ELSE 0) /\ After(q, tl) \in 0 .. len - 1
  <2>1. tl \in 0 .. len - 1
    BY <1>1
  <2> QED BY <1>n, <2>1, AfterFacts
<1>6. /\ queue'[q].length = len /\ queue'[q].head = hd /\ queue'[q].tail = After(q, tl)
  BY <1>2, <1>n DEF Filled
<1>7. Counted(q)'
  <2>1. Held(q)' + queue'[q].writable + Cardinality(Woken(q, "write")') = queue'[q].length
    <3>1. Held(q)' \in Int /\ Held(q)' = h + 1
      BY <1>c, <1>n
    <3>2. queue'[q].writable \in Nat /\ Cardinality(Woken(q, "write")') \in Nat
      BY <1>k, WokenCount DEF IpcInv, IpcTypeOK, QueueRecord
    <3>3. queue'[q].writable + Cardinality(Woken(q, "write")') = w + nw - 1
      BY <1>c, <1>n
    <3>4. \A x, y \in Nat : x + y = w + nw - 1 => (h + 1) + x + y = len
      BY <1>1
    <3> QED BY <1>6, <3>1, <3>2, <3>3, <3>4
  <2>2. queue'[q].head < queue'[q].length
    BY <1>1, <1>6
  <2>3. queue'[q].tail = IF queue'[q].head + Held(q)' < queue'[q].length
                         THEN queue'[q].head + Held(q)'
                         ELSE queue'[q].head + Held(q)' - queue'[q].length
    <3>1. Held(q)' = h + 1
      BY <1>c, <1>n
    <3>2. PICK tl2 : tl2 = After(q, tl)
      OBVIOUS
    <3>3. tl2 = IF hd + (h + 1) < len THEN hd + (h + 1) ELSE hd + (h + 1) - len
      BY <1>1, <1>5, <3>2
    <3> QED BY <1>6, <3>1, <3>2, <3>3
  <2>4. store'[q] \in [0 .. queue'[q].length - 1 -> Messages \cup {None}]
    BY <1>1, <1>4, <1>6, <1>v
  <2> QED BY <2>1, <2>2, <2>3, <2>4 DEF Counted
<1>8. ASSUME NEW r \in Queues \ {q} PROVE Counted(r)' /\ Held(r)' = Held(r)
  <2>1. Counted(r) /\ Woken(r, "read")' = Woken(r, "read") /\ Woken(r, "write")' = Woken(r, "write")
    BY <1>8, <1>c DEF Slots
  <2> QED BY <1>2, <1>4, <1>8, <2>1, CountedElse
<1>9. Slots'
  BY <1>4, <1>7, <1>8 DEF Slots
<1>10. Held(q) \in 0 .. queue[q].length - 1 /\ queue[q].head \in 0 .. queue[q].length - 1
  <2>1. h \in 0 .. len - 1 /\ hd \in 0 .. len - 1
    BY <1>1
  <2> QED BY <1>n, <2>1
<1>11. store'[q] = Stored(q, m)
  BY <1>4, <1>n, <1>v DEF Stored
<1>12. /\ queue'[q].length = queue[q].length /\ queue'[q].head = queue[q].head
  BY <1>6, <1>n
<1> QED BY <1>2, <1>3, <1>4, <1>8, <1>9, <1>10, <1>11, <1>12, <1>c

\* No queue is touched and nobody is served or gives up at one.
LEMMA SchedulerWoken ==
  ASSUME IpcInv, SchedulerStep, TimesliceTimeout = 0, "delete" \notin Calls
  PROVE  SameWoken
<1>1. /\ CallsLeft
      /\ request' = [u \in Tasks |-> IF pc'[u] = "none" THEN NoRequest ELSE request[u]]
  BY SchedulerKeeps
<1>2. ASSUME NEW t \in Tasks
      PROVE  /\ request'[t] = request[t]
             /\ request[t] # NoRequest =>
                  (status'[t] \cap {"pend", "timeout"} = {} <=> WaitServed(t))
  <2>1. CASE request[t] = NoRequest
    BY <1>1, <2>1
  <2>2. CASE request[t] # NoRequest
    <3>1. Inside(t)
      BY <2>2 DEF IpcInv, Asking
    <3>2. pc'[t] # "none"
      BY <1>1, <3>1 DEF CallsLeft
    <3> QED BY <1>1, <3>1, <3>2 DEF CallsLeft
  <2> QED BY <2>1, <2>2
<1> QED BY <1>2, WokenStays

LEMMA QueueMadeSlots ==
  ASSUME TimesliceTimeout = 0, IpcInv, Slots, NEW q \in Queues, QueueMade(q)
  PROVE  /\ Slots'
         /\ \A r \in Queues : Held(r)' = (IF r = q THEN 0 ELSE Held(r))
         /\ \A r \in Queues \ {q} : queue'[r] = queue[r] /\ store'[r] = store[r]
         /\ \/ \E n \in Lengths : queue[q].length = 0 /\ queue'[q].length = n /\ Held(q) = 0
            \/ queue'[q].length = 0 /\ queue[q].length > 0
         /\ out' = out
<1>0. UNCHANGED <<status, request, out>>
  BY DEF QueueMade, taskVars
<1>1. SameWoken
  BY <1>0, WokenStays DEF WaitServed
<1>2. /\ \A r \in Queues \ {q} : queue'[r] = queue[r]
      /\ \/ \E n \in Lengths : /\ queue[q].length = 0
                               /\ queue'[q] = [length |-> n, readable |-> 0, writable |-> n,
                                               head |-> 0, tail |-> 0]
         \/ queue'[q] = Unused /\ Deletable(q) /\ queue[q].length > 0
  BY QueueMadeKeeps
<1>3. \E v : store' = [store EXCEPT ![q] = v]
  BY DEF QueueMade
<1>4. /\ store' = [x \in Queues |-> store'[x]]
      /\ \A r \in Queues \ {q} : store'[r] = store[r]
  BY <1>3, StoreSet DEF Slots
<1>5. ASSUME NEW r \in Queues \ {q} PROVE Counted(r)' /\ Held(r)' = Held(r)
  BY <1>1, <1>2, <1>4, <1>5, CountedElse DEF Slots, SameWoken
<1>n. PICK rd \in Nat, w \in Nat, nr \in Nat, nw \in Nat, len \in Nat :
        /\ rd = queue[q].readable /\ w = queue[q].writable /\ len = queue[q].length
        /\ nr = Cardinality(Woken(q, "read")) /\ nw = Cardinality(Woken(q, "write"))
  BY WokenCount DEF IpcInv, IpcTypeOK, QueueRecord
<1>6. rd + nr + w + nw = len
  <2>1. Counted(q)
    BY DEF Slots
  <2> QED BY <1>n, <2>1 DEF Counted, Held
<1>7. nr = 0 /\ nw = 0
  <2>1. CASE len = 0
    BY <1>6, <2>1
  <2>2. CASE Deletable(q)
    <3>1. w + rd = len
      BY <1>n, <2>2 DEF Deletable
    <3> QED BY <1>6, <3>1
  <2> QED BY <1>2, <1>n, <2>1, <2>2
<1>8. Held(q)' = queue'[q].readable + 0 /\ Cardinality(Woken(q, "write")') = 0
  BY <1>1, <1>7, <1>n DEF Held, SameWoken
<1>9. CASE \E n \in Lengths : /\ queue[q].length = 0
                              /\ queue'[q] = [length |-> n, readable |-> 0, writable |-> n,
                                              head |-> 0, tail |-> 0]
  <2>1. PICK n \in Lengths : /\ queue[q].length = 0
                             /\ queue'[q] = [length |-> n, readable |-> 0, writable |-> n,
                                             head |-> 0, tail |-> 0]
    BY <1>9
  <2>2. n \in Nat /\ n > 0
    BY QueueAssumption
  <2>3. Held(q)' = 0 /\ Held(q) = 0
    BY <1>6, <1>7, <1>8, <1>n, <2>1 DEF Held
  <2>4. store'[q] \in [0 .. n - 1 -> Messages \cup {None}]
    <3>1. PICK k \in Lengths :
            /\ queue' = [queue EXCEPT ![q] = [Unused EXCEPT !.length = k, !.writable = k]]
            /\ store' = [store EXCEPT ![q] = [i \in 0 .. k - 1 |-> None]]
      <4>1. queue'[q] # Unused
        BY <2>1, <2>2 DEF Unused
      <4>2. queue' # [queue EXCEPT ![q] = Unused]
        BY <4>1 DEF IpcInv, IpcTypeOK
      <4> QED BY <4>2 DEF QueueMade
    <3>2. queue'[q].length = k
      <4>1. queue'[q] = [Unused EXCEPT !.length = k, !.writable = k]
        BY <3>1 DEF IpcInv, IpcTypeOK
      <4>2. [Unused EXCEPT !.length = k, !.writable = k].length = k
        BY DEF Unused
      <4> QED BY <4>1, <4>2
    <3>3. k = n
      BY <2>1, <3>2
    <3>v. PICK v : v = [i \in 0 .. k - 1 |-> None]
      OBVIOUS
    <3>4. store'[q] = v
      <4>1. store' = [store EXCEPT ![q] = v]
        BY <3>1, <3>v
      <4> QED BY <4>1, StoreSet DEF Slots
    <3> QED BY <3>3, <3>4, <3>v
  <2>5. Counted(q)'
    BY <1>8, <2>1, <2>2, <2>3, <2>4 DEF Counted
  <2>6. queue'[q].length = n /\ queue[q].length = 0
    BY <2>1
  <2>7. Slots'
    BY <1>4, <1>5, <2>5 DEF Slots
  <2> QED BY <1>0, <1>2, <1>4, <1>5, <2>3, <2>6, <2>7
<1>10. CASE queue'[q] = Unused /\ queue[q].length > 0
  <2>1. /\ queue'[q].length = 0 /\ queue'[q].readable = 0 /\ queue'[q].writable = 0
    BY <1>10 DEF Unused
  <2>2. Held(q)' = 0
    BY <1>8, <2>1
  <2>3. Counted(q)'
    BY <1>8, <2>1, <2>2 DEF Counted
  <2>7. Slots'
    BY <1>4, <1>5, <2>3 DEF Slots
  <2> QED BY <1>0, <1>2, <1>4, <1>5, <1>10, <2>1, <2>2, <2>7
<1> QED BY <1>2, <1>9, <1>10

LEMMA InitSlots == IpcInit => Slots
<1> SUFFICES ASSUME IpcInit PROVE Slots
  OBVIOUS
<1>1. ASSUME NEW q \in Queues PROVE Counted(q)
  <2>1. queue[q].length = 0 /\ queue[q].readable = 0 /\ queue[q].writable = 0
    BY DEF IpcInit, QueueInit, Unused
  <2>2. \A op \in {"read", "write"} : Woken(q, op) = {}
    BY DEF IpcInit, QueueInit, NoRequest, Woken
  <2>3. Cardinality(Woken(q, "read")) = 0 /\ Cardinality(Woken(q, "write")) = 0
    BY <2>2, FS_EmptySet
  <2> QED BY <2>1, <2>3 DEF Counted, Held
<1> QED BY <1>1 DEF Slots, IpcInit, QueueInit

\* The steps that leave the queues alone.
LEMMA OtherWoken ==
  ASSUME IpcInv,
         \/ \E e \in Events : EventSet(e)
         \/ \E t \in Tasks, q \in Queues, k \in QueueTimeouts : Waiting(t, q, k)
         \/ \E t \in Tasks : QueueTimeout(t) /\ UNCHANGED eventVars
         \/ \E t \in Tasks, e \in Events, r \in Reads, k \in EventTimeouts :
              EventBlock(t, e, r, k) /\ UNCHANGED queueVars
         \/ \E t \in Tasks : EventReturn(t) /\ UNCHANGED queueVars
         \/ \E c \in Tasks \cup {None}, e \in Events, new \in SUBSET Bits :
              EventWriting(c, e, new)
         \/ UNCHANGED vars
  PROVE  SameWoken /\ UNCHANGED <<queue, store, out>>
<1>i. Consistent /\ IpcTypeOK
  BY DEF IpcInv
<1>1. CASE (\E e \in Events : EventSet(e)) \/ UNCHANGED vars
  <2>1. UNCHANGED <<status, request, queue, store, out>>
    BY <1>1 DEF EventSet, vars, taskVars, queueVars
  <2> QED BY <2>1, WokenStays DEF WaitServed
<1>2. ASSUME NEW t \in Tasks, NEW q \in Queues, NEW k \in QueueTimeouts, Waiting(t, q, k)
      PROVE  SameWoken /\ UNCHANGED <<queue, store, out>>
  <2>1. PICK l \in WaitObjects : \E s : BlockedIn(l, t, s)
    BY <1>2, ListsOfQueues, WaitingKeeps
  <2>2. /\ UNCHANGED <<queue, store, out>>
        /\ \A u \in Tasks \ {t} : request'[u] = request[u]
    BY <1>2, WaitingKeeps
  <2>3. request[t] = NoRequest
    BY <1>2, OutsideFacts DEF Waiting, Inside
  <2> QED BY <2>1, <2>2, <2>3, WokenStays DEF BlockedIn, WaitServed
<1>3. ASSUME NEW t \in Tasks, QueueTimeout(t), UNCHANGED eventVars
      PROVE  SameWoken /\ UNCHANGED <<queue, store, out>>
  <2>1. /\ UNCHANGED <<queue, store, out>>
        /\ request' = [request EXCEPT ![t] = NoRequest]
        /\ "timeout" \in status[t]
        /\ \A u \in Tasks \ {t} : status'[u] = status[u]
    BY <1>3, TimeoutKeeps
  <2> QED BY <1>i, <2>1, WokenStays DEF WaitServed, IpcTypeOK
<1>4. ASSUME NEW t \in Tasks, NEW e \in Events, NEW r \in Reads, NEW k \in EventTimeouts,
             EventBlock(t, e, r, k), UNCHANGED queueVars
      PROVE  SameWoken /\ UNCHANGED <<queue, store, out>>
  <2>1. BlockedIn(e, t, Append(lists[e], t)) /\ UNCHANGED <<queue, store, out, request>>
    BY <1>4, EventBlockKeeps DEF queueVars
  <2>2. request[t] = NoRequest
    BY <1>4, OutsideFacts DEF EventBlock, CanCall, Inside
  <2> QED BY <2>1, <2>2, WokenStays DEF BlockedIn, WaitServed
<1>5. ASSUME NEW t \in Tasks, EventReturn(t), UNCHANGED queueVars
      PROVE  SameWoken /\ UNCHANGED <<queue, store, out>>
  <2>1. /\ UNCHANGED <<queue, store, out, request>> /\ request[t] = NoRequest
        /\ \A u \in Tasks \ {t} : status'[u] = status[u]
    BY <1>5, EventReturnKeeps DEF queueVars
  <2> QED BY <2>1, WokenStays DEF WaitServed
<1>6. ASSUME NEW c \in Tasks \cup {None}, NEW e \in Events, NEW new \in SUBSET Bits,
             EventWriting(c, e, new)
      PROVE  SameWoken /\ UNCHANGED <<queue, store, out>>
  <2>1. ServedIn(e, ServedBy(e, new), c) /\ UNCHANGED <<queue, store, out, request>>
    BY <1>6, EventWritingKeeps DEF EventWriting, queueVars
  <2>2. \A t \in ServedBy(e, new) : request[t] = NoRequest
    <3> TAKE t \in ServedBy(e, new)
    <3>1. t \in Range(lists[e])
      BY DEF ServedBy
    <3>2. t \in Tasks /\ wanted[t].event = e
      BY <1>i, <3>1, ListsOfQueues, TaskTypes DEF IpcInv, EventWaiters
    <3>3. wanted[t] # NotWanting
      BY <3>2, EventAssumption DEF NotWanting
    <3> QED BY <3>2, <3>3 DEF IpcInv, Asking
  <2> QED BY <2>1, <2>2, WokenStays DEF ServedIn, WaitServed
<1> QED BY <1>1, <1>2, <1>3, <1>4, <1>5, <1>6

LEMMA NextSlots ==
  /\ TimesliceTimeout = 0 /\ "delete" \notin Calls
  /\ IpcInv /\ Slots /\ [IpcNext]_vars
  => Slots'
<1> SUFFICES ASSUME TimesliceTimeout = 0, "delete" \notin Calls,
                    IpcInv, Slots, [IpcNext]_vars
             PROVE  Slots'
  OBVIOUS
<1>1. CASE SchedulerStep
  BY <1>1, SchedulerWoken, SchedulerKeeps, SlotsStay
<1> QED BY <1>1, Kinds, OtherWoken, SlotsStay, QueueMadeSlots, ReadingSlots, WritingSlots

LEMMA AlwaysSlots ==
  ASSUME TimesliceTimeout = 0, "delete" \notin Calls
  PROVE  IpcSpec => [](IpcInv /\ Slots)
<1>1. IpcInit => IpcInv /\ Slots
  BY InitIpc, InitSlots
<1>2. IpcInv /\ Slots /\ [IpcNext]_vars => IpcInv' /\ Slots'
  BY NextIpc, NextSlots
<1> QED BY <1>1, <1>2, PTL DEF IpcSpec

\* The index i, which may have run over the end, comes round.
LEMMA Wraps ==
  ASSUME NEW n \in Nat \ {0}, NEW i \in 0 .. 2 * n - 1
  PROVE  i % n = IF i < n THEN i ELSE i - n
<1>1. CASE i < n
  <2>1. i \in 0 .. n - 1
    BY <1>1
  <2>2. \A k \in Nat : \A x \in 0 .. k - 1 : k > 0 => x % k = x
    OBVIOUS
  <2> QED BY <1>1, <2>1, <2>2
<1>2. CASE ~(i < n)
  <2>1. i \in n .. 2 * n - 1
    BY <1>2
  <2>2. \A k \in Nat : \A x \in k .. 2 * k - 1 : k > 0 => x % k = x - k
    OBVIOUS
  <2> QED BY <1>2, <2>1, <2>2
<1> QED BY <1>1, <1>2

\* No slot of a queue is lost or used twice, though each wake-up keeps one for
\* the task that was woken: with no time slice, and as long as no task is
\* deleted, the readable and the writable ones and those that are kept are all
\* the queue has, and the tail is as far from the head as there are messages.
THEOREM SlotsConserved ==
  ASSUME TimesliceTimeout = 0, "delete" \notin Calls
  PROVE  IpcSpec => []SlotsAddUp
<1>1. IpcInv /\ Slots => SlotsAddUp
  <2> SUFFICES ASSUME IpcInv, Slots, NEW q \in Queues
               PROVE  /\ Held(q) + queue[q].writable + Cardinality(Woken(q, "write"))
                           = queue[q].length
                      /\ queue[q].length > 0 =>
                           (queue[q].head + Held(q)) % queue[q].length = queue[q].tail
    BY DEF SlotsAddUp
  <2>1. PICK len \in Nat, hd \in Nat, w \in Nat, nw \in Nat, rd \in Nat, nr \in Nat :
          /\ len = queue[q].length /\ hd = queue[q].head /\ w = queue[q].writable
          /\ nw = Cardinality(Woken(q, "write")) /\ rd = queue[q].readable
          /\ nr = Cardinality(Woken(q, "read"))
    BY WokenCount DEF IpcInv, IpcTypeOK, QueueRecord
  <2>2. Counted(q)
    BY DEF Slots
  <2>h. PICK h \in Nat : h = Held(q)
    BY <2>1 DEF Held
  <2>3. h + w + nw = len
    BY <2>1, <2>2, <2>h DEF Counted
  <2>4. ASSUME len > 0 PROVE (hd + h) % len = queue[q].tail
    <3>1. hd < len /\ queue[q].tail = IF hd + h < len THEN hd + h ELSE hd + h - len
      BY <2>1, <2>2, <2>4, <2>h DEF Counted
    <3>2. hd + h \in 0 .. 2 * len - 1
      BY <2>3, <3>1
    <3> QED BY <2>4, <3>1, <3>2, Wraps
  <2> QED BY <2>1, <2>3, <2>4, <2>h
<1> QED BY <1>1, AlwaysSlots, PTL

-----------------------------------------------------------------------------
(***************************************************************************)
(* The queues implement FifoSpec.                                          *)
(***************************************************************************)
LengthOf == [q \in Queues |-> queue[q].length]

\* What lies in the h slots from hd of the ring f of len slots.
Ring(f, len, hd, h) == [i \in 1 .. h |-> f[(hd + i - 1) % len]]

\* An index that may have run over the end.
Wrap(i, len) == IF i < len THEN i ELSE i - len

MsgsIn(q) == Ring(store[q], queue[q].length, queue[q].head, Held(q))

MsgsOf == [q \in Queues |-> MsgsIn(q)]

LEMMA SameMsgs ==
  ASSUME NEW q, queue'[q] = queue[q], store'[q] = store[q], Held(q)' = Held(q)
  PROVE  MsgsIn(q)' = MsgsIn(q)
BY DEF MsgsIn

LEMMA NoMsgs ==
  ASSUME NEW q, Held(q)' = 0
  PROVE  MsgsIn(q)' = <<>>
<1>1. MsgsIn(q)' = [i \in 1 .. 0 |-> store'[q][(queue'[q].head + i - 1) % queue'[q].length]]
  BY DEF MsgsIn, Ring
<1> QED BY <1>1

IsRing(S, f, len, hd, h) ==
  len \in Nat /\ hd \in 0 .. len - 1 /\ h \in 0 .. len /\ f \in [0 .. len - 1 -> S]

LEMMA MsgsFacts ==
  ASSUME NEW S, NEW f, NEW len, NEW hd, NEW h, IsRing(S, f, len, hd, h),
         NEW u, u = Ring(f, len, hd, h)
  PROVE  /\ u \in Seq(S) /\ Len(u) = h
         /\ \A i \in 1 .. h :
              u[i] = f[Wrap(hd + i - 1, len)]
<1>1. /\ len > 0 /\ len \in Nat \ {0} /\ hd \in 0 .. len - 1 /\ h \in 0 .. len
      /\ f \in [0 .. len - 1 -> S] /\ u = [i \in 1 .. h |-> f[(hd + i - 1) % len]]
  BY DEF IsRing, Ring
<1>2. ASSUME NEW i \in 1 .. h
      PROVE  /\ (hd + i - 1) % len = Wrap(hd + i - 1, len)
             /\ (hd + i - 1) % len \in 0 .. len - 1
  <2>1. hd + i - 1 \in 0 .. 2 * len - 1
    BY <1>1, <1>2
  <2>2. (hd + i - 1) % len = Wrap(hd + i - 1, len)
    BY <1>1, <1>2, <2>1, Wraps DEF Wrap
  <2>3. Wrap(hd + i - 1, len) \in 0 .. len - 1
    BY <1>1, <1>2 DEF Wrap
  <2>4. (hd + i - 1) % len \in 0 .. len - 1
    BY <2>2, <2>3
  <2> QED BY <2>2, <2>4
<1>3. \A i \in 1 .. h : /\ u[i] = f[(hd + i - 1) % len]
                       /\ u[i] \in S
  BY <1>1, <1>2
<1>4. u \in [1 .. h -> S] /\ h \in Nat
  BY <1>1, <1>3
<1>5. u \in Seq(S) /\ Len(u) = h
  BY <1>4
<1> QED BY <1>2, <1>3, <1>5

\* The ring (g, hd2, h2) is (f, hd, h) after a read, and after a write of x.
RingRead(S, f, len, hd, h, g, hd2, h2) ==
  /\ h > 0
  /\ h2 = h - 1
  /\ hd2 = IF hd + 1 < len THEN hd + 1 ELSE 0
  /\ \E x \in S : g = [f EXCEPT ![hd] = x]

RingWrite(f, len, hd, h, x, g, h2) ==
  /\ h < len
  /\ h2 = h + 1
  /\ g = [f EXCEPT ![Wrap(hd + h, len)] = x]

LEMMA ReadMsgs ==
  ASSUME NEW S, NEW f, NEW len, NEW hd, NEW h, IsRing(S, f, len, hd, h),
         NEW u, u = Ring(f, len, hd, h),
         NEW g, NEW hd2, NEW h2, RingRead(S, f, len, hd, h, g, hd2, h2),
         NEW v, v = Ring(g, len, hd2, h2)
  PROVE  u # <<>> /\ v = Tail(u) /\ Head(u) = f[hd]
<1>0. /\ len \in Nat /\ hd \in 0 .. len - 1 /\ h \in 1 .. len
      /\ f \in [0 .. len - 1 -> S]
  BY DEF IsRing, RingRead
<1>1. /\ u \in Seq(S) /\ Len(u) = h
      /\ \A i \in 1 .. h :
           u[i] = f[Wrap(hd + i - 1, len)]
  BY MsgsFacts
<1>2. /\ g \in [0 .. len - 1 -> S] /\ hd2 \in 0 .. len - 1 /\ h2 \in 0 .. len /\ h2 = h - 1
      /\ hd2 = IF hd + 1 < len THEN hd + 1 ELSE 0
      /\ \A y \in 0 .. len - 1 : y # hd => g[y] = f[y]
  BY <1>0 DEF RingRead
<1>3. /\ v \in Seq(S) /\ Len(v) = h2
      /\ \A i \in 1 .. h2 :
           v[i] = g[Wrap(hd2 + i - 1, len)]
  <2>1. IsRing(S, g, len, hd2, h2)
    BY <1>0, <1>2 DEF IsRing
  <2> QED BY <2>1, MsgsFacts
<1>4. u # <<>> /\ Head(u) = u[1] /\ u[1] = f[hd]
  <2>1. 1 \in 1 .. h /\ hd + 1 - 1 = hd /\ hd < len /\ Len(u) # 0
    BY <1>0, <1>1
  <2>2. u[1] = f[hd]
    BY <1>1, <2>1 DEF Wrap
  <2>3. u # <<>>
    BY <2>1
  <2> QED BY <2>2, <2>3
<1>5. /\ Tail(u) \in Seq(S) /\ Len(Tail(u)) = h2
      /\ \A i \in 1 .. h2 : Tail(u)[i] = u[i + 1]
  <2>1. /\ Tail(u) \in Seq(S) /\ Len(Tail(u)) = Len(u) - 1
        /\ \A i \in 1 .. Len(u) - 1 : Tail(u)[i] = u[i + 1]
    BY <1>1, <1>4, HeadTailProperties
  <2>2. Len(u) - 1 = h2
    BY <1>1, <1>2
  <2> QED BY <2>1, <2>2
<1>6. ASSUME NEW i \in 1 .. h2 PROVE v[i] = Tail(u)[i]
  <2>0. Wrap(hd2 + i - 1, len) \in 0 .. len - 1
    <3>1. hd2 \in 0 .. len - 1 /\ i \in 1 .. len
      BY <1>0, <1>2, <1>6
    <3> QED BY <1>0, <3>1 DEF Wrap
  <2>1. PICK y \in 0 .. len - 1 : y = Wrap(hd2 + i - 1, len)
    BY <2>0
  <2>2. y = Wrap(hd + (i + 1) - 1, len)
    <3>1. CASE hd + 1 < len
      BY <1>0, <1>2, <1>6, <2>1, <3>1 DEF Wrap
    <3>2. CASE ~(hd + 1 < len)
      BY <1>0, <1>2, <1>6, <2>1, <3>2 DEF Wrap
    <3> QED BY <3>1, <3>2
  <2>3. y # hd
    BY <1>0, <1>2, <1>6, <2>2 DEF Wrap
  <2>4. i + 1 \in 1 .. h
    BY <1>0, <1>2, <1>6
  <2>5. v[i] = f[y]
    BY <1>2, <1>3, <1>6, <2>1, <2>3
  <2>6. u[i + 1] = f[y]
    BY <1>1, <2>2, <2>4
  <2> QED BY <1>5, <1>6, <2>5, <2>6
<1>7. v = Tail(u)
  BY <1>3, <1>5, <1>6, SeqEqual
<1> QED BY <1>4, <1>7

LEMMA WriteMsgs ==
  ASSUME NEW S, NEW f, NEW len, NEW hd, NEW h, IsRing(S, f, len, hd, h),
         NEW u, u = Ring(f, len, hd, h), NEW x \in S,
         NEW g, NEW h2, RingWrite(f, len, hd, h, x, g, h2),
         NEW v, v = Ring(g, len, hd, h2)
  PROVE  Len(u) = h /\ v = Append(u, x)
<1>t. PICK tl : tl = Wrap(hd + h, len)
  OBVIOUS
<1>0. /\ len \in Nat /\ hd \in 0 .. len - 1 /\ h \in 0 .. len
      /\ h2 \in 0 .. len /\ h2 = h + 1 /\ f \in [0 .. len - 1 -> S]
      /\ tl \in 0 .. len - 1 /\ tl = (IF hd + h < len THEN hd + h ELSE hd + h - len)
  BY <1>t DEF IsRing, RingWrite, Wrap
<1>1. /\ u \in Seq(S) /\ Len(u) = h
      /\ \A i \in 1 .. h :
           u[i] = f[Wrap(hd + i - 1, len)]
  BY MsgsFacts
<1>2. /\ g \in [0 .. len - 1 -> S] /\ g[tl] = x
      /\ \A y \in 0 .. len - 1 : y # tl => g[y] = f[y]
  BY <1>0, <1>t DEF RingWrite
<1>3. /\ v \in Seq(S) /\ Len(v) = h2
      /\ \A i \in 1 .. h2 :
           v[i] = g[Wrap(hd + i - 1, len)]
  <2>1. IsRing(S, g, len, hd, h2)
    BY <1>0, <1>2 DEF IsRing
  <2> QED BY <2>1, MsgsFacts
<1>4. /\ Append(u, x) \in Seq(S) /\ Len(Append(u, x)) = h2
      /\ \A i \in 1 .. h : Append(u, x)[i] = u[i]
      /\ Append(u, x)[h2] = x
  <2>1. /\ Append(u, x) \in Seq(S) /\ Len(Append(u, x)) = Len(u) + 1
        /\ \A i \in 1 .. Len(u) : Append(u, x)[i] = u[i]
        /\ Append(u, x)[Len(u) + 1] = x
    BY <1>1, AppendProperties
  <2>2. Len(u) + 1 = h2
    BY <1>0, <1>1
  <2> QED BY <1>1, <2>1, <2>2
<1>5. ASSUME NEW i \in 1 .. h2 PROVE v[i] = Append(u, x)[i]
  <2>0. Wrap(hd + i - 1, len) \in 0 .. len - 1
    <3>1. i \in 1 .. len
      BY <1>0, <1>5
    <3> QED BY <1>0, <3>1 DEF Wrap
  <2>1. PICK y \in 0 .. len - 1 : y = Wrap(hd + i - 1, len)
    BY <2>0
  <2>2. v[i] = g[y]
    BY <1>3, <1>5, <2>1
  <2>3. CASE i = h2
    <3>1. y = tl
      BY <1>0, <2>1, <2>3 DEF Wrap
    <3> QED BY <1>2, <1>4, <2>2, <2>3, <3>1
  <2>4. CASE i # h2
    <3>1. i \in 1 .. h
      BY <1>0, <1>5, <2>4
    <3>2. y # tl
      BY <1>0, <2>1, <3>1 DEF Wrap
    <3>3. g[y] = f[y]
      BY <1>2, <3>2
    <3>4. u[i] = f[y]
      BY <1>1, <2>1, <3>1
    <3> QED BY <1>4, <2>2, <3>1, <3>3, <3>4
  <2> QED BY <2>3, <2>4
<1>6. v = Append(u, x)
  BY <1>3, <1>4, <1>5, SeqEqual
<1> QED BY <1>1, <1>6

LEMMA FifoRead ==
  ASSUME IpcInv, Slots, NEW q \in Queues, NEW c \in Tasks \cup {None}, NEW used \in {0, 1},
         Reading(c, q, used)
  PROVE  Fifo!Read(q)
<1>s. /\ \A r \in Queues \ {q} : /\ Held(r)' = Held(r) /\ queue'[r] = queue[r]
                                 /\ store'[r] = store[r]
      /\ Held(q) \in 1 .. queue[q].length /\ Held(q)' = Held(q) - 1
      /\ queue[q].head \in 0 .. queue[q].length - 1
      /\ queue'[q].length = queue[q].length
      /\ queue'[q].head = After(q, queue[q].head)
      /\ store'[q] = [store[q] EXCEPT ![queue[q].head] = None]
      /\ out' = store[q][queue[q].head]
  BY ReadingSlots
<1>n. PICK len, hd, h, f :
        /\ len \in Nat /\ len = queue[q].length /\ hd = queue[q].head /\ h = Held(q)
        /\ f = store[q]
  BY DEF IpcInv, IpcTypeOK, QueueRecord
<1>1. f \in [0 .. len - 1 -> Messages \cup {None}] /\ hd \in 0 .. len - 1 /\ h \in 1 .. len
  BY <1>n, <1>s DEF Slots, Counted
<1>g. PICK g, hd2 : g = [f EXCEPT ![hd] = None] /\ hd2 = IF hd + 1 < len THEN hd + 1 ELSE 0
  OBVIOUS
<1>a. After(q, hd) = hd2
  BY <1>1, <1>g, <1>n, AfterFacts
<1>u. PICK u : u = Ring(f, len, hd, h)
  OBVIOUS
<1>h. PICK h2 : h2 = h - 1
  OBVIOUS
<1>v. PICK v : v = Ring(g, len, hd2, h2)
  OBVIOUS
<1>2. MsgsIn(q) = u
  BY <1>n, <1>u DEF MsgsIn
<1>3. MsgsIn(q)' = v
  <2>1. Held(q)' = h2 /\ store'[q] = g /\ queue'[q].head = hd2 /\ queue'[q].length = len
    BY <1>a, <1>g, <1>h, <1>n, <1>s
  <2> QED BY <1>v, <2>1 DEF MsgsIn
<1>4. u # <<>> /\ v = Tail(u) /\ Head(u) = f[hd]
  <2>1. IsRing(Messages \cup {None}, f, len, hd, h)
    BY <1>1, <1>n DEF IsRing
  <2>2. RingRead(Messages \cup {None}, f, len, hd, h, g, hd2, h2)
    <3>1. \E x \in Messages \cup {None} : g = [f EXCEPT ![hd] = x]
      BY <1>g
    <3>2. h > 0 /\ h2 = h - 1 /\ hd2 = IF hd + 1 < len THEN hd + 1 ELSE 0
      BY <1>1, <1>g, <1>h
    <3> QED BY <3>1, <3>2 DEF RingRead
  <2> QED BY <1>u, <1>v, <2>1, <2>2, ReadMsgs
<1>5. \A r \in Queues \ {q} : MsgsIn(r)' = MsgsIn(r)
  BY <1>s, SameMsgs
<1>6. MsgsOf' = [MsgsOf EXCEPT ![q] = Tail(@)]
  BY <1>2, <1>3, <1>4, <1>5 DEF MsgsOf
<1>7. LengthOf' = LengthOf
  BY <1>s DEF LengthOf
<1>8. MsgsOf[q] # <<>> /\ out' = Head(MsgsOf[q])
  BY <1>2, <1>4, <1>n, <1>s DEF MsgsOf
<1> QED BY <1>6, <1>7, <1>8 DEF Fifo!Read, MsgsOf, MsgsIn, Ring, LengthOf

LEMMA FifoWrite ==
  ASSUME IpcInv, Slots, NEW q \in Queues, NEW c \in Tasks \cup {None}, NEW m \in Messages,
         NEW used \in {0, 1}, Writing(c, q, m, used)
  PROVE  Fifo!Write(q, m)
<1>s. /\ \A r \in Queues \ {q} : /\ Held(r)' = Held(r) /\ queue'[r] = queue[r]
                                 /\ store'[r] = store[r]
      /\ Held(q) \in 0 .. queue[q].length - 1
      /\ Held(q)' = Held(q) + 1
      /\ queue[q].head \in 0 .. queue[q].length - 1
      /\ queue'[q].length = queue[q].length
      /\ queue'[q].head = queue[q].head
      /\ store'[q] = Stored(q, m)
      /\ out' = out
  BY WritingSlots
<1>n. PICK len, hd, h, f, tl :
        /\ len \in Nat /\ len = queue[q].length /\ hd = queue[q].head /\ h = Held(q)
        /\ f = store[q]
        /\ tl = queue[q].tail
  BY DEF IpcInv, IpcTypeOK, QueueRecord
<1>1. /\ f \in [0 .. len - 1 -> Messages \cup {None}] /\ hd \in 0 .. len - 1
      /\ h \in 0 .. len - 1 /\ tl = IF hd + h < len THEN hd + h ELSE hd + h - len
  BY <1>n, <1>s DEF Slots, Counted
<1>g. PICK g : g = [f EXCEPT ![tl] = m]
  OBVIOUS
<1>u. PICK u : u = Ring(f, len, hd, h)
  OBVIOUS
<1>h. PICK h2 : h2 = h + 1
  OBVIOUS
<1>v. PICK v : v = Ring(g, len, hd, h2)
  OBVIOUS
<1>2. MsgsIn(q) = u
  BY <1>n, <1>u DEF MsgsIn
<1>3. MsgsIn(q)' = v
  <2>1. Held(q)' = h2 /\ store'[q] = g /\ queue'[q].head = hd /\ queue'[q].length = len
    BY <1>g, <1>h, <1>n, <1>s DEF Stored
  <2> QED BY <1>v, <2>1 DEF MsgsIn
<1>4. Len(u) = h /\ v = Append(u, m)
  <2>1. PICK S : S = Messages \cup {None}
    OBVIOUS
  <2>2. IsRing(S, f, len, hd, h) /\ m \in S
    BY <1>1, <1>n, <2>1 DEF IsRing
  <2>3. RingWrite(f, len, hd, h, m, g, h2)
    <3>1. tl = Wrap(hd + h, len)
      BY <1>1, <1>n DEF Wrap
    <3>2. h < len
      BY <1>1, <1>n
    <3> QED BY <1>g, <1>h, <3>1, <3>2 DEF RingWrite
  <2> QED BY <1>u, <1>v, <2>2, <2>3, WriteMsgs
<1>5. \A r \in Queues \ {q} : MsgsIn(r)' = MsgsIn(r)
  BY <1>s, SameMsgs
<1>6. MsgsOf' = [MsgsOf EXCEPT ![q] = Append(@, m)]
  BY <1>2, <1>3, <1>4, <1>5 DEF MsgsOf
<1>7. LengthOf' = LengthOf /\ out' = out
  BY <1>s DEF LengthOf
<1>8. Len(MsgsOf[q]) < LengthOf[q]
  <2>1. h < len
    BY <1>1, <1>n
  <2> QED BY <1>2, <1>4, <1>n, <2>1 DEF MsgsOf, LengthOf
<1> QED BY <1>6, <1>7, <1>8 DEF Fifo!Write, MsgsOf, MsgsIn, Ring, LengthOf

LEMMA FifoMade ==
  ASSUME TimesliceTimeout = 0, IpcInv, Slots, NEW q \in Queues, QueueMade(q)
  PROVE  Fifo!Next
<1>s. /\ \A r \in Queues : Held(r)' = (IF r = q THEN 0 ELSE Held(r))
      /\ \A r \in Queues \ {q} : queue'[r] = queue[r] /\ store'[r] = store[r]
      /\ \/ \E n \in Lengths : queue[q].length = 0 /\ queue'[q].length = n /\ Held(q) = 0
         \/ queue'[q].length = 0 /\ queue[q].length > 0
      /\ out' = out
  BY QueueMadeSlots
<1>1. \A r \in Queues \ {q} : MsgsIn(r)' = MsgsIn(r)
  BY <1>s, SameMsgs
<1>2. MsgsIn(q)' = <<>>
  BY <1>s, NoMsgs
<1>3. CASE \E n \in Lengths : queue[q].length = 0 /\ queue'[q].length = n /\ Held(q) = 0
  <2>1. PICK n \in Lengths : queue[q].length = 0 /\ queue'[q].length = n /\ Held(q) = 0
    BY <1>3
  <2>2. MsgsIn(q) = <<>>
    BY <2>1 DEF MsgsIn, Ring
  <2>3. MsgsOf' = MsgsOf
    BY <1>1, <1>2, <2>2 DEF MsgsOf
  <2>4. LengthOf' = [LengthOf EXCEPT ![q] = n] /\ LengthOf[q] = 0
    BY <1>s, <2>1 DEF LengthOf
  <2>5. Fifo!Create(q, n)
    BY <1>s, <2>3, <2>4 DEF Fifo!Create, MsgsOf, MsgsIn, Ring, LengthOf
  <2> QED BY <2>5 DEF Fifo!Next
<1>4. CASE queue'[q].length = 0 /\ queue[q].length > 0
  <2>1. MsgsOf' = [MsgsOf EXCEPT ![q] = <<>>]
    BY <1>1, <1>2 DEF MsgsOf
  <2>2. LengthOf' = [LengthOf EXCEPT ![q] = 0] /\ LengthOf[q] > 0
    BY <1>4, <1>s DEF LengthOf
  <2>3. Fifo!Delete(q)
    BY <1>s, <2>1, <2>2 DEF Fifo!Delete, MsgsOf, MsgsIn, Ring, LengthOf
  <2> QED BY <2>3 DEF Fifo!Next
<1> QED BY <1>3, <1>4, <1>s

LEMMA FifoStutters ==
  ASSUME Slots, SameWoken, UNCHANGED <<queue, store, out>>
  PROVE  UNCHANGED Fifo!vars
<1>1. \A q \in Queues : MsgsIn(q)' = MsgsIn(q)
  BY SlotsStay, SameMsgs
<1>2. MsgsOf' = MsgsOf
  BY <1>1 DEF MsgsOf
<1>3. LengthOf' = LengthOf
  BY DEF LengthOf
<1> QED BY <1>2, <1>3 DEF Fifo!vars, MsgsOf, MsgsIn, Ring, LengthOf

LEMMA FifoStep ==
  /\ TimesliceTimeout = 0 /\ "delete" \notin Calls
  /\ IpcInv /\ Slots /\ [IpcNext]_vars
  => [Fifo!Next]_(Fifo!vars)
<1> SUFFICES ASSUME TimesliceTimeout = 0, "delete" \notin Calls,
                    IpcInv, Slots, [IpcNext]_vars
             PROVE  Fifo!Next \/ UNCHANGED Fifo!vars
  OBVIOUS
<1>1. CASE SchedulerStep
  <2>1. UNCHANGED <<queue, store, out>>
    BY <1>1 DEF SchedulerStep
  <2> QED BY <1>1, <2>1, SchedulerWoken, FifoStutters
<1>2. ASSUME NEW q \in Queues, NEW c \in Tasks \cup {None}, NEW used \in {0, 1},
             Reading(c, q, used)
      PROVE  Fifo!Next
  <2>1. Fifo!Read(q)
    BY <1>2, FifoRead
  <2> QED BY <2>1 DEF Fifo!Next
<1>3. ASSUME NEW q \in Queues, NEW c \in Tasks \cup {None}, NEW m \in Messages,
             NEW used \in {0, 1}, Writing(c, q, m, used)
      PROVE  Fifo!Next
  <2>1. Fifo!Write(q, m)
    BY <1>3, FifoWrite
  <2> QED BY <2>1 DEF Fifo!Next
<1> QED BY <1>1, <1>2, <1>3, Kinds, OtherWoken, FifoStutters, FifoMade

LEMMA FifoInit == IpcInit => Fifo!Init
<1> SUFFICES ASSUME IpcInit PROVE Fifo!Init
  OBVIOUS
<1>1. ASSUME NEW q \in Queues PROVE queue[q].length = 0 /\ Held(q) = 0
  <2>1. queue[q].length = 0 /\ queue[q].readable = 0
    BY DEF IpcInit, QueueInit, Unused
  <2>2. Woken(q, "read") = {}
    BY DEF IpcInit, QueueInit, NoRequest, Woken
  <2>3. Cardinality(Woken(q, "read")) = 0
    BY <2>2, FS_EmptySet
  <2> QED BY <2>1, <2>3 DEF Held
<1>2. LengthOf = [q \in Queues |-> 0]
  BY <1>1 DEF LengthOf
<1>3. \A q \in Queues : MsgsIn(q) = <<>>
  BY <1>1 DEF MsgsIn, Ring
<1>4. MsgsOf = [q \in Queues |-> <<>>]
  BY <1>3 DEF MsgsOf
<1>5. out = None
  BY DEF IpcInit, QueueInit
<1> QED BY <1>2, <1>4, <1>5 DEF Fifo!Init, MsgsOf, MsgsIn, Ring, LengthOf

\* Whoever waits, is served and overtakes whom, the queues are bounded first-in
\* first-out buffers: with no time slice, and as long as no task is deleted,
\* every message is read once, in the order of the writes, and none is
\* overwritten before.
THEOREM QueuesImplemented ==
  ASSUME TimesliceTimeout = 0, "delete" \notin Calls
  PROVE  IpcSpec => ImplementsFifo
<1>1. IpcInv /\ Slots /\ [IpcNext]_vars => [Fifo!Next]_(Fifo!vars)
  BY FifoStep
<1> QED BY AlwaysSlots, FifoInit, <1>1, PTL DEF IpcSpec, ImplementsFifo, Fifo!Spec
=============================================================================
