--------------------------- MODULE MinHeapProofs ---------------------------
(***************************************************************************)
(* The heap of minheap-internal.h, of any size: what is pushed is in it,   *)
(* what is erased is not, nothing else comes or goes, and no event is      *)
(* above one with an earlier time.  Besides, what the proofs of EventLoop  *)
(* and Evbuffer take from here: numbers, queues that hold a set, and folds.*)
(***************************************************************************)
EXTENDS MinHeap, SequencesExt, FiniteSetTheorems, SequenceTheorems, WellFoundedInduction, TLAPS

LEMMA Least ==
  ASSUME NEW T, T \subseteq Nat, T # {}
  PROVE  \E m \in T : \A k \in T : m <= k
<1> DEFINE R == OpToRel(<, Nat)
<1>1. IsWellFoundedOn(R, Nat)
  BY NatLessThanWellFounded, Zenon
<1>2. R = {ss \in Nat \X Nat : ss[1] < ss[2]}
  BY DEF OpToRel
<1> HIDE DEF R
<1>3. PICK m \in T : \A k \in T : ~(<<k, m>> \in R)
  BY <1>1, WFMin
<1>4. \A k \in T : k < m => <<k, m>> \in R
  BY <1>2
<1>5. \A k \in T : ~(k < m)
  BY <1>3, <1>4
<1>6. m \in Nat /\ \A k \in T : k \in Nat
  OBVIOUS
<1> QED
  BY <1>5, <1>6

\* Induction, for a set of numbers.
LEMMA Induction ==
  ASSUME NEW S, 0 \in S, \A k \in Nat : k \in S => k + 1 \in S
  PROVE  \A k \in Nat : k \in S
<1> SUFFICES ASSUME Nat \ S # {} PROVE FALSE
  OBVIOUS
<1>1. PICK m \in Nat \ S : \A k \in Nat \ S : m <= k
  BY Least
<1>2. m - 1 \in Nat /\ (m - 1) + 1 = m /\ ~(m <= m - 1)
  BY <1>1
<1> QED
  BY <1>1, <1>2

-----------------------------------------------------------------------------
(* The heap, as an array of n events, of which the one at hole has yet to  *)
(* rise or to sink.                                                        *)

\* Each event of S is at one of the n places, and nothing else is.
Each(q, n, S) ==
  /\ q \in [1..n -> S]
  /\ \A x \in S : \E k \in 1..n : q[k] = x
  /\ \A j, k \in 1..n : q[j] = q[k] => j = k

Ordered(q, n, at) == \A k \in 2..n : at[q[k \div 2]] <= at[q[k]]

\* Only the event at hole may be earlier than the one above it, or later than
\* those below it.
Below(q, n, at, hole) ==
  \A k \in 2..n : k \div 2 = hole /\ hole > 1 => at[q[hole \div 2]] <= at[q[k]]
Rising(q, n, at, hole) ==
  /\ \A k \in 2..n : k # hole => at[q[k \div 2]] <= at[q[k]]
  /\ Below(q, n, at, hole)
Sinking(q, n, at, hole) ==
  /\ \A k \in 2..n : k \div 2 # hole => at[q[k \div 2]] <= at[q[k]]
  /\ Below(q, n, at, hole)

LEMMA Half ==
  ASSUME NEW k \in Nat, k >= 2
  PROVE  /\ k \div 2 \in Nat /\ k \div 2 >= 1 /\ k \div 2 < k
         /\ \A j \in Nat : k \div 2 = j <=> k = 2 * j \/ k = 2 * j + 1
OBVIOUS

\* Two events change places.
Swapped(q, i, j) == [q EXCEPT ![i] = q[j], ![j] = q[i]]

LEMMA SwapEach ==
  ASSUME NEW n \in Nat, NEW S, NEW q, Each(q, n, S), NEW i \in 1..n, NEW j \in 1..n, i # j
  PROVE  Each(Swapped(q, i, j), n, S)
<1> DEFINE r == Swapped(q, i, j)
<1>1. q \in [1..n -> S]
  BY DEF Each
<1>2. r \in [1..n -> S]
  BY <1>1 DEF Swapped
<1>3. \A k \in 1..n : r[k] = IF k = i THEN q[j] ELSE IF k = j THEN q[i] ELSE q[k]
  BY <1>1 DEF Swapped
<1> HIDE DEF r
<1>4. ASSUME NEW x \in S PROVE \E k \in 1..n : r[k] = x
  <2>1. PICK k \in 1..n : q[k] = x
    BY DEF Each
  <2>2. r[IF k = i THEN j ELSE IF k = j THEN i ELSE k] = x
    BY <1>3, <2>1
  <2> QED
    BY <2>2
<1>5. ASSUME NEW k \in 1..n, NEW l \in 1..n, r[k] = r[l] PROVE k = l
  BY <1>3, <1>5 DEF Each
<1> QED
  BY <1>2, <1>4, <1>5 DEF Each, r

\* An event that is early goes up.
LEMMA RiseStep ==
  ASSUME NEW D, NEW at \in [D -> Int], NEW n \in Nat, NEW q \in [1..n -> D],
         NEW hole \in 1..n, hole # 1, Rising(q, n, at, hole),
         ~(at[q[hole \div 2]] <= at[q[hole]])
  PROVE  Rising(Swapped(q, hole, hole \div 2), n, at, hole \div 2)
<1> DEFINE p == hole \div 2
           r == Swapped(q, hole, p)
<1>1. p \in 1..n /\ p < hole
  BY Half
<1>2. \A k \in 1..n : r[k] = IF k = hole THEN q[p] ELSE IF k = p THEN q[hole] ELSE q[k]
  BY <1>1 DEF Swapped
<1>3. \A k \in 1..n : at[q[k]] \in Int
  OBVIOUS
<1>4. \A k \in 2..n : /\ k \in 1..n /\ k \div 2 \in 1..n /\ k \div 2 < k
                      /\ k \div 2 = 1 => k > 1
  BY Half
<1>5. /\ \A k \in 2..n : k # hole => at[q[k \div 2]] <= at[q[k]]
      /\ \A k \in 2..n : k \div 2 = hole => at[q[p]] <= at[q[k]]
  BY DEF Rising, Below
<1>6. at[q[hole]] < at[q[p]]
  BY <1>1, <1>3
<1> HIDE DEF r
<1>7. ASSUME NEW k \in 2..n, k # p PROVE at[r[k \div 2]] <= at[r[k]]
  <2>1. CASE k = hole
    BY <2>1, <1>1, <1>2, <1>3, <1>6 DEF p
  <2>2. CASE k # hole /\ k \div 2 = hole
    BY <2>2, <1>2, <1>4, <1>5, <1>7
  <2>3. CASE k # hole /\ k \div 2 = p
    BY <2>3, <1>1, <1>2, <1>3, <1>4, <1>5, <1>6, <1>7
  <2>4. CASE k # hole /\ k \div 2 # hole /\ k \div 2 # p
    BY <2>4, <1>2, <1>4, <1>5, <1>7
  <2> QED
    BY <2>1, <2>2, <2>3, <2>4
<1>8. ASSUME NEW k \in 2..n, k \div 2 = p, p > 1 PROVE at[r[p \div 2]] <= at[r[k]]
  <2>1. p \in 2..n /\ p # hole
    BY <1>1, <1>8
  <2>2. p \div 2 \in 1..n /\ p \div 2 # p /\ p \div 2 # hole /\ at[q[p \div 2]] <= at[q[p]]
    BY <1>1, <1>4, <1>5, <2>1
  <2>3. r[p \div 2] = q[p \div 2]
    BY <1>2, <2>2
  <2>4. k # p
    BY <1>4, <1>8
  <2>5. CASE k = hole
    BY <2>5, <2>2, <2>3, <1>2
  <2>6. CASE k # hole
    <3>1. at[q[p]] <= at[q[k]] /\ r[k] = q[k]
      BY <2>4, <2>6, <1>2, <1>4, <1>5, <1>8
    <3> QED
      BY <3>1, <2>2, <2>3, <1>1, <1>3, <1>4
  <2> QED
    BY <2>5, <2>6
<1> QED
  BY <1>7, <1>8 DEF Rising, Below, r

LEMMA RiseEnd ==
  ASSUME NEW q, NEW n, NEW at, NEW hole, Rising(q, n, at, hole),
         hole = 1 \/ at[q[hole \div 2]] <= at[q[hole]]
  PROVE  Ordered(q, n, at)
BY DEF Rising, Ordered

\* One that is late goes down, in place of the earlier of the two below it.
LEMMA SinkStep ==
  ASSUME NEW D, NEW at \in [D -> Int], NEW n \in Nat, NEW q \in [1..n -> D],
         NEW hole \in 1..n, Sinking(q, n, at, hole),
         NEW m \in 1..n, m = 2 * hole \/ m = 2 * hole + 1,
         \A k \in 1..n : k = 2 * hole \/ k = 2 * hole + 1 => at[q[m]] <= at[q[k]],
         ~(at[q[hole]] <= at[q[m]])
  PROVE  Sinking(Swapped(q, hole, m), n, at, m)
<1> DEFINE r == Swapped(q, hole, m)
<1>1. m \in 2..n /\ m \div 2 = hole /\ hole < m
  BY Half
<1>2. \A k \in 1..n : r[k] = IF k = hole THEN q[m] ELSE IF k = m THEN q[hole] ELSE q[k]
  BY <1>1 DEF Swapped
<1>3. \A k \in 1..n : at[q[k]] \in Int
  OBVIOUS
<1>4. \A k \in 2..n : k \in 1..n /\ k \div 2 \in 1..n /\ k \div 2 < k
  BY Half
<1>5. /\ \A k \in 2..n : k \div 2 # hole => at[q[k \div 2]] <= at[q[k]]
      /\ \A k \in 2..n : k \div 2 = hole /\ hole > 1 => at[q[hole \div 2]] <= at[q[k]]
  BY DEF Sinking, Below
<1>6. at[q[m]] < at[q[hole]]
  BY <1>1, <1>3
<1>7. \A k \in 2..n : k \div 2 = hole => at[q[m]] <= at[q[k]]
  BY Half
<1> HIDE DEF r
<1>8. ASSUME NEW k \in 2..n, k \div 2 # m PROVE at[r[k \div 2]] <= at[r[k]]
  <2>1. CASE k = m
    BY <2>1, <1>1, <1>2, <1>3, <1>6
  <2>2. CASE k = hole
    <3>1. hole > 1 /\ hole \div 2 \in 1..n /\ hole \div 2 # hole /\ hole \div 2 # m
      BY <2>2, <1>1, <1>4
    <3>2. r[hole] = q[m] /\ r[hole \div 2] = q[hole \div 2]
      BY <3>1, <1>2
    <3> QED
      BY <2>2, <3>1, <3>2, <1>1, <1>5
  <2>3. CASE k # m /\ k # hole /\ k \div 2 = hole
    BY <2>3, <1>2, <1>4, <1>7
  <2>4. CASE k # m /\ k # hole /\ k \div 2 # hole
    BY <2>4, <1>2, <1>4, <1>5, <1>8
  <2> QED
    BY <2>1, <2>2, <2>3, <2>4
<1>9. ASSUME NEW k \in 2..n, k \div 2 = m PROVE at[r[m \div 2]] <= at[r[k]]
  <2>1. k # hole /\ k # m
    BY <1>1, <1>4, <1>9
  <2>2. r[k] = q[k] /\ r[m \div 2] = q[m] /\ at[q[k \div 2]] <= at[q[k]]
    BY <2>1, <1>1, <1>2, <1>4, <1>5, <1>9
  <2> QED
    BY <2>2, <1>9
<1> QED
  BY <1>8, <1>9 DEF Sinking, Below, r

LEMMA SinkEnd ==
  ASSUME NEW D, NEW at \in [D -> Int], NEW n \in Nat, NEW q \in [1..n -> D],
         NEW hole \in 1..n, Sinking(q, n, at, hole),
         \A k \in 1..n : k = 2 * hole \/ k = 2 * hole + 1 => at[q[hole]] <= at[q[k]]
  PROVE  Ordered(q, n, at)
<1>1. ASSUME NEW k \in 2..n PROVE at[q[k \div 2]] <= at[q[k]]
  <2>1. CASE k \div 2 = hole
    BY <2>1, Half
  <2>2. CASE k \div 2 # hole
    BY <2>2 DEF Sinking
  <2> QED
    BY <2>1, <2>2
<1> QED
  BY <1>1 DEF Ordered

-----------------------------------------------------------------------------
(* The loops.                                                              *)

\* An array that is filled at the hole, and is in order but for that event.
Risen(r, n, S, at) == Each(r, n, S) /\ Ordered(r, n, at)
Placed(h, hole, e) == [h EXCEPT ![hole] = e]
ToRise(h, hole, e, n, S, at) ==
  Each(Placed(h, hole, e), n, S) /\ Rising(Placed(h, hole, e), n, at, hole)
ToSink(h, hole, e, n, S, at) ==
  Each(Placed(h, hole, e), n, S) /\ Sinking(Placed(h, hole, e), n, at, hole)

\* What ShiftUp makes of the arrays with a hole, when above is what it makes of
\* those with the hole above it.
Lifted(above, hole, e, n, D, at) ==
  [h \in [1..n -> D] |->
     IF hole = 1 \/ at[h[hole \div 2]] <= at[e] THEN [h EXCEPT ![hole] = e]
     ELSE above[[h EXCEPT ![hole] = h[hole \div 2]]]]
Lifts(u, k, e, n, D, at) == u = [hole \in 1..k |-> Lifted(u[hole \div 2], hole, e, n, D, at)]

LEMMA LiftsExist ==
  ASSUME NEW n \in Nat, NEW e, NEW D, NEW at
  PROVE  \A k \in Nat : \E u : Lifts(u, k, e, n, D, at)
<1> DEFINE T == {k \in Nat : \E u : Lifts(u, k, e, n, D, at)}
<1>1. 0 \in T
  <2>1. Lifts([x \in {} |-> 0], 0, e, n, D, at)
    BY DEF Lifts
  <2> QED
    BY <2>1
<1>2. ASSUME NEW k \in Nat, k \in T PROVE k + 1 \in T
  <2>1. PICK u : Lifts(u, k, e, n, D, at)
    BY <1>2
  <2> DEFINE v == [x \in 1..k + 1 |->
                    IF x = k + 1 THEN Lifted(u[x \div 2], x, e, n, D, at) ELSE u[x]]
  <2>2. \A x \in 1..k : u[x] = Lifted(u[x \div 2], x, e, n, D, at)
    BY <2>1, Zenon DEF Lifts
  <2>3. \A x \in 1..k + 1 : v[x] = Lifted(u[x \div 2], x, e, n, D, at)
    BY <2>2
  <2>4. \A x \in 1..k : v[x] = u[x]
    OBVIOUS
  <2>5. v = [x \in 1..k + 1 |-> v[x]]
    OBVIOUS
  <2> HIDE DEF v
  <2>6. ASSUME NEW x \in 1..k + 1
        PROVE  Lifted(u[x \div 2], x, e, n, D, at) = Lifted(v[x \div 2], x, e, n, D, at)
    <3>1. CASE x = 1
      BY <3>1 DEF Lifted
    <3>2. CASE x # 1
      <4>1. x \div 2 \in 1..k
        BY <3>2, Half
      <4> QED
        BY <4>1, <2>4
    <3> QED
      BY <3>1, <3>2
  <2>7. \A x \in 1..k + 1 : v[x] = Lifted(v[x \div 2], x, e, n, D, at)
    BY <2>3, <2>6, Zenon
  <2>8. Lifts(v, k + 1, e, n, D, at)
    BY <2>5, <2>7, Zenon DEF Lifts
  <2> QED
    BY <2>8
<1> HIDE DEF T
<1>3. \A k \in Nat : k \in T
  BY <1>1, <1>2, Induction
<1> QED
  BY <1>3 DEF T

LEMMA LiftsRaise ==
  ASSUME NEW D, NEW at \in [D -> Int], NEW n \in Nat, NEW e \in D, NEW S \in SUBSET D,
         NEW u, Lifts(u, n, e, n, D, at)
  PROVE  \A hole \in 1..n : \A h \in [1..n -> D] :
           ToRise(h, hole, e, n, S, at) => Risen(u[hole][h], n, S, at)
<1> DEFINE P(x) == \A h \in [1..n -> D] :
                     ToRise(h, x, e, n, S, at) => Risen(u[x][h], n, S, at)
           T == {k \in Nat : \A x \in 1..n : x <= k => P(x)}
<1>1. 0 \in T
  OBVIOUS
<1>2. ASSUME NEW k \in Nat, k \in T, NEW hole \in 1..n, hole = k + 1,
             NEW h \in [1..n -> D], ToRise(h, hole, e, n, S, at)
      PROVE  Risen(u[hole][h], n, S, at)
  <2> DEFINE q == Placed(h, hole, e)
             p == hole \div 2
             g == [h EXCEPT ![hole] = h[p]]
  <2>1. q \in [1..n -> D] /\ q[hole] = e /\ \A j \in 1..n : j # hole => q[j] = h[j]
    BY DEF Placed
  <2>2. u[hole] = Lifted(u[p], hole, e, n, D, at)
    BY Zenon DEF Lifts
  <2>3. u[hole][h] = IF hole = 1 \/ at[h[p]] <= at[e] THEN q ELSE u[p][g]
    BY <2>2 DEF Lifted, Placed
  <2>4. Each(q, n, S) /\ Rising(q, n, at, hole)
    BY <1>2 DEF ToRise
  <2>5. hole # 1 => p \in 1..n /\ p # hole /\ p <= k
    BY <1>2, Half
  <2> HIDE DEF q, p
  <2>6. CASE hole = 1 \/ at[h[p]] <= at[e]
    <3>1. hole = 1 \/ at[q[hole \div 2]] <= at[q[hole]]
      BY <2>1, <2>5, <2>6 DEF p
    <3>2. Ordered(q, n, at)
      BY <2>4, <3>1, RiseEnd
    <3> QED
      BY <2>3, <2>4, <2>6, <3>2 DEF Risen
  <2>7. CASE ~(hole = 1 \/ at[h[p]] <= at[e])
    <3>1. Rising(Swapped(q, hole, p), n, at, p)
      BY <2>1, <2>4, <2>5, <2>7, RiseStep DEF p
    <3>2. Each(Swapped(q, hole, p), n, S)
      BY <2>4, <2>5, <2>7, SwapEach
    <3>3. g \in [1..n -> D]
      BY <2>5, <2>7
    <3>4. Placed(g, p, e) = Swapped(q, hole, p)
      <4>1. Placed(g, p, e) \in [1..n -> D] /\ Swapped(q, hole, p) \in [1..n -> D]
        BY <2>1, <2>5, <2>7, <3>3 DEF Placed, Swapped
      <4>2. \A j \in 1..n : Placed(g, p, e)[j] = Swapped(q, hole, p)[j]
        BY <2>1, <2>5, <2>7 DEF Placed, Swapped
      <4> HIDE DEF g
      <4> QED
        BY <4>1, <4>2
    <3>5. ToRise(g, p, e, n, S, at)
      BY <3>1, <3>2, <3>4 DEF ToRise
    <3>6. P(p)
      BY <1>2, <2>5, <2>7
    <3>7. Risen(u[p][g], n, S, at)
      BY <3>3, <3>5, <3>6
    <3> QED
      BY <2>3, <2>7, <3>7
  <2> QED
    BY <2>6, <2>7
<1>3. ASSUME NEW k \in Nat, k \in T PROVE k + 1 \in T
  <2>1. \A x \in 1..n : x <= k => P(x)
    BY <1>3
  <2>2. \A x \in 1..n : x = k + 1 => P(x)
    BY <1>2, <1>3
  <2> HIDE DEF P
  <2> QED
    BY <2>1, <2>2
<1> HIDE DEF T
<1>4. \A k \in Nat : k \in T
  BY <1>1, <1>3, Induction
<1>5. n \in T
  BY <1>4
<1> HIDE DEF P
<1>6. \A x \in 1..n : P(x)
  BY <1>5 DEF T
<1> QED
  BY <1>6 DEF P

\* The same for ShiftDown.
MinChild(h, hole, n, at) ==
  IF 2 * hole = n \/ at[h[2 * hole + 1]] > at[h[2 * hole]] THEN 2 * hole ELSE 2 * hole + 1
Dropped(u, hole, e, n, D, at) ==
  [h \in [1..n -> D] |->
     IF 2 * hole > n \/ at[e] <= at[h[MinChild(h, hole, n, at)]] THEN [h EXCEPT ![hole] = e]
     ELSE u[MinChild(h, hole, n, at)][[h EXCEPT ![hole] = h[MinChild(h, hole, n, at)]]]]
Drops(u, k, e, n, D, at) == u = [hole \in n - k + 1..n |-> Dropped(u, hole, e, n, D, at)]

LEMMA Children ==
  ASSUME NEW n \in Nat, NEW hole \in 1..n, NEW h, NEW at, 2 * hole <= n
  PROVE  /\ MinChild(h, hole, n, at) \in 1..n /\ MinChild(h, hole, n, at) > hole
         /\ MinChild(h, hole, n, at) = 2 * hole \/ MinChild(h, hole, n, at) = 2 * hole + 1
BY DEF MinChild

LEMMA DropsExist ==
  ASSUME NEW n \in Nat, NEW e, NEW D, NEW at
  PROVE  \E u : Drops(u, n, e, n, D, at)
<1> DEFINE T == {k \in Nat : k <= n => \E u : Drops(u, k, e, n, D, at)}
<1>1. 0 \in T
  <2>1. n - 0 + 1..n = {}
    OBVIOUS
  <2>2. Drops([x \in {} |-> 0], 0, e, n, D, at)
    BY <2>1 DEF Drops
  <2> QED
    BY <2>2
<1>2. ASSUME NEW k \in Nat, k \in T PROVE k + 1 \in T
  <2> SUFFICES ASSUME k + 1 <= n PROVE \E u : Drops(u, k + 1, e, n, D, at)
    OBVIOUS
  <2>1. PICK u : Drops(u, k, e, n, D, at)
    BY <1>2
  <2> DEFINE m == n - k
             v == [x \in m..n |-> IF x = m THEN Dropped(u, x, e, n, D, at) ELSE u[x]]
  <2>2. m \in 1..n /\ n - (k + 1) + 1 = m /\ n - k + 1 = m + 1
    OBVIOUS
  <2>3. u = [x \in m + 1..n |-> Dropped(u, x, e, n, D, at)]
    BY <2>1, <2>2 DEF Drops
  <2>4. \A x \in m + 1..n : u[x] = Dropped(u, x, e, n, D, at)
    BY <2>3, Zenon
  <2>5. \A x \in m..n : v[x] = Dropped(u, x, e, n, D, at)
    BY <2>2, <2>4
  <2>6. \A x \in m + 1..n : v[x] = u[x]
    BY <2>2
  <2>7. v = [x \in m..n |-> v[x]]
    OBVIOUS
  <2> HIDE DEF v, m
  <2>8. ASSUME NEW x \in m..n PROVE Dropped(u, x, e, n, D, at) = Dropped(v, x, e, n, D, at)
    <3>1. x \in 1..n
      BY <2>2
    <3>2. ASSUME NEW h \in [1..n -> D], 2 * x <= n
          PROVE  u[MinChild(h, x, n, at)] = v[MinChild(h, x, n, at)]
      <4>1. MinChild(h, x, n, at) \in 1..n /\ MinChild(h, x, n, at) > x
        BY <3>1, <3>2, Children
      <4>2. MinChild(h, x, n, at) \in m + 1..n
        BY <4>1, <2>2
      <4> QED
        BY <4>2, <2>6
    <3>3. \A h \in [1..n -> D] : Dropped(u, x, e, n, D, at)[h] = Dropped(v, x, e, n, D, at)[h]
      BY <3>1, <3>2 DEF Dropped
    <3> QED
      BY <3>3 DEF Dropped
  <2>9. \A x \in m..n : v[x] = Dropped(v, x, e, n, D, at)
    BY <2>5, <2>8, Zenon
  <2>10. v = [x \in m..n |-> Dropped(v, x, e, n, D, at)]
    BY <2>7, <2>9, Zenon
  <2>11. Drops(v, k + 1, e, n, D, at)
    BY <2>2, <2>10 DEF Drops
  <2> QED
    BY <2>11
<1> HIDE DEF T
<1>3. \A k \in Nat : k \in T
  BY <1>1, <1>2, Induction
<1> QED
  BY <1>3 DEF T

LEMMA DropsLower ==
  ASSUME NEW D, NEW at \in [D -> Int], NEW n \in Nat, NEW e \in D, NEW S \in SUBSET D,
         NEW u, Drops(u, n, e, n, D, at)
  PROVE  \A hole \in 1..n : \A h \in [1..n -> D] :
           ToSink(h, hole, e, n, S, at) => Risen(u[hole][h], n, S, at)
<1> DEFINE P(x) == \A h \in [1..n -> D] :
                     ToSink(h, x, e, n, S, at) => Risen(u[x][h], n, S, at)
           T == {k \in Nat : \A x \in 1..n : x > n - k => P(x)}
<1>1. 0 \in T
  OBVIOUS
<1>20. \A x \in 1..n : u[x] = Dropped(u, x, e, n, D, at)
  <2>1. n - n + 1 = 1
    OBVIOUS
  <2>2. u = [x \in 1..n |-> Dropped(u, x, e, n, D, at)]
    BY <2>1 DEF Drops
  <2> QED
    BY <2>2, Zenon
<1>2. ASSUME NEW k \in Nat, k \in T, NEW hole \in 1..n, hole = n - k,
             NEW h \in [1..n -> D], ToSink(h, hole, e, n, S, at)
      PROVE  Risen(u[hole][h], n, S, at)
  <2> DEFINE q == Placed(h, hole, e)
             m == MinChild(h, hole, n, at)
             g == [h EXCEPT ![hole] = h[m]]
  <2>1. q \in [1..n -> D] /\ q[hole] = e /\ \A j \in 1..n : j # hole => q[j] = h[j]
    BY DEF Placed
  <2>2. u[hole] = Dropped(u, hole, e, n, D, at)
    BY <1>20
  <2>3. u[hole][h] = IF 2 * hole > n \/ at[e] <= at[h[m]] THEN q ELSE u[m][g]
    BY <2>2 DEF Dropped, Placed
  <2>4. Each(q, n, S) /\ Sinking(q, n, at, hole)
    BY <1>2 DEF ToSink
  <2>5. 2 * hole <= n => m \in 1..n /\ m > hole /\ (m = 2 * hole \/ m = 2 * hole + 1)
    BY Children
  <2>6. 2 * hole <= n =>
          \A j \in 1..n : j = 2 * hole \/ j = 2 * hole + 1 => at[q[m]] <= at[q[j]]
    <3> SUFFICES ASSUME 2 * hole <= n, NEW j \in 1..n, j = 2 * hole \/ j = 2 * hole + 1
                 PROVE  at[q[m]] <= at[q[j]]
      OBVIOUS
    <3>1. q[m] = h[m] /\ q[j] = h[j]
      BY <2>1, <2>5
    <3>2. \A i \in 1..n : at[h[i]] \in Int
      OBVIOUS
    <3>3. at[h[m]] <= at[h[j]]
      <4>1. CASE 2 * hole = n
        BY <4>1, <3>2 DEF MinChild
      <4>2. CASE 2 * hole # n /\ at[h[2 * hole + 1]] > at[h[2 * hole]]
        <5>1. 2 * hole + 1 \in 1..n /\ 2 * hole \in 1..n /\ m = 2 * hole
          BY <4>2 DEF MinChild
        <5>2. at[h[2 * hole]] \in Int /\ at[h[2 * hole + 1]] \in Int
          BY <5>1, <3>2
        <5>3. at[h[m]] <= at[h[2 * hole]] /\ at[h[m]] <= at[h[2 * hole + 1]]
          BY <5>1, <5>2, <4>2
        <5> QED
          BY <5>3
      <4>3. CASE 2 * hole # n /\ ~(at[h[2 * hole + 1]] > at[h[2 * hole]])
        <5>1. 2 * hole + 1 \in 1..n /\ 2 * hole \in 1..n /\ m = 2 * hole + 1
          BY <4>3 DEF MinChild
        <5>2. at[h[2 * hole]] \in Int /\ at[h[2 * hole + 1]] \in Int
          BY <5>1, <3>2
        <5>3. at[h[m]] <= at[h[2 * hole]] /\ at[h[m]] <= at[h[2 * hole + 1]]
          BY <5>1, <5>2, <4>3
        <5> QED
          BY <5>3
      <4> QED
        BY <4>1, <4>2, <4>3
    <3> QED
      BY <3>1, <3>3
  <2> HIDE DEF q, m
  <2>7. CASE 2 * hole > n \/ at[e] <= at[h[m]]
    <3>1. \A j \in 1..n : j = 2 * hole \/ j = 2 * hole + 1 => at[q[hole]] <= at[q[j]]
      <4> SUFFICES ASSUME NEW j \in 1..n, j = 2 * hole \/ j = 2 * hole + 1
                   PROVE  at[q[hole]] <= at[q[j]]
        OBVIOUS
      <4>1. 2 * hole <= n
        OBVIOUS
      <4>2. at[q[hole]] <= at[q[m]] /\ at[q[m]] <= at[q[j]]
        BY <4>1, <2>1, <2>5, <2>6, <2>7
      <4>3. at[q[hole]] \in Int /\ at[q[m]] \in Int /\ at[q[j]] \in Int
        BY <4>1, <2>1, <2>5
      <4> QED
        BY <4>2, <4>3
    <3>2. Ordered(q, n, at)
      BY <2>1, <2>4, <3>1, SinkEnd
    <3> QED
      BY <2>3, <2>4, <2>7, <3>2 DEF Risen
  <2>8. CASE ~(2 * hole > n \/ at[e] <= at[h[m]])
    <3>0. 2 * hole <= n /\ m \in 1..n /\ m # hole /\ m > n - k
      BY <1>2, <2>5, <2>8
    <3>1. Sinking(Swapped(q, hole, m), n, at, m)
      <4>1. ~(at[q[hole]] <= at[q[m]])
        BY <2>1, <2>8, <3>0
      <4> QED
        BY <2>1, <2>4, <2>5, <2>6, <3>0, <4>1, SinkStep
    <3>2. Each(Swapped(q, hole, m), n, S)
      BY <2>4, <3>0, SwapEach
    <3>3. g \in [1..n -> D]
      BY <3>0
    <3>4. Placed(g, m, e) = Swapped(q, hole, m)
      <4>1. Placed(g, m, e) \in [1..n -> D] /\ Swapped(q, hole, m) \in [1..n -> D]
        BY <2>1, <3>0, <3>3 DEF Placed, Swapped
      <4>2. \A j \in 1..n : Placed(g, m, e)[j] = Swapped(q, hole, m)[j]
        BY <2>1, <3>0 DEF Placed, Swapped
      <4> HIDE DEF g
      <4> QED
        BY <4>1, <4>2
    <3>5. ToSink(g, m, e, n, S, at)
      BY <3>1, <3>2, <3>4 DEF ToSink
    <3>6. P(m)
      BY <1>2, <3>0
    <3>7. Risen(u[m][g], n, S, at)
      BY <3>3, <3>5, <3>6
    <3> QED
      BY <2>3, <2>8, <3>7
  <2> QED
    BY <2>7, <2>8
<1>3. ASSUME NEW k \in Nat, k \in T PROVE k + 1 \in T
  <2>1. \A x \in 1..n : x > n - k => P(x)
    BY <1>3
  <2>2. \A x \in 1..n : x = n - k => P(x)
    BY <1>2, <1>3
  <2> HIDE DEF P
  <2> QED
    BY <2>1, <2>2
<1> HIDE DEF T
<1>4. \A k \in Nat : k \in T
  BY <1>1, <1>3, Induction
<1>5. n \in T
  BY <1>4
<1> HIDE DEF P
<1>6. \A x \in 1..n : P(x)
  BY <1>5 DEF T
<1> QED
  BY <1>6 DEF P

-----------------------------------------------------------------------------
(* Sequences that hold the members of a set, each once.                    *)

Holds(q, S) == q \in Seq(S) /\ Each(q, Len(q), S)

LEMMA SeqIs ==
  ASSUME NEW S, NEW q \in Seq(S)
  PROVE  Len(q) \in Nat /\ DOMAIN q = 1..Len(q) /\ q \in [1..Len(q) -> S]
BY LenProperties

LEMMA ArrayIs ==
  ASSUME NEW S, NEW n \in Nat, NEW q \in [1..n -> S]
  PROVE  q \in Seq(S) /\ Len(q) = n
BY SeqDef, LenProperties

LEMMA RisenHeap ==
  ASSUME NEW S, NEW n \in Nat, NEW r, NEW at, Risen(r, n, S, at)
  PROVE  Holds(r, S) /\ IsHeap(r, at) /\ Len(r) = n
<1>1. r \in Seq(S) /\ Len(r) = n
  BY ArrayIs DEF Risen, Each
<1> QED
  BY <1>1 DEF Risen, Ordered, Holds, IsHeap

LEMMA ShiftedUp ==
  ASSUME NEW D, NEW at \in [D -> Int], NEW heap \in Seq(D), NEW i \in 1..Len(heap), NEW e \in D,
         NEW S \in SUBSET D, ToRise(heap, i, e, Len(heap), S, at)
  PROVE  LET r == ShiftUp(heap, i, e, at)
         IN Holds(r, S) /\ IsHeap(r, at) /\ Len(r) = Len(heap)
<1> DEFINE n == Len(heap)
           W(u) == u = [hole \in DOMAIN heap |-> [h \in [DOMAIN heap -> DOMAIN at] |->
                     IF hole = 1 \/ at[h[hole \div 2]] <= at[e] THEN [h EXCEPT ![hole] = e]
                     ELSE u[hole \div 2][[h EXCEPT ![hole] = h[hole \div 2]]]]]
           up == CHOOSE u : W(u)
<1>1. n \in Nat /\ DOMAIN heap = 1..n /\ heap \in [1..n -> D] /\ DOMAIN at = D
  BY SeqIs
<1>2. ShiftUp(heap, i, e, at) = up[i][heap]
  BY DEF ShiftUp
<1>3. \A u : W(u) <=> Lifts(u, n, e, n, D, at)
  BY <1>1 DEF Lifts, Lifted
<1> HIDE DEF n, W
<1>4. \E u : W(u)
  BY <1>1, <1>3, LiftsExist
<1>5. Lifts(up, n, e, n, D, at)
  BY <1>3, <1>4
<1> HIDE DEF up
<1>6. Risen(up[i][heap], n, S, at)
  BY <1>1, <1>5, LiftsRaise DEF n
<1> QED
  BY <1>1, <1>2, <1>6, RisenHeap DEF n

LEMMA ShiftedDown ==
  ASSUME NEW D, NEW at \in [D -> Int], NEW heap \in Seq(D), NEW i \in 1..Len(heap), NEW e \in D,
         NEW S \in SUBSET D, ToSink(heap, i, e, Len(heap), S, at)
  PROVE  LET r == ShiftDown(heap, i, e, at)
         IN Holds(r, S) /\ IsHeap(r, at) /\ Len(r) = Len(heap)
<1> DEFINE n == Len(heap)
           W(u) == u = [hole \in DOMAIN heap |-> [h \in [DOMAIN heap -> DOMAIN at] |->
                     LET left == 2 * hole
                         min_child == IF left = Len(heap) \/ at[h[left + 1]] > at[h[left]]
                                      THEN left ELSE left + 1
                     IN IF left > Len(heap) \/ at[e] <= at[h[min_child]]
                        THEN [h EXCEPT ![hole] = e]
                        ELSE u[min_child][[h EXCEPT ![hole] = h[min_child]]]]]
           down == CHOOSE u : W(u)
<1>1. n \in Nat /\ DOMAIN heap = 1..n /\ heap \in [1..n -> D] /\ DOMAIN at = D
  BY SeqIs
<1>2. ShiftDown(heap, i, e, at) = down[i][heap]
  BY DEF ShiftDown
<1>3. ASSUME NEW u PROVE W(u) <=> Drops(u, n, e, n, D, at)
  <2>1. n - n + 1 = 1
    BY <1>1
  <2>2. Drops(u, n, e, n, D, at) <=> u = [hole \in 1..n |-> Dropped(u, hole, e, n, D, at)]
    BY <2>1 DEF Drops
  <2>3. W(u) <=> u = [hole \in 1..n |-> Dropped(u, hole, e, n, D, at)]
    BY <1>1, Zenon DEF Dropped, MinChild
  <2> QED
    BY <2>2, <2>3
<1> HIDE DEF n, W
<1>4. \E u : W(u)
  BY <1>1, <1>3, DropsExist
<1>5. Drops(down, n, e, n, D, at)
  BY <1>3, <1>4
<1> HIDE DEF down
<1>6. Risen(down[i][heap], n, S, at)
  BY <1>1, <1>5, DropsLower DEF n
<1> QED
  BY <1>1, <1>2, <1>6, RisenHeap DEF n

LEMMA HoldsAppend ==
  ASSUME NEW S, NEW q, Holds(q, S), NEW x, x \notin S
  PROVE  Holds(Append(q, x), S \cup {x})
<1> DEFINE n == Len(q)
           r == Append(q, x)
           T == S \cup {x}
<1>1. n \in Nat /\ q \in [1..n -> S] /\ q \in Seq(T)
  BY SeqIs DEF Holds
<1>2. /\ r \in Seq(T) /\ Len(r) = n + 1 /\ r[n + 1] = x
      /\ \A k \in 1..n : r[k] = q[k]
  BY <1>1, AppendProperties
<1> HIDE DEF r, n
<1>3. \A k \in 1..n + 1 : k \in 1..n \/ k = n + 1
  BY <1>1
<1>4. r \in [1..n + 1 -> T]
  BY <1>2, SeqIs
<1>5. ASSUME NEW y \in T PROVE \E k \in 1..n + 1 : r[k] = y
  <2>1. CASE y = x
    BY <2>1, <1>1, <1>2
  <2>2. CASE y \in S
    <3>1. PICK k \in 1..n : q[k] = y
      BY <2>2 DEF Holds, Each, n
    <3> QED
      BY <3>1, <1>1, <1>2
  <2> QED
    BY <2>1, <2>2
<1>6. ASSUME NEW j \in 1..n + 1, NEW k \in 1..n + 1, r[j] = r[k] PROVE j = k
  <2>1. \A l \in 1..n : r[l] # x
    BY <1>1, <1>2
  <2> QED
    BY <1>3, <1>6, <2>1, <1>2 DEF Holds, Each, n
<1> QED
  BY <1>2, <1>4, <1>5, <1>6 DEF Holds, Each, r

\* min_heap_push_(): the new event joins those that were there.
THEOREM HeapPush ==
  ASSUME NEW D, NEW at \in [D -> Int], NEW S \in SUBSET D, NEW heap, Holds(heap, S),
         IsHeap(heap, at), NEW e \in D \ S
  PROVE  Holds(Push(heap, e, at), S \cup {e}) /\ IsHeap(Push(heap, e, at), at)
<1> DEFINE n == Len(heap)
           q == Append(heap, e)
           T == S \cup {e}
<1>1. n \in Nat /\ heap \in [1..n -> S] /\ heap \in Seq(D)
  BY SeqIs DEF Holds
<1>2. /\ q \in Seq(D) /\ Len(q) = n + 1 /\ q[n + 1] = e
      /\ \A k \in 1..n : q[k] = heap[k]
  BY <1>1, AppendProperties
<1>3. q \in [1..n + 1 -> D]
  BY <1>2, SeqIs
<1> HIDE DEF q
<1>4. Placed(q, n + 1, e) = q
  BY <1>1, <1>2, <1>3 DEF Placed
<1>5. Each(q, n + 1, T)
  <2>1. Holds(Append(heap, e), T)
    BY HoldsAppend
  <2> QED
    BY <2>1, <1>2 DEF Holds, q
<1>6. Rising(q, n + 1, at, n + 1)
  <2>1. ASSUME NEW k \in 2..n + 1, k # n + 1 PROVE at[q[k \div 2]] <= at[q[k]]
    <3>1. k \in 2..n /\ k \div 2 \in 1..n /\ k \in 1..n
      BY <1>1, <2>1, Half
    <3> QED
      BY <3>1, <1>2 DEF IsHeap
  <2>2. \A k \in 2..n + 1 : k \div 2 # n + 1
    BY <1>1, Half
  <2> QED
    BY <2>1, <2>2 DEF Rising, Below
<1>7. ToRise(q, n + 1, e, Len(q), T, at)
  BY <1>2, <1>4, <1>5, <1>6 DEF ToRise
<1>8. T \in SUBSET D /\ n + 1 \in 1..Len(q)
  BY <1>1, <1>2
<1>9. Push(heap, e, at) = ShiftUp(q, n + 1, e, at)
  BY DEF Push, q
<1> HIDE DEF n, T
<1>10. LET r == ShiftUp(q, n + 1, e, at) IN Holds(r, T) /\ IsHeap(r, at)
  BY <1>2, <1>7, <1>8, ShiftedUp
<1> QED
  BY <1>9, <1>10 DEF T

\* min_heap_erase_(): the event goes, the others stay.
THEOREM HeapErase ==
  ASSUME NEW D, NEW at \in [D -> Int], NEW S \in SUBSET D, NEW heap, Holds(heap, S),
         IsHeap(heap, at), NEW e \in S
  PROVE  Holds(Erase(heap, e, at), S \ {e}) /\ IsHeap(Erase(heap, e, at), at)
<1> DEFINE n == Len(heap)
           i == CHOOSE k \in DOMAIN heap : heap[k] = e
           last == heap[n]
           front == SubSeq(heap, 1, n - 1)
           q == Placed(front, i, last)
           T == S \ {e}
<1>1. n \in Nat /\ heap \in [1..n -> S] /\ heap \in Seq(D) /\ DOMAIN heap = 1..n
  BY SeqIs DEF Holds
<1>2. i \in 1..n /\ heap[i] = e
  BY <1>1 DEF Holds, Each
<1>3. n - 1 \in Nat /\ n \in 1..n /\ last \in S
  BY <1>1, <1>2
<1>4. /\ front \in Seq(D) /\ Len(front) = n - 1
      /\ \A k \in 1..n - 1 : front[k] = heap[k]
  <2>1. front \in Seq(D) /\ Len(front) = n - 1
    BY <1>1, <1>3, SubSeqProperties
  <2>2. \A k \in 1..n - 1 : front[k] = heap[k]
    BY <1>1, <1>3, SubSeqProperties
  <2> QED
    BY <2>1, <2>2
<1>5. Erase(heap, e, at) = IF i = n THEN front
                           ELSE IF i > 1 /\ at[heap[i \div 2]] > at[last]
                           THEN ShiftUp(front, i, last, at)
                           ELSE ShiftDown(front, i, last, at)
  BY DEF Erase
<1>6. \A j, k \in 1..n : heap[j] = heap[k] => j = k
  BY DEF Holds, Each
<1>7. \A x \in S : \E k \in 1..n : heap[k] = x
  BY DEF Holds, Each
<1>8. \A k \in 2..n : at[heap[k \div 2]] <= at[heap[k]]
  BY DEF IsHeap
<1>9. \A k \in 1..n : at[heap[k]] \in Int
  BY <1>1
<1> HIDE DEF i, last, front, n
<1>10. \A k \in 1..n - 1 : k \in 1..n /\ k # n
  <2>1. n \in Nat
    BY <1>1
  <2> QED
    BY <2>1
<1>11. CASE i = n
  <2>1. front \in [1..n - 1 -> T]
    <3>1. \A k \in 1..n - 1 : front[k] \in T
      BY <1>1, <1>2, <1>4, <1>6, <1>10, <1>11
    <3> QED
      BY <3>1, <1>4, SeqIs
  <2>2. ASSUME NEW x \in T PROVE \E k \in 1..n - 1 : front[k] = x
    <3>1. PICK k \in 1..n : heap[k] = x
      BY <1>7
    <3>2. k \in 1..n - 1
      BY <3>1, <1>1, <1>2, <1>11
    <3> QED
      BY <3>1, <3>2, <1>4
  <2>3. \A j, k \in 1..n - 1 : front[j] = front[k] => j = k
    BY <1>4, <1>6, <1>10
  <2>4. front \in Seq(T)
    BY <2>1, <1>3, ArrayIs
  <2>5. Holds(front, T)
    BY <2>1, <2>2, <2>3, <2>4, <1>4 DEF Holds, Each
  <2>6. IsHeap(front, at)
    <3>1. \A k \in 2..n - 1 : k \in 1..n - 1 /\ k \in 2..n /\ k \div 2 \in 1..n - 1
      BY <1>1, Half
    <3>2. \A k \in 2..n - 1 : at[front[k \div 2]] <= at[front[k]]
      BY <3>1, <1>4, <1>8
    <3> QED
      BY <3>2, <1>4 DEF IsHeap
  <2> QED
    BY <2>5, <2>6, <1>5, <1>11
<1>12. CASE i # n
  <2>1. i \in 1..n - 1
    BY <1>1, <1>2, <1>12
  <2>2. /\ q \in [1..n - 1 -> D] /\ q[i] = last
        /\ \A k \in 1..n - 1 : k # i => q[k] = heap[k]
    <3>1. front \in [1..n - 1 -> D] /\ last \in D
      BY <1>3, <1>4, SeqIs
    <3> QED
      BY <3>1, <2>1, <1>4 DEF Placed
  <2> HIDE DEF q
  <2>3. \A k \in 1..n - 1 : q[k] \in T /\ q[k] = heap[IF k = i THEN n ELSE k]
    <3>1. last # e
      BY <1>2, <1>3, <1>6, <1>12 DEF last
    <3>2. \A k \in 1..n - 1 : k # i => heap[k] \in S /\ heap[k] # e
      BY <1>1, <1>2, <1>6, <1>10
    <3> QED
      BY <3>1, <3>2, <2>2, <1>3 DEF last
  <2>4. Each(q, n - 1, T)
    <3>1. ASSUME NEW x \in T PROVE \E k \in 1..n - 1 : q[k] = x
      <4>1. PICK k \in 1..n : heap[k] = x
        BY <1>7
      <4>2. CASE k = n
        BY <4>1, <4>2, <2>1, <2>3
      <4>3. CASE k # n
        <5>1. k \in 1..n - 1 /\ k # i
          BY <4>1, <4>3, <1>1, <1>2
        <5> QED
          BY <5>1, <4>1, <2>2
      <4> QED
        BY <4>2, <4>3
    <3>2. ASSUME NEW j \in 1..n - 1, NEW k \in 1..n - 1, q[j] = q[k] PROVE j = k
      <4>1. (IF j = i THEN n ELSE j) = (IF k = i THEN n ELSE k)
        BY <3>2, <2>3, <1>3, <1>6, <1>10
      <4> QED
        BY <4>1, <1>10
    <3>3. q \in [1..n - 1 -> T]
      BY <2>2, <2>3
    <3> QED
      BY <3>1, <3>2, <3>3 DEF Each
  <2>5. \A k \in 2..n - 1 : /\ k \in 1..n - 1 /\ k \in 2..n /\ k \in 1..n
                            /\ k \div 2 \in 1..n - 1 /\ k \div 2 \in 1..n /\ k \div 2 < k
    BY <1>1, Half
  <2>6. Below(q, n - 1, at, i)
    <3> SUFFICES ASSUME NEW k \in 2..n - 1, k \div 2 = i, i > 1
                 PROVE  at[q[i \div 2]] <= at[q[k]]
      BY DEF Below
    <3>1. i \in 2..n - 1 /\ k # i
      BY <2>1, <2>5
    <3>2. i \div 2 \in 1..n - 1 /\ i \div 2 \in 1..n /\ i \div 2 # i
      BY <3>1, <2>5
    <3>3. at[heap[i \div 2]] <= at[heap[i]] /\ at[heap[i]] <= at[heap[k]]
      BY <3>1, <2>5, <1>8
    <3>4. q[i \div 2] = heap[i \div 2] /\ q[k] = heap[k]
      BY <3>1, <3>2, <2>2, <2>5
    <3>5. at[heap[i \div 2]] \in Int /\ at[heap[i]] \in Int /\ at[heap[k]] \in Int
      BY <3>2, <2>5, <1>2, <1>9
    <3> QED
      BY <3>3, <3>4, <3>5
  <2>7. CASE i > 1 /\ at[heap[i \div 2]] > at[last]
    <3>0. i \div 2 \in 1..n /\ i \in 2..n
      BY <2>1, <2>5, <2>7
    <3>1. ASSUME NEW k \in 2..n - 1, k # i PROVE at[q[k \div 2]] <= at[q[k]]
      <4>1. q[k] = heap[k] /\ at[heap[k \div 2]] <= at[heap[k]]
        BY <3>1, <2>2, <2>5, <1>8
      <4>2. CASE k \div 2 = i
        <5>1. at[heap[i \div 2]] <= at[heap[i]] /\ q[k \div 2] = last
          BY <3>0, <4>2, <2>2, <1>8
        <5>2. /\ at[heap[i \div 2]] \in Int /\ at[heap[i]] \in Int
              /\ at[heap[k]] \in Int /\ at[last] \in Int
          BY <3>0, <2>5, <1>2, <1>3, <1>9
        <5> QED
          BY <5>1, <5>2, <4>1, <4>2, <2>7
      <4>3. CASE k \div 2 # i
        BY <4>1, <4>3, <2>2, <2>5
      <4> QED
        BY <4>2, <4>3
    <3>2. ToRise(front, i, last, Len(front), T, at)
      BY <3>1, <2>4, <2>6, <1>4 DEF ToRise, Rising, q
    <3>3. T \in SUBSET D /\ i \in 1..Len(front) /\ last \in D
      BY <2>1, <1>3, <1>4
    <3> HIDE DEF T
    <3>4. LET r == ShiftUp(front, i, last, at) IN Holds(r, T) /\ IsHeap(r, at)
      BY <3>2, <3>3, <1>4, ShiftedUp
    <3> QED
      BY <3>4, <2>7, <1>5, <1>12 DEF T
  <2>8. CASE ~(i > 1 /\ at[heap[i \div 2]] > at[last])
    <3>1. ASSUME NEW k \in 2..n - 1, k \div 2 # i PROVE at[q[k \div 2]] <= at[q[k]]
      <4>1. q[k \div 2] = heap[k \div 2] /\ at[heap[k \div 2]] <= at[heap[k]]
        BY <3>1, <2>2, <2>5, <1>8
      <4>2. CASE k = i
        <5>1. ~(at[heap[i \div 2]] > at[last]) /\ q[k] = last
          BY <4>2, <2>2, <2>5, <2>8
        <5>2. at[heap[i \div 2]] \in Int /\ at[last] \in Int
          BY <4>2, <2>5, <1>3, <1>9
        <5> QED
          BY <5>1, <5>2, <4>1, <4>2
      <4>3. CASE k # i
        BY <4>1, <4>3, <2>2, <2>5
      <4> QED
        BY <4>2, <4>3
    <3>2. ToSink(front, i, last, Len(front), T, at)
      BY <3>1, <2>4, <2>6, <1>4 DEF ToSink, Sinking, q
    <3>3. T \in SUBSET D /\ i \in 1..Len(front) /\ last \in D
      BY <2>1, <1>3, <1>4
    <3> HIDE DEF T
    <3>4. LET r == ShiftDown(front, i, last, at) IN Holds(r, T) /\ IsHeap(r, at)
      BY <3>2, <3>3, <1>4, ShiftedDown
    <3> QED
      BY <3>4, <2>8, <1>5, <1>12 DEF T
  <2> QED
    BY <2>7, <2>8
<1> QED
  BY <1>11, <1>12

LEMMA HoldsPrepend ==
  ASSUME NEW S, NEW q, Holds(q, S), NEW x, x \notin S
  PROVE  Holds(<<x>> \o q, S \cup {x})
<1> DEFINE n == Len(q)
           r == <<x>> \o q
           T == S \cup {x}
<1>1. n \in Nat /\ q \in [1..n -> S] /\ q \in Seq(T) /\ <<x>> \in Seq(T) /\ Len(<<x>>) = 1
  BY SeqIs DEF Holds
<1>2. r \in Seq(T) /\ Len(r) = n + 1
  BY <1>1, ConcatProperties
<1>3. \A k \in 1..n + 1 : r[k] = IF k = 1 THEN x ELSE q[k - 1]
  BY <1>1, ConcatProperties
<1> HIDE DEF r, n
<1>4. r \in [1..n + 1 -> T]
  BY <1>2, SeqIs
<1>5. ASSUME NEW y \in T PROVE \E k \in 1..n + 1 : r[k] = y
  <2>1. CASE y = x
    BY <2>1, <1>1, <1>3
  <2>2. CASE y \in S
    <3>1. PICK k \in 1..n : q[k] = y
      BY <2>2 DEF Holds, Each, n
    <3>2. k + 1 \in 1..n + 1 /\ k + 1 # 1 /\ (k + 1) - 1 = k
      BY <1>1
    <3> QED
      BY <3>1, <3>2, <1>3
  <2> QED
    BY <2>1, <2>2
<1>6. ASSUME NEW j \in 1..n + 1, NEW k \in 1..n + 1, r[j] = r[k] PROVE j = k
  <2>1. \A l \in 1..n + 1 : l # 1 => l - 1 \in 1..n /\ q[l - 1] # x /\ r[l] = q[l - 1]
    BY <1>1, <1>3
  <2>2. CASE j = 1 \/ k = 1
    BY <2>1, <2>2, <1>3, <1>6
  <2>3. CASE j # 1 /\ k # 1
    <3>1. j - 1 = k - 1
      BY <2>1, <2>3, <1>6 DEF Holds, Each, n
    <3> QED
      BY <3>1
  <2> QED
    BY <2>2, <2>3
<1> QED
  BY <1>2, <1>4, <1>5, <1>6 DEF Holds, Each, r

\* TAILQ_REMOVE: q without what is at position i.
LEMMA RemoveFirstIs ==
  ASSUME NEW D, NEW q \in Seq(D), NEW x, \E k \in 1..Len(q) : q[k] = x
  PROVE  \E i \in 1..Len(q) :
           /\ q[i] = x
           /\ RemoveFirst(q, x) \in Seq(D) /\ Len(RemoveFirst(q, x)) = Len(q) - 1
           /\ \A k \in 1..Len(q) - 1 : RemoveFirst(q, x)[k] = IF k < i THEN q[k] ELSE q[k + 1]
<1> DEFINE n == Len(q)
           I == {k \in 1..n : q[k] = x}
           i == Min(I)
           f == SubSeq(q, 1, i - 1)
           g == SubSeq(q, i + 1, n)
<1>1. n \in Nat
  BY SeqIs
<1>2. I \subseteq Nat /\ I # {}
  BY <1>1
<1>3. i \in I
  <2> HIDE DEF I
  <2>1. \E m \in I : \A k \in I : m <= k
    BY <1>2, Least
  <2> QED
    BY <2>1 DEF Min
<1>4. RemoveFirst(q, x) = f \o g
  BY <1>3 DEF RemoveFirst, RemoveAt, SelectInSeq
<1>5. i \in 1..n /\ q[i] = x
  BY <1>3
<1> HIDE DEF i, n
<1>6. f \in Seq(D) /\ Len(f) = i - 1 /\ \A k \in 1..i - 1 : f[k] = q[k]
  <2>1. i - 1 \in Nat /\ i - 1 <= n /\ \A k \in 1..i - 1 : k \in 1..n
    BY <1>1, <1>5
  <2>2. f \in Seq(D) /\ Len(f) = i - 1
    BY <2>1, <1>1, SubSeqProperties DEF n
  <2>3. \A k \in 1..i - 1 : f[k] = q[1 + k - 1]
    BY <2>1, <1>1, SubSeqProperties DEF n
  <2>4. \A k \in 1..i - 1 : 1 + k - 1 = k
    BY <2>1
  <2> QED
    BY <2>2, <2>3, <2>4
<1>7. g \in Seq(D) /\ Len(g) = n - i /\ \A k \in 1..n - i : g[k] = q[i + k]
  <2>1. i + 1 \in 1..n + 1 /\ n - i \in Nat /\ n - (i + 1) + 1 = n - i
    BY <1>1, <1>5
  <2>2. g \in Seq(D) /\ Len(g) = n - i
    BY <2>1, <1>1, SubSeqProperties DEF n
  <2>3. \A k \in 1..n - i : g[k] = q[(i + 1) + k - 1]
    BY <2>1, <1>1, SubSeqProperties DEF n
  <2>4. \A k \in 1..n - i : (i + 1) + k - 1 = i + k
    BY <2>1, <1>5
  <2> QED
    BY <2>2, <2>3, <2>4
<1> HIDE DEF f, g
<1>8. f \o g \in Seq(D) /\ Len(f \o g) = n - 1
  <2>1. f \o g \in Seq(D) /\ Len(f \o g) = Len(f) + Len(g)
    BY <1>6, <1>7, ConcatProperties
  <2>2. (i - 1) + (n - i) = n - 1
    BY <1>1, <1>5
  <2> QED
    BY <2>1, <2>2, <1>6, <1>7
<1>9. ASSUME NEW k \in 1..n - 1 PROVE (f \o g)[k] = IF k < i THEN q[k] ELSE q[k + 1]
  <2>1. (f \o g)[k] = IF k <= Len(f) THEN f[k] ELSE g[k - Len(f)]
    <3>1. k \in 1..Len(f) + Len(g)
      BY <1>1, <1>5, <1>6, <1>7
    <3> QED
      BY <3>1, <1>6, <1>7, ConcatProperties
  <2>2. CASE k < i
    <3>1. k \in 1..i - 1 /\ k <= Len(f)
      BY <2>2, <1>1, <1>5, <1>6
    <3> QED
      BY <3>1, <2>1, <2>2, <1>6
  <2>3. CASE ~(k < i)
    <3>1. ~(k <= Len(f)) /\ k - Len(f) \in 1..n - i /\ i + (k - Len(f)) = k + 1
      BY <2>3, <1>1, <1>5, <1>6
    <3>2. g[k - Len(f)] = q[i + (k - Len(f))]
      BY <3>1, <1>7
    <3>3. (f \o g)[k] = q[k + 1]
      BY <3>1, <3>2, <2>1
    <3> QED
      BY <3>3, <2>3
  <2> QED
    BY <2>2, <2>3
<1> QED
  BY <1>4, <1>5, <1>8, <1>9 DEF n

LEMMA HoldsRemove ==
  ASSUME NEW S, NEW q, Holds(q, S), NEW x \in S
  PROVE  Holds(RemoveFirst(q, x), S \ {x})
<1> DEFINE n == Len(q)
           r == RemoveFirst(q, x)
           T == S \ {x}
<1>1. n \in Nat /\ q \in [1..n -> S] /\ q \in Seq(S)
  BY SeqIs DEF Holds
<1>2. \A y \in S : \E k \in 1..n : q[k] = y
  BY DEF Holds, Each
<1>3. \A j, k \in 1..n : q[j] = q[k] => j = k
  BY DEF Holds, Each
<1>4. PICK i \in 1..n :
        /\ q[i] = x /\ r \in Seq(S) /\ Len(r) = n - 1
        /\ \A k \in 1..n - 1 : r[k] = IF k < i THEN q[k] ELSE q[k + 1]
  <2>1. \E k \in 1..Len(q) : q[k] = x
    BY <1>2
  <2>2. \E i \in 1..Len(q) :
           /\ q[i] = x
           /\ RemoveFirst(q, x) \in Seq(S) /\ Len(RemoveFirst(q, x)) = Len(q) - 1
           /\ \A k \in 1..Len(q) - 1 :
                RemoveFirst(q, x)[k] = IF k < i THEN q[k] ELSE q[k + 1]
    BY <1>1, <2>1, RemoveFirstIs
  <2> QED
    BY <2>2
<1> HIDE DEF r, n
<1>5. n - 1 \in Nat /\ \A k \in 1..n - 1 : k \in 1..n /\ k + 1 \in 1..n
  BY <1>1, <1>4
<1>6. \A k \in 1..n - 1 : r[k] \in T
  BY <1>1, <1>3, <1>4, <1>5
<1>7. r \in [1..n - 1 -> T]
  <2>1. r \in [1..n - 1 -> S]
    BY <1>4, SeqIs
  <2> QED
    BY <2>1, <1>6
<1>8. r \in Seq(T)
  BY <1>5, <1>7, ArrayIs
<1>9. ASSUME NEW y \in T PROVE \E k \in 1..n - 1 : r[k] = y
  <2>1. PICK k \in 1..n : q[k] = y
    BY <1>2
  <2>2. CASE k < i
    <3>1. k \in 1..n - 1
      BY <2>2, <1>1, <1>4
    <3> QED
      BY <3>1, <2>1, <2>2, <1>4
  <2>3. CASE k > i
    <3>1. k - 1 \in 1..n - 1 /\ ~(k - 1 < i) /\ (k - 1) + 1 = k
      BY <2>3, <1>1, <1>4
    <3> QED
      BY <3>1, <2>1, <1>4
  <2>4. k # i
    BY <2>1, <1>4
  <2> QED
    BY <2>2, <2>3, <2>4
<1>10. ASSUME NEW j \in 1..n - 1, NEW k \in 1..n - 1, r[j] = r[k] PROVE j = k
  <2>1. (IF j < i THEN j ELSE j + 1) = (IF k < i THEN k ELSE k + 1)
    BY <1>3, <1>4, <1>5, <1>10
  <2> QED
    BY <2>1, <1>4
<1> QED
  BY <1>4, <1>7, <1>8, <1>9, <1>10 DEF Holds, Each, r

LEMMA HoldsNothing == Holds(<<>>, {})
BY DEF Holds, Each

LEMMA HoldsFirst ==
  ASSUME NEW S, NEW q, Holds(q, S)
  PROVE  /\ q = <<>> <=> S = {}
         /\ q # <<>> => q[1] \in S /\ Head(q) = q[1]
         /\ \A k \in 1..Len(q) : q[k] \in S
<1>1. Len(q) \in Nat /\ q \in [1..Len(q) -> S] /\ q \in Seq(S)
  BY SeqIs DEF Holds
<1>2. q = <<>> <=> Len(q) = 0
  BY <1>1, EmptySeq
<1>3. \A x \in S : Len(q) # 0
  BY <1>1 DEF Holds, Each
<1> QED
  BY <1>1, <1>2, <1>3

\* How many events a queue has is how many it should hold.
LEMMA HoldsCount ==
  ASSUME NEW S, NEW q, Holds(q, S)
  PROVE  ToSet(q) = S /\ IsFiniteSet(S) /\ Len(q) = Cardinality(S)
<1>1. Len(q) \in Nat /\ q \in [1..Len(q) -> S] /\ DOMAIN q = 1..Len(q)
  BY SeqIs DEF Holds
<1>2. \A x \in S : \E k \in 1..Len(q) : q[k] = x
  BY DEF Holds, Each
<1>3. \A j, k \in 1..Len(q) : q[j] = q[k] => j = k
  BY DEF Holds, Each
<1>4. ExistsBijection(1..Len(q), S)
  <2>1. q \in Injection(1..Len(q), S)
    BY <1>1, <1>3 DEF Injection, IsInjective
  <2>2. q \in Surjection(1..Len(q), S)
    BY <1>1, <1>2 DEF Surjection
  <2> QED
    BY <2>1, <2>2 DEF Bijection, ExistsBijection
<1>5. IsFiniteSet(1..Len(q)) /\ Cardinality(1..Len(q)) = Len(q)
  <2> DEFINE n == Len(q)
  <2>1. n \in Nat /\ n \in Int /\ 1 \in Int
    BY <1>1
  <2> HIDE DEF n
  <2>2. IsFiniteSet(1..n) /\ Cardinality(1..n) = IF 1 > n THEN 0 ELSE n - 1 + 1
    BY <2>1, FS_Interval
  <2>3. (IF 1 > n THEN 0 ELSE n - 1 + 1) = n
    BY <2>1
  <2> QED
    BY <2>2, <2>3 DEF n
<1>6. IsFiniteSet(S) /\ Cardinality(S) = Cardinality(1..Len(q))
  BY <1>4, <1>5, FS_Bijection
<1> QED
  BY <1>1, <1>2, <1>5, <1>6 DEF ToSet

-----------------------------------------------------------------------------
(* Folds.                                                                  *)

LEMMA Greatest ==
  ASSUME NEW n \in Nat, NEW t, t \subseteq 1..n, t # {}
  PROVE  Max(t) \in t /\ \A k \in t : k <= Max(t)
<1> DEFINE I == {n - k : k \in t}
<1>1. I \subseteq Nat /\ I # {}
  <2>1. \A k \in t : k \in 1..n
    OBVIOUS
  <2>2. \A k \in 1..n : n - k \in Nat
    OBVIOUS
  <2>3. I \subseteq Nat
    BY <2>1, <2>2
  <2> QED
    BY <2>3
<1>2. PICK m \in I : \A k \in I : m <= k
  <2> HIDE DEF I
  <2> QED
    BY <1>1, Least
<1>3. PICK i \in t : m = n - i
  BY <1>2
<1>4. ASSUME NEW k \in t PROVE i >= k
  <2>1. n - i <= n - k
    BY <1>2, <1>3
  <2>2. n \in Int /\ i \in Int /\ k \in Int
    OBVIOUS
  <2> QED
    BY <2>1, <2>2
<1>5. Max(t) \in t /\ \A k \in t : Max(t) >= k
  BY <1>3, <1>4 DEF Max
<1> DEFINE mx == Max(t)
<1>6. mx \in t /\ \A k \in t : mx >= k
  BY <1>5
<1> HIDE DEF mx
<1>7. \A k \in t : k \in Int
  OBVIOUS
<1>8. \A k \in t : k <= mx
  BY <1>6, <1>7
<1> QED
  BY <1>6, <1>8 DEF mx

LEMMA GreatestOf ==
  ASSUME NEW k \in Nat, k # 0
  PROVE  Max(1..k) = k /\ (1..k) \ {Max(1..k)} = 1..(k - 1)
<1>1. k \in 1..k
  OBVIOUS
<1>2. Max(1..k) \in 1..k /\ k <= Max(1..k)
  BY <1>1, Greatest
<1>3. Max(1..k) = k
  BY <1>2
<1> QED
  BY <1>3

LEMMA Prefix ==
  ASSUME NEW n \in Nat, NEW k \in 1..n
  PROVE  /\ 1..k \in SUBSET (1..n) /\ 1..k # {}
         /\ Max(1..k) = k /\ (1..k) \ {Max(1..k)} = 1..(k - 1)
<1>1. k \in Nat /\ k # 0 /\ k <= n
  OBVIOUS
<1>2. \A j \in 1..k : j \in 1..n
  BY <1>1
<1>3. k \in 1..k
  BY <1>1
<1> QED
  BY <1>1, <1>2, <1>3, GreatestOf

\* What a fold that takes one step after the other computes, step k on what
\* those before it made of b.
IsFold(f, n, b, H) ==
  \A t \in SUBSET (1..n) : f[t] = IF t = {} THEN b ELSE H[Max(t)][f[t \ {Max(t)}]]

LEMMA FoldExists ==
  ASSUME NEW U, NEW n \in Nat, NEW b \in U, NEW H \in [1..n -> [U -> U]]
  PROVE  \E f \in [SUBSET (1..n) -> U] : IsFold(f, n, b, H)
<1> DEFINE Is(m, f) == /\ f \in [SUBSET (1..m) -> U]
                       /\ \A t \in SUBSET (1..m) :
                            f[t] = IF t = {} THEN b ELSE H[Max(t)][f[t \ {Max(t)}]]
           S == {m \in Nat : m <= n => \E f : Is(m, f)}
<1>1. 0 \in S
  <2> DEFINE f == [t \in SUBSET (1..0) |-> b]
  <2>1. \A t \in SUBSET (1..0) : t = {}
    OBVIOUS
  <2>2. Is(0, f)
    BY <2>1
  <2> HIDE DEF Is
  <2> QED
    BY <2>2
<1>2. ASSUME NEW m \in Nat, m \in S PROVE m + 1 \in S
  <2> HIDE DEF Is
  <2> SUFFICES ASSUME m + 1 <= n PROVE \E f : Is(m + 1, f)
    OBVIOUS
  <2> USE DEF Is
  <2>1. m <= n
    OBVIOUS
  <2>2. PICK f : Is(m, f)
    BY <1>2, <2>1
  <2> DEFINE u == m + 1
             g == [t \in SUBSET (1..u) |-> IF u \in t THEN H[u][f[t \ {u}]] ELSE f[t]]
  <2>3. \A t \in SUBSET (1..u) : t \ {u} \in SUBSET (1..m)
    OBVIOUS
  <2>4. \A t \in SUBSET (1..u) : u \notin t => t \in SUBSET (1..m)
    OBVIOUS
  <2>5. H[u] \in [U -> U]
    OBVIOUS
  <2>6. g \in [SUBSET (1..u) -> U]
    <3>1. \A t \in SUBSET (1..m) : f[t] \in U
      BY <2>2
    <3> QED
      BY <3>1, <2>3, <2>4, <2>5
  <2>7. ASSUME NEW t \in SUBSET (1..u)
        PROVE  g[t] = IF t = {} THEN b ELSE H[Max(t)][g[t \ {Max(t)}]]
    <3>1. CASE u \in t
      <4>1. Max(t) \in t /\ u <= Max(t)
        <5>1. u \in Nat /\ t \subseteq 1..u /\ t # {}
          BY <3>1
        <5> HIDE DEF u
        <5> QED
          BY <5>1, <3>1, Greatest
      <4>2. Max(t) = u
        <5> DEFINE mx == Max(t)
        <5>1. mx \in t /\ u <= mx /\ t \subseteq 1..u
          BY <4>1, Zenon
        <5>3. u \in Nat
          OBVIOUS
        <5> HIDE DEF u, mx
        <5>2. mx = u
          BY <5>1, <5>3
        <5> QED
          BY <5>2 DEF mx
      <4>3. g[t \ {u}] = f[t \ {u}]
        BY <2>3
      <4> QED
        BY <4>2, <4>3, <3>1
    <3>2. CASE u \notin t /\ t # {}
      <4>1. t \in SUBSET (1..m) /\ Max(t) \in t
        BY <3>2, <2>4, Greatest
      <4>2. g[t] = f[t] /\ g[t \ {Max(t)}] = f[t \ {Max(t)}]
        BY <3>2, <4>1
      <4>3. f[t] = H[Max(t)][f[t \ {Max(t)}]]
        BY <2>2, <3>2, <4>1
      <4> QED
        BY <4>2, <4>3, <3>2
    <3>3. CASE t = {}
      BY <3>3, <2>2
    <3> QED
      BY <3>1, <3>2, <3>3
  <2>8. Is(u, g)
    BY <2>6, <2>7
  <2> HIDE DEF Is, g
  <2> QED
    BY <2>8
<1>3. \A m \in Nat : m \in S
  <2> HIDE DEF S
  <2> QED
    BY <1>1, <1>2, Induction
<1>4. \E f : Is(n, f)
  <2> HIDE DEF Is
  <2>1. n <= n
    OBVIOUS
  <2> QED
    BY <1>3, <2>1
<1> QED
  BY <1>4 DEF IsFold

\* Step by step, a fold goes from one set to the next.
LEMMA FoldSteps ==
  ASSUME NEW n \in Nat, NEW f, NEW P, f[{}] \in P[0],
         \A k \in 1..n : f[1..(k - 1)] \in P[k - 1] => f[1..k] \in P[k]
  PROVE  f[1..n] \in P[n]
<1> DEFINE S == {k \in Nat : k <= n => f[1..k] \in P[k]}
<1>1. 0 \in S
  <2>1. 1..0 = {}
    OBVIOUS
  <2> QED
    BY <2>1
<1>2. ASSUME NEW k \in Nat, k \in S PROVE k + 1 \in S
  <2>1. (k + 1) - 1 = k
    OBVIOUS
  <2>2. ASSUME k + 1 <= n PROVE f[1..(k + 1)] \in P[k + 1]
    <3>1. k <= n /\ k + 1 \in 1..n
      BY <2>2
    <3>2. f[1..k] \in P[k]
      BY <3>1, <1>2
    <3> QED
      BY <3>1, <3>2, <2>1
  <2> QED
    BY <2>2
<1>3. \A k \in Nat : k \in S
  <2> HIDE DEF S
  <2> QED
    BY <1>1, <1>2, Induction
<1> QED
  BY <1>3
=============================================================================
