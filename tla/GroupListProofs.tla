-------------------------- MODULE GroupListProofs --------------------------
(***************************************************************************)
(* Proofs about GroupList, for any clients and any groups.                 *)
(*                                                                         *)
(* The lists of the code are recursive functions of the model, which walk  *)
(* memories whose links are right.  So the proofs first say what it is for *)
(* a memory to be strung into lists, and that a walk over one then exists  *)
(* and finds what it should: by induction over the numbers, which the      *)
(* library's theorem about well-founded relations gives for sets.          *)
(***************************************************************************)
EXTENDS GroupList, Integers, SequenceTheorems, WellFoundedInduction, TLAPS

\* Every set of numbers that is not empty has a least one.
LEMMA Least ==
  ASSUME NEW T, T \subseteq Nat, T # {}
  PROVE  \E m \in T : \A k \in T : m <= k
<1> DEFINE R == OpToRel(<, Nat)
<1>1. IsWellFoundedOn(R, Nat)
  BY NatLessThanWellFounded, Zenon
<1>2. R = {ss \in Nat \X Nat : ss[1] < ss[2]}
  BY DEF OpToRel
<1> HIDE DEF R
<1>3. PICK m \in T : \A k \in T : ~(<<k, m>> \in R)
  BY <1>1, WFMin
<1>4. \A k \in T : k < m => <<k, m>> \in R
  BY <1>2
<1>5. \A k \in T : ~(k < m)
  BY <1>3, <1>4
<1>6. m \in Nat /\ \A k \in T : k \in Nat
  OBVIOUS
<1> QED
  BY <1>5, <1>6

\* Induction, for a set of numbers.
LEMMA Induction ==
  ASSUME NEW S, 0 \in S, \A k \in Nat : k \in S => k + 1 \in S
  PROVE  \A k \in Nat : k \in S
<1> SUFFICES ASSUME Nat \ S # {} PROVE FALSE
  OBVIOUS
<1>1. PICK m \in Nat \ S : \A k \in Nat \ S : m <= k
  BY Least
<1>2. m - 1 \in Nat /\ (m - 1) + 1 = m /\ ~(m <= m - 1)
  BY <1>1
<1> QED
  BY <1>1, <1>2

-----------------------------------------------------------------------------
(* Lists in a memory.                                                      *)

\* The memory 1..n is made up of lists, in which next leads from one address
\* to the one behind it, and from the last to Null.
Strung(lists, I, n, next) ==
  /\ lists \in [I -> Seq(1..n)]
  /\ \A i \in I : \A k \in 1..Len(lists[i]) :
       next[lists[i][k]] = IF k = Len(lists[i]) THEN 0 ELSE lists[i][k + 1]
  /\ \A a \in 1..n : \E i \in I : \E k \in 1..Len(lists[i]) : lists[i][k] = a
  /\ \A i, j \in I : \A k \in 1..Len(lists[i]) : \A l \in 1..Len(lists[j]) :
       lists[i][k] = lists[j][l] => i = j /\ k = l

LEMMA StrungTypes ==
  ASSUME NEW lists, NEW I, NEW n, NEW next, Strung(lists, I, n, next), NEW i \in I
  PROVE  /\ lists[i] \in Seq(1..n)
         /\ Len(lists[i]) \in Nat
         /\ \A k \in 1..Len(lists[i]) : lists[i][k] \in 1..n
<1>1. lists[i] \in Seq(1..n)
  BY DEF Strung
<1> QED
  BY <1>1, ElementOfSeq, LenProperties

LEMMA StrungLinks ==
  ASSUME NEW lists, NEW I, NEW n, NEW next, Strung(lists, I, n, next),
         NEW i \in I, NEW k \in 1..Len(lists[i])
  PROVE  /\ k = Len(lists[i]) => next[lists[i][k]] = 0
         /\ k # Len(lists[i]) => /\ k + 1 \in 1..Len(lists[i])
                                /\ lists[i][k + 1] \in 1..n
                                /\ next[lists[i][k]] = lists[i][k + 1]
<1>1. next[lists[i][k]] = IF k = Len(lists[i]) THEN 0 ELSE lists[i][k + 1]
  BY DEF Strung
<1>2. k # Len(lists[i]) => k + 1 \in 1..Len(lists[i])
  BY StrungTypes
<1> QED
  BY <1>1, <1>2, StrungTypes

LEMMA StrungPlace ==
  ASSUME NEW lists, NEW I, NEW n, NEW next, Strung(lists, I, n, next), NEW a \in 1..n
  PROVE  \E i \in I : \E k \in 1..Len(lists[i]) : lists[i][k] = a
BY DEF Strung

LEMMA StrungOnce ==
  ASSUME NEW lists, NEW I, NEW n, NEW next, Strung(lists, I, n, next),
         NEW i \in I, NEW j \in I, NEW k \in 1..Len(lists[i]), NEW l \in 1..Len(lists[j]),
         lists[i][k] = lists[j][l]
  PROVE  i = j /\ k = l
BY DEF Strung

\* The walk that ends at an address in Stop.
Walks(f, n, next, Stop) == f = [a \in 1..n |-> IF a \in Stop THEN a ELSE f[next[a]]]

LEMMA WalkExists ==
  ASSUME NEW lists, NEW I, NEW n, NEW next, Strung(lists, I, n, next), NEW Stop,
         \A a \in 1..n : next[a] = 0 => a \in Stop
  PROVE  \E f : Walks(f, n, next, Stop)
<1> DEFINE Ends(i, k, m) == /\ k <= m /\ lists[i][m] \in Stop
                            /\ \A j \in k..m - 1 : lists[i][j] \notin Stop
           At(a, b) == \E i \in I : \E k, m \in 1..Len(lists[i]) :
                         lists[i][k] = a /\ lists[i][m] = b /\ Ends(i, k, m)
           F == [a \in 1..n |-> CHOOSE b : At(a, b)]
<1>1. ASSUME NEW i \in I, NEW k \in 1..Len(lists[i])
      PROVE  \E m \in 1..Len(lists[i]) : Ends(i, k, m)
  <2> DEFINE T == {m \in 1..Len(lists[i]) : k <= m /\ lists[i][m] \in Stop}
  <2>1. Len(lists[i]) \in T
    BY StrungTypes, StrungLinks
  <2>2. T \subseteq Nat
    BY StrungTypes
  <2>3. PICK m \in T : \A j \in T : m <= j
    BY <2>1, <2>2, Least
  <2>4. \A j \in k..m - 1 : j \in 1..Len(lists[i]) /\ ~(m <= j)
    BY StrungTypes
  <2> QED
    BY <2>3, <2>4
<1>2. ASSUME NEW a \in 1..n PROVE \E b : At(a, b)
  <2>1. PICK i \in I : \E k \in 1..Len(lists[i]) : lists[i][k] = a
    BY StrungPlace
  <2>2. PICK k \in 1..Len(lists[i]) : lists[i][k] = a
    BY <2>1
  <2>3. PICK m \in 1..Len(lists[i]) : Ends(i, k, m)
    BY <1>1
  <2> QED
    BY <2>2, <2>3
<1>3. ASSUME NEW a, NEW b, NEW c, At(a, b), At(a, c) PROVE b = c
  <2>1. PICK i \in I : \E k, m \in 1..Len(lists[i]) :
               lists[i][k] = a /\ lists[i][m] = b /\ Ends(i, k, m)
    BY <1>3
  <2>2. PICK k \in 1..Len(lists[i]), m \in 1..Len(lists[i]) :
               lists[i][k] = a /\ lists[i][m] = b /\ Ends(i, k, m)
    BY <2>1
  <2>3. PICK j \in I : \E l, o \in 1..Len(lists[j]) :
               lists[j][l] = a /\ lists[j][o] = c /\ Ends(j, l, o)
    BY <1>3
  <2>4. PICK l \in 1..Len(lists[j]), o \in 1..Len(lists[j]) :
               lists[j][l] = a /\ lists[j][o] = c /\ Ends(j, l, o)
    BY <2>3
  <2>5. i = j /\ k = l
    BY <2>2, <2>4, StrungOnce
  <2>6. Len(lists[i]) \in Nat
    BY StrungTypes
  <2>7. m = o
    BY <2>2, <2>4, <2>5, <2>6
  <2> QED
    BY <2>2, <2>4, <2>5, <2>7
<1>4. ASSUME NEW a \in 1..n, a \in Stop PROVE At(a, a)
  <2>1. PICK i \in I : \E k \in 1..Len(lists[i]) : lists[i][k] = a
    BY StrungPlace
  <2>2. PICK k \in 1..Len(lists[i]) : lists[i][k] = a
    BY <2>1
  <2>3. Ends(i, k, k)
    BY <1>4, <2>2, StrungTypes
  <2> QED
    BY <2>2, <2>3
<1>5. ASSUME NEW a \in 1..n, a \notin Stop
      PROVE  /\ next[a] \in 1..n
             /\ \A b : At(next[a], b) => At(a, b)
  <2>1. PICK i \in I : \E k \in 1..Len(lists[i]) : lists[i][k] = a
    BY StrungPlace
  <2>2. PICK k \in 1..Len(lists[i]) : lists[i][k] = a
    BY <2>1
  <2>3. k # Len(lists[i]) /\ next[a] = lists[i][k + 1]
    BY <1>5, <2>2, StrungLinks
  <2>4. k + 1 \in 1..Len(lists[i])
    BY <2>3, StrungTypes
  <2>5. ASSUME NEW b, At(next[a], b) PROVE At(a, b)
    <3>1. PICK j \in I : \E l, o \in 1..Len(lists[j]) :
                 lists[j][l] = next[a] /\ lists[j][o] = b /\ Ends(j, l, o)
      BY <2>5
    <3>2. PICK l \in 1..Len(lists[j]), o \in 1..Len(lists[j]) :
                 lists[j][l] = next[a] /\ lists[j][o] = b /\ Ends(j, l, o)
      BY <3>1
    <3>3. j = i /\ l = k + 1
      BY <2>3, <2>4, <3>2, StrungOnce
    <3>4. Ends(i, k, o)
      BY <3>2, <3>3, <1>5, <2>2, StrungTypes
    <3> QED
      BY <3>2, <3>3, <3>4, <2>2
  <2> QED
    BY <2>3, <2>4, <2>5, StrungTypes
<1> HIDE DEF At
<1>6. \A a \in 1..n : At(a, F[a])
  BY <1>2
<1>7. \A a \in 1..n : F[a] = IF a \in Stop THEN a ELSE F[next[a]]
  BY <1>3, <1>4, <1>5, <1>6
<1>8. F = [a \in 1..n |-> F[a]]
  OBVIOUS
<1> HIDE DEF F
<1>9. F = [a \in 1..n |-> IF a \in Stop THEN a ELSE F[next[a]]]
  BY <1>7, <1>8, Zenon
<1> QED
  BY <1>9 DEF Walks

Walking(lists, I, n, next, Stop, f) ==
  /\ Strung(lists, I, n, next)
  /\ \A a \in 1..n : next[a] = 0 => a \in Stop
  /\ Walks(f, n, next, Stop)

\* The first address in Stop is that at position m, which is a.
FirstOf(list, Stop, a, m) ==
  /\ a = list[m]
  /\ list[m] \in Stop
  /\ \A j \in 1..m - 1 : list[j] \notin Stop

\* It ends at the first of them.
LEMMA WalkFinds ==
  ASSUME NEW lists, NEW I, NEW n, NEW next, NEW Stop, NEW f,
         Walking(lists, I, n, next, Stop, f), NEW i \in I, Len(lists[i]) > 0
  PROVE  \E m \in 1..Len(lists[i]) : FirstOf(lists[i], Stop, f[lists[i][1]], m)
<1>9. Strung(lists, I, n, next) /\ Walks(f, n, next, Stop)
  BY DEF Walking
<1>10. \A a \in 1..n : next[a] = 0 => a \in Stop
  BY DEF Walking
<1> DEFINE T == {m \in 1..Len(lists[i]) : lists[i][m] \in Stop}
<1>1. Len(lists[i]) \in T
  BY <1>9, <1>10, StrungTypes, StrungLinks
<1>2. T \subseteq Nat
  BY <1>9, StrungTypes
<1>3. PICK m \in T : \A j \in T : m <= j
  BY <1>1, <1>2, Least
<1>4. \A j \in 1..m - 1 : lists[i][j] \notin Stop /\ j \in 1..Len(lists[i])
  BY <1>3, <1>9, StrungTypes
<1> DEFINE S == {d \in Nat : d < m => f[lists[i][m - d]] = lists[i][m]}
<1>5. 0 \in S
  <2>1. f[lists[i][m]] = lists[i][m]
    BY <1>3, <1>9, StrungTypes DEF Walks
  <2> QED
    BY <2>1, <1>9, StrungTypes
<1>6. ASSUME NEW d \in Nat, d \in S PROVE d + 1 \in S
  <2> SUFFICES ASSUME d + 1 < m PROVE f[lists[i][m - (d + 1)]] = lists[i][m]
    OBVIOUS
  <2> DEFINE k == m - (d + 1)
  <2>1. k \in 1..m - 1 /\ k + 1 = m - d /\ k \in 1..Len(lists[i]) /\ k # Len(lists[i])
    BY <1>9, StrungTypes
  <2> HIDE DEF k
  <2>2. lists[i][k] \notin Stop /\ next[lists[i][k]] = lists[i][k + 1]
    BY <2>1, <1>4, <1>9, StrungLinks
  <2>3. f[lists[i][k]] = f[lists[i][k + 1]]
    BY <2>1, <2>2, <1>9, StrungTypes DEF Walks
  <2> QED
    BY <2>1, <2>3, <1>6 DEF k
<1>7. m - 1 \in S
  <2>1. m - 1 \in Nat
    BY <1>9, StrungTypes
  <2> HIDE DEF S
  <2> QED
    BY <1>5, <1>6, <2>1, Induction
<1>8. f[lists[i][1]] = lists[i][m]
  BY <1>7, <1>9, StrungTypes
<1> QED
  BY <1>3, <1>4, <1>8 DEF FirstOf

\* The values val of the addresses on the way from one to the end of its list.
Reads(f, n, next, val) ==
  f = [a \in 0..n |-> IF a = 0 THEN <<>> ELSE <<val[a]>> \o f[next[a]]]

\* Of a list, the values from its position k on.
Rest(list, k, val) == [x \in 1..Len(list) - k + 1 |-> val[list[k + x - 1]]]

LEMMA RestStep ==
  ASSUME NEW lists, NEW I, NEW n, NEW next, Strung(lists, I, n, next), NEW val,
         NEW i \in I, NEW k \in 1..Len(lists[i]), NEW s,
         s = IF k = Len(lists[i]) THEN <<>> ELSE Rest(lists[i], k + 1, val)
  PROVE  <<val[lists[i][k]]>> \o s = Rest(lists[i], k, val)
<1> DEFINE list == lists[i]
           len == Len(list) - k
           V == {val[a] : a \in 1..n}
<1>1. len \in Nat /\ k \in Nat /\ Len(list) \in Nat /\ \A j \in 1..Len(list) : val[list[j]] \in V
  BY StrungTypes
<1>2. s \in Seq(V) /\ Len(s) = len /\ \A x \in 1..len : s[x] = val[list[k + x]]
  <2>1. CASE k = Len(list)
    BY <2>1, <1>1, EmptySeq
  <2>2. CASE k # Len(list)
    <3>1. s = [x \in 1..len |-> val[list[k + x]]]
      <4>1. Len(list) - (k + 1) + 1 = len /\ \A x \in 1..len : k + 1 + x - 1 = k + x
        BY <1>1
      <4> QED
        BY <4>1, <2>2 DEF Rest
    <3>2. \A x \in 1..len : val[list[k + x]] \in V
      <4>1. \A x \in 1..len : k + x \in 1..Len(list)
        BY <1>1
      <4> HIDE DEF len, V, list
      <4> QED
        BY <4>1, <1>1
    <3> HIDE DEF len, V, list
    <3>3. s \in [1..len -> V]
      BY <3>1, <3>2, Zenon
    <3>6. s \in Seq(V)
      BY <3>3, <1>1
    <3>4. DOMAIN s = 1..len /\ \A x \in 1..len : s[x] = val[list[k + x]]
      BY <3>1
    <3>5. Len(s) = len
      BY <3>6, <3>4, <1>1, LenProperties
    <3> QED
      BY <3>6, <3>4, <3>5
  <2> QED
    BY <2>1, <2>2
<1>3. <<val[list[k]]>> \in Seq(V) /\ Len(<<val[list[k]]>>) = 1 /\ <<val[list[k]]>>[1] = val[list[k]]
  BY <1>1
<1> DEFINE t == <<val[list[k]]>> \o s
           r == Rest(list, k, val)
<1>4. t \in Seq(V) /\ Len(t) = len + 1
      /\ \A x \in 1..len + 1 : t[x] = IF x <= 1 THEN val[list[k]] ELSE val[list[k + (x - 1)]]
  <2> HIDE DEF V, len, list
  <2>1. t \in Seq(V) /\ Len(t) = 1 + len
        /\ \A x \in 1..1 + len : t[x] = IF x <= 1 THEN <<val[list[k]]>>[x] ELSE s[x - 1]
    BY <1>2, <1>3, ConcatProperties
  <2>2. \A x \in 1..1 + len : x <= 1 => x = 1
    BY <1>1
  <2>3. \A x \in 1..1 + len : ~(x <= 1) => x - 1 \in 1..len
    BY <1>1
  <2>4. 1 + len = len + 1
    BY <1>1
  <2> QED
    BY <2>1, <2>2, <2>3, <2>4, <1>2, <1>3
<1>5. r \in Seq(V) /\ Len(r) = len + 1 /\ \A x \in 1..len + 1 : r[x] = val[list[k + x - 1]]
  <2>1. \A x \in 1..len + 1 : val[list[k + x - 1]] \in V
    <3>1. \A x \in 1..len + 1 : k + x - 1 \in 1..Len(list)
      BY <1>1
    <3> HIDE DEF len, V, list
    <3> QED
      BY <3>1, <1>1
  <2>2. r = [x \in 1..len + 1 |-> val[list[k + x - 1]]]
    BY DEF Rest
  <2> HIDE DEF V, len, r
  <2> QED
    BY <2>1, <2>2, <1>1, LenProperties
<1>6. \A x \in 1..len + 1 : t[x] = r[x]
  <2>1. ASSUME NEW x \in 1..len + 1 PROVE k + (x - 1) = k + x - 1 /\ (x <= 1 => k = k + x - 1)
    BY <1>1
  <2> HIDE DEF t, r, list, len
  <2> QED
    BY <1>4, <1>5, <2>1
<1> HIDE DEF t, r, V, len
<1>7. t = r
  BY <1>4, <1>5, <1>6, SeqEqual
<1> QED
  BY <1>7 DEF t, r

LEMMA RestLast ==
  ASSUME NEW lists, NEW I, NEW n, NEW next, Strung(lists, I, n, next), NEW val,
         NEW i \in I, NEW k \in 1..Len(lists[i]), k = Len(lists[i])
  PROVE  <<val[lists[i][k]]>> \o <<>> = Rest(lists[i], k, val)
BY RestStep

LEMMA RestMore ==
  ASSUME NEW lists, NEW I, NEW n, NEW next, Strung(lists, I, n, next), NEW val,
         NEW i \in I, NEW k \in 1..Len(lists[i]), k # Len(lists[i])
  PROVE  <<val[lists[i][k]]>> \o Rest(lists[i], k + 1, val) = Rest(lists[i], k, val)
BY RestStep

LEMMA ReadExists ==
  ASSUME NEW lists, NEW I, NEW n \in Nat, NEW next, Strung(lists, I, n, next), NEW val
  PROVE  \E f : Reads(f, n, next, val)
<1> DEFINE At(a, s) == IF a = 0 THEN s = <<>>
                       ELSE \E i \in I : \E k \in 1..Len(lists[i]) :
                              lists[i][k] = a /\ s = Rest(lists[i], k, val)
           F == [a \in 0..n |-> CHOOSE s : At(a, s)]
<1>1. ASSUME NEW i \in I, NEW k \in 1..Len(lists[i])
      PROVE  At(lists[i][k], Rest(lists[i], k, val))
  <2>1. lists[i][k] # 0
    BY StrungTypes
  <2> QED
    BY <2>1
<1>2. ASSUME NEW i \in I, NEW k \in 1..Len(lists[i]), NEW s, At(lists[i][k], s)
      PROVE  s = Rest(lists[i], k, val)
  <2>1. lists[i][k] # 0
    BY StrungTypes
  <2>2. PICK j \in I : \E l \in 1..Len(lists[j]) :
               lists[j][l] = lists[i][k] /\ s = Rest(lists[j], l, val)
    BY <2>1, <1>2
  <2>3. PICK l \in 1..Len(lists[j]) : lists[j][l] = lists[i][k] /\ s = Rest(lists[j], l, val)
    BY <2>2
  <2>4. j = i /\ l = k
    BY <2>3, StrungOnce
  <2> QED
    BY <2>3, <2>4
<1>3. \A s : At(0, s) <=> s = <<>>
  OBVIOUS
<1>4. F[0] = <<>>
  BY <1>3
<1> HIDE DEF At
<1>5. ASSUME NEW i \in I, NEW k \in 1..Len(lists[i])
      PROVE  F[lists[i][k]] = Rest(lists[i], k, val)
  <2>1. lists[i][k] \in 0..n
    BY StrungTypes
  <2> QED
    BY <2>1, <1>1, <1>2
<1> HIDE DEF F
<1>6. ASSUME NEW a \in 1..n PROVE F[a] = <<val[a]>> \o F[next[a]]
  <2>1. PICK i \in I : \E k \in 1..Len(lists[i]) : lists[i][k] = a
    BY StrungPlace
  <2>2. PICK k \in 1..Len(lists[i]) : lists[i][k] = a
    BY <2>1
  <2>3. F[a] = Rest(lists[i], k, val)
    BY <2>2, <1>5
  <2>4. CASE k = Len(lists[i])
    <3>1. F[next[a]] = <<>>
      BY <2>2, <2>4, <1>4, StrungLinks
    <3> QED
      BY <2>2, <2>3, <2>4, <3>1, RestLast
  <2>5. CASE k # Len(lists[i])
    <3>1. k + 1 \in 1..Len(lists[i]) /\ next[a] = lists[i][k + 1]
      BY <2>2, <2>5, StrungLinks
    <3>2. F[next[a]] = Rest(lists[i], k + 1, val)
      BY <3>1, <1>5
    <3> QED
      BY <2>2, <2>3, <2>5, <3>2, RestMore
  <2> QED
    BY <2>4, <2>5
<1>7. \A a \in 0..n : F[a] = IF a = 0 THEN <<>> ELSE <<val[a]>> \o F[next[a]]
  <2>1. \A a \in 0..n : a # 0 => a \in 1..n
    OBVIOUS
  <2> QED
    BY <2>1, <1>4, <1>6
<1>8. F = [a \in 0..n |-> F[a]]
  BY DEF F
<1>9. F = [a \in 0..n |-> IF a = 0 THEN <<>> ELSE <<val[a]>> \o F[next[a]]]
  BY <1>7, <1>8, Zenon
<1> QED
  BY <1>9 DEF Reads

Reading(lists, I, n, next, val, f) ==
  n \in Nat /\ Strung(lists, I, n, next) /\ Reads(f, n, next, val)

LEMMA ReadFinds ==
  ASSUME NEW lists, NEW I, NEW n, NEW next, NEW val, NEW f,
         Reading(lists, I, n, next, val, f), NEW i \in I, NEW k \in 1..Len(lists[i])
  PROVE  f[lists[i][k]] = Rest(lists[i], k, val)
<1>9. n \in Nat /\ Strung(lists, I, n, next) /\ Reads(f, n, next, val)
  BY DEF Reading
<1> DEFINE len == Len(lists[i])
           S == {d \in Nat : d < len => f[lists[i][len - d]] = Rest(lists[i], len - d, val)}
<1>1. \A j \in 1..len : f[lists[i][j]] = <<val[lists[i][j]]>> \o f[next[lists[i][j]]]
  <2>1. \A a \in 0..n : f[a] = IF a = 0 THEN <<>> ELSE <<val[a]>> \o f[next[a]]
    BY <1>9, Zenon DEF Reads
  <2> QED
    <3>1. \A j \in 1..len : lists[i][j] \in 0..n /\ lists[i][j] # 0
      BY <1>9, StrungTypes
    <3> QED
      BY <2>1, <3>1
<1>2. f[0] = <<>>
  BY <1>9 DEF Reads
<1>3. len \in Nat
  BY <1>9, StrungTypes
<1>4. 0 \in S
  <2> SUFFICES ASSUME 0 < len PROVE f[lists[i][len]] = Rest(lists[i], len, val)
    BY <1>3
  <2>1. len \in 1..Len(lists[i])
    BY <1>3
  <2>2. next[lists[i][len]] = 0
    BY <2>1, <1>9, StrungLinks
  <2>3. f[lists[i][len]] = <<val[lists[i][len]]>> \o <<>>
    BY <2>1, <2>2, <1>1, <1>2
  <2> QED
    BY <2>1, <2>3, <1>9, RestLast
<1>5. ASSUME NEW d \in Nat, d \in S PROVE d + 1 \in S
  <2> SUFFICES ASSUME d + 1 < len
               PROVE  f[lists[i][len - (d + 1)]] = Rest(lists[i], len - (d + 1), val)
    OBVIOUS
  <2> DEFINE j == len - (d + 1)
  <2>1. j \in 1..len /\ j # len /\ j + 1 = len - d /\ d < len
    BY <1>3
  <2>2. f[lists[i][len - d]] = Rest(lists[i], len - d, val)
    BY <1>5, <2>1
  <2> HIDE DEF j
  <2>3. f[lists[i][j + 1]] = Rest(lists[i], j + 1, val)
    BY <2>1, <2>2
  <2>4. next[lists[i][j]] = lists[i][j + 1]
    BY <2>1, <1>9, StrungLinks
  <2>5. f[lists[i][j]] = <<val[lists[i][j]]>> \o Rest(lists[i], j + 1, val)
    BY <2>1, <2>3, <2>4, <1>1
  <2>6. f[lists[i][j]] = Rest(lists[i], j, val)
    BY <2>1, <2>5, <1>9, RestMore
  <2> QED
    BY <2>6 DEF j
<1>6. len - k \in Nat /\ len - k < len /\ len - (len - k) = k
  BY <1>3
<1> HIDE DEF S, len
<1>7. len - k \in S
  BY <1>4, <1>5, <1>6, Induction
<1> QED
  BY <1>6, <1>7 DEF S

-----------------------------------------------------------------------------
(* The list of groups.                                                     *)

Item == [group : Nat, next_item : Nat, msg_list_head : Nat]
NextOf(mem) == [a \in 1..Len(mem) |-> mem[a].next_item]

\* The items its, the first at gl, are linked in the order ord, by their groups.
Ordered(its, gl, ord) ==
  /\ Strung([i \in {1} |-> ord], {1}, Len(its), NextOf(its))
  /\ Len(ord) = Len(its)
  /\ gl = IF Len(ord) = 0 THEN Null ELSE ord[1]
  /\ \A j, k \in 1..Len(ord) : j < k => its[ord[j]].group < its[ord[k]].group

LEMMA ItemTypes ==
  ASSUME NEW its \in Seq(Item)
  PROVE  /\ Len(its) \in Nat
         /\ \A a \in 1..Len(its) : its[a] \in Item /\ its[a].group \in Nat
<1>1. \A a \in 1..Len(its) : its[a] \in Item
  BY ElementOfSeq
<1> QED
  BY <1>1, LenProperties DEF Item

LEMMA OrderedFacts ==
  ASSUME NEW its \in Seq(Item), NEW gl, NEW ord, Ordered(its, gl, ord)
  PROVE  /\ Len(its) \in Nat /\ Len(ord) = Len(its)
         /\ ord \in Seq(1..Len(its))
         /\ \A k \in 1..Len(its) :
              /\ ord[k] \in 1..Len(its)
              /\ k = Len(its) => its[ord[k]].next_item = Null
              /\ k # Len(its) => its[ord[k]].next_item = ord[k + 1]
         /\ \A i \in 1..Len(its) : \E k \in 1..Len(its) : ord[k] = i
         /\ \A j, k \in 1..Len(its) : ord[j] = ord[k] => j = k
<1> DEFINE lists == [i \in {1} |-> ord]
           next == NextOf(its)
           n == Len(its)
<1>1. Strung(lists, {1}, n, next) /\ lists[1] = ord /\ 1 \in {1} /\ Len(ord) = n
  BY DEF Ordered
<1>2. \A a \in 1..n : next[a] = its[a].next_item
  BY DEF NextOf
<1> HIDE DEF lists, next
<1>3. n \in Nat
  OBVIOUS
<1>4. ord \in Seq(1..n) /\ \A k \in 1..n : ord[k] \in 1..n
  BY <1>1, StrungTypes
<1> HIDE DEF n
<1>5. ASSUME NEW k \in 1..n
      PROVE  /\ k = n => next[ord[k]] = 0
             /\ k # n => next[ord[k]] = ord[k + 1]
  BY <1>1, StrungLinks
<1>6. ASSUME NEW i \in 1..n PROVE \E k \in 1..n : ord[k] = i
  <2>1. PICK x \in {1} : \E k \in 1..Len(lists[x]) : lists[x][k] = i
    BY <1>1, StrungPlace
  <2>2. x = 1
    OBVIOUS
  <2> QED
    BY <2>1, <2>2, <1>1
<1>7. ASSUME NEW j \in 1..n, NEW k \in 1..n, ord[j] = ord[k] PROVE j = k
  BY <1>1, <1>7, StrungOnce
<1> QED
  BY <1>1, <1>2, <1>3, <1>4, <1>5, <1>6, <1>7 DEF n, Null

LEMMA OrderedOnto ==
  ASSUME NEW its \in Seq(Item), NEW gl, NEW ord, Ordered(its, gl, ord)
  PROVE  \A i \in 1..Len(its) : \E k \in 1..Len(its) : ord[k] = i
BY OrderedFacts

LEMMA OrderedOnce ==
  ASSUME NEW its \in Seq(Item), NEW gl, NEW ord, Ordered(its, gl, ord)
  PROVE  \A j, k \in 1..Len(its) : ord[j] = ord[k] => j = k
BY OrderedFacts

LEMMA OrderedIntro ==
  ASSUME NEW its \in Seq(Item), NEW gl, NEW ord \in Seq(1..Len(its)), Len(ord) = Len(its),
         gl = IF Len(ord) = 0 THEN Null ELSE ord[1],
         \A k \in 1..Len(its) :
           its[ord[k]].next_item = IF k = Len(its) THEN Null ELSE ord[k + 1],
         \A i \in 1..Len(its) : \E k \in 1..Len(its) : ord[k] = i,
         \A j, k \in 1..Len(its) : j < k => its[ord[j]].group < its[ord[k]].group
  PROVE  Ordered(its, gl, ord)
<1> DEFINE lists == [i \in {1} |-> ord]
           next == NextOf(its)
           n == Len(its)
<1>1. n \in Nat /\ \A k \in 1..n : ord[k] \in 1..n
  BY ElementOfSeq, LenProperties
<1>2. \A a \in 1..n : its[a].group \in Nat
  BY ItemTypes
<1>3. \A a \in 1..n : next[a] = its[a].next_item
  BY DEF NextOf
<1>4. lists \in [{1} -> Seq(1..n)] /\ lists[1] = ord /\ \A i \in {1} : i = 1
  OBVIOUS
<1>5. \A j, k \in 1..n : ord[j] = ord[k] => j = k
  <2> SUFFICES ASSUME NEW j \in 1..n, NEW k \in 1..n, ord[j] = ord[k], j < k PROVE FALSE
    BY <1>1
  <2> DEFINE x == its[ord[k]].group
  <2>1. x < x /\ x \in Nat
    BY <1>1, <1>2
  <2> HIDE DEF x
  <2> QED
    BY <2>1
<1>6. \A k \in 1..n : next[ord[k]] = IF k = n THEN 0 ELSE ord[k + 1]
  BY <1>1, <1>3 DEF Null
<1> HIDE DEF lists, next, n
<1>7. Len(ord) = n
  BY DEF n
<1>8. \A a \in 1..n : \E k \in 1..Len(ord) : ord[k] = a
  BY <1>7 DEF n
<1>9. Strung(lists, {1}, n, next)
  <2>1. \A i \in {1} : \A k \in 1..Len(lists[i]) :
          next[lists[i][k]] = IF k = Len(lists[i]) THEN 0 ELSE lists[i][k + 1]
    BY <1>4, <1>6, <1>7
  <2>2. \A a \in 1..n : \E i \in {1} : \E k \in 1..Len(lists[i]) : lists[i][k] = a
    BY <1>4, <1>8
  <2>3. ASSUME NEW i \in {1}, NEW j \in {1},
               NEW k \in 1..Len(lists[i]), NEW l \in 1..Len(lists[j]),
               lists[i][k] = lists[j][l]
        PROVE  i = j /\ k = l
    <3>1. lists[i] = ord /\ lists[j] = ord /\ i = j
      BY <1>4
    <3> QED
      BY <2>3, <3>1, <1>5, <1>7
  <2> QED
    BY <1>4, <2>1, <2>2, <2>3 DEF Strung
<1> QED
  BY <1>9 DEF Ordered, lists, next, n

\* A change of the heads alone does not disturb the order.
LEMMA OrderKept ==
  ASSUME NEW its \in Seq(Item), NEW gl, NEW ord, Ordered(its, gl, ord),
         NEW its2 \in Seq(Item), Len(its2) = Len(its),
         \A i \in 1..Len(its) : /\ its2[i].group = its[i].group
                                /\ its2[i].next_item = its[i].next_item
  PROVE  Ordered(its2, gl, ord)
<1>1. NextOf(its2) = NextOf(its)
  BY DEF NextOf
<1>2. \A k \in 1..Len(its) : ord[k] \in 1..Len(its)
  BY OrderedFacts
<1> QED
  BY <1>1, <1>2 DEF Ordered

Inserted(ord, p, new) ==
  [k \in 1..Len(ord) + 1 |-> IF k <= p THEN ord[k] ELSE IF k = p + 1 THEN new ELSE ord[k - 1]]

\* A new item is linked behind the first p.
LEMMA OrderInserted ==
  ASSUME NEW its \in Seq(Item), NEW gl, NEW ord, Ordered(its, gl, ord),
         NEW p \in 0..Len(its), NEW g \in Nat,
         \A j \in 1..p : its[ord[j]].group < g,
         \A j \in p + 1..Len(its) : g < its[ord[j]].group,
         NEW its2 \in Seq(Item), Len(its2) = Len(its) + 1,
         its2[Len(its) + 1].group = g,
         its2[Len(its) + 1].next_item = IF p = Len(its) THEN Null ELSE ord[p + 1],
         \A i \in 1..Len(its) :
           /\ its2[i].group = its[i].group
           /\ its2[i].next_item = IF p > 0 /\ i = ord[p] THEN Len(its) + 1 ELSE its[i].next_item
  PROVE  Ordered(its2, IF p = 0 THEN Len(its) + 1 ELSE gl, Inserted(ord, p, Len(its) + 1))
<1>20. /\ Len(its) \in Nat /\ Len(ord) = Len(its)
       /\ \A k \in 1..Len(its) :
            /\ ord[k] \in 1..Len(its)
            /\ k = Len(its) => its[ord[k]].next_item = Null
            /\ k # Len(its) => its[ord[k]].next_item = ord[k + 1]
  BY OrderedFacts
<1>21. \A i \in 1..Len(its) : \E k \in 1..Len(its) : ord[k] = i
  BY OrderedOnto
<1>22. \A j, k \in 1..Len(its) : ord[j] = ord[k] => j = k
  BY OrderedOnce
<1> DEFINE n == Len(its)
           new == n + 1
           ord2 == Inserted(ord, p, new)
<1>1. /\ n \in Nat /\ Len(ord) = n
      /\ \A k \in 1..n : /\ ord[k] \in 1..n
                         /\ k = n => its[ord[k]].next_item = Null
                         /\ k # n => its[ord[k]].next_item = ord[k + 1]
      /\ \A i \in 1..n : \E k \in 1..n : ord[k] = i
      /\ \A j, k \in 1..n : ord[j] = ord[k] => j = k
  BY <1>20, <1>21, <1>22
<1>2. gl = IF n = 0 THEN Null ELSE ord[1]
  BY <1>1 DEF Ordered
<1>3. \A j, k \in 1..n : j < k => its[ord[j]].group < its[ord[k]].group
  BY <1>1 DEF Ordered
<1>23. n \in Nat /\ p \in 0..n /\ p \in Nat
  BY <1>1
<1> HIDE DEF n
<1>24. ord2 = [k \in 1..new |-> IF k <= p THEN ord[k] ELSE IF k = p + 1 THEN new ELSE ord[k - 1]]
  BY <1>1, Zenon DEF Inserted
<1> HIDE DEF ord2
<1>25. \A k \in 1..new : ord2[k] = IF k <= p THEN ord[k] ELSE IF k = p + 1 THEN new ELSE ord[k - 1]
  BY <1>24
<1>26. /\ \A k \in 1..p : k \in 1..n /\ k \in 1..new /\ k <= p
       /\ p + 1 \in 1..new /\ ~(p + 1 <= p)
       /\ \A k \in p + 2..new : /\ k - 1 \in p + 1..n /\ k - 1 \in 1..n /\ k \in 1..new
                               /\ ~(k <= p) /\ k # p + 1
  BY <1>23
<1>4. /\ \A k \in 1..p : k \in 1..n /\ ord2[k] = ord[k]
      /\ ord2[p + 1] = new
      /\ \A k \in p + 2..new : k - 1 \in p + 1..n /\ k - 1 \in 1..n /\ ord2[k] = ord[k - 1]
  BY <1>25, <1>26
<1>5. \A k \in 1..new : k \in 1..p \/ k = p + 1 \/ k \in p + 2..new
  BY <1>23
<1>6. ord2 \in [1..new -> 1..new]
  <2>6. new \in 1..new /\ \A k \in 1..n : k \in 1..new
    BY <1>23
  <2>4. \A k \in 1..new : ord2[k] \in 1..new
    <3> HIDE DEF new
    <3>1. \A k \in 1..p : ord2[k] \in 1..new
      BY <2>6, <1>1, <1>4
    <3>2. ASSUME NEW k \in p + 2..new PROVE ord2[k] \in 1..new
      <4>1. ord2[k] = ord[k - 1] /\ k - 1 \in 1..n
        BY <1>4
      <4> DEFINE j == k - 1
      <4> HIDE DEF j
      <4>2. ord2[k] = ord[j] /\ j \in 1..n
        BY <4>1 DEF j
      <4> QED
        BY <4>2, <2>6, <1>1
    <3> QED
      BY <3>1, <3>2, <2>6, <1>4, <1>5
  <2>5. ord2 = [k \in 1..new |-> ord2[k]]
    BY <1>24
  <2> HIDE DEF new
  <2> QED
    BY <2>4, <2>5
<1>7. ord2 \in Seq(1..new) /\ Len(ord2) = new
  <2>1. new \in Nat
    BY <1>23
  <2> HIDE DEF new
  <2> QED
    BY <2>1, <1>6, LenProperties
<1>8. ASSUME NEW k \in 1..new
      PROVE  its2[ord2[k]].next_item = IF k = new THEN Null ELSE ord2[k + 1]
  <2>1. CASE k \in 1..p /\ k # p
    <3>4. k + 1 \in 1..p /\ k # n /\ k # new /\ p \in 1..n /\ k \in 1..n
      BY <2>1, <1>23
    <3>1. k + 1 \in 1..p /\ k # n /\ ord[k] # ord[p] /\ k # new
      BY <2>1, <3>4, <1>1
    <3>2. its2[ord[k]].next_item = its[ord[k]].next_item
      BY <2>1, <3>1, <1>1, <1>4 DEF n
    <3>3. ord2[k] = ord[k] /\ ord2[k + 1] = ord[k + 1] /\ k \in 1..n
      BY <2>1, <3>1, <1>4
    <3>5. its[ord[k]].next_item = ord[k + 1]
      BY <3>1, <3>3, <1>1
    <3> QED
      BY <3>1, <3>2, <3>3, <3>5
  <2>2. CASE k = p /\ p > 0
    <3>1. k \in 1..p /\ k # new
      BY <2>2, <1>1 DEF n
    <3>2. its2[ord[k]].next_item = new
      BY <2>2, <3>1, <1>1, <1>4 DEF n
    <3> QED
      BY <2>2, <3>1, <3>2, <1>4
  <2>3. CASE k = p + 1
    <3>1. CASE p = n
      BY <2>3, <3>1, <1>1, <1>4 DEF n
    <3>2. CASE p # n
      <4>1. p + 2 \in p + 2..new /\ k # new /\ (p + 2) - 1 = p + 1 /\ k + 1 = p + 2
        BY <2>3, <3>2, <1>1 DEF n
      <4>2. ord2[p + 2] = ord[p + 1]
        BY <4>1, <1>4
      <4> QED
        BY <2>3, <3>2, <4>1, <4>2, <1>4 DEF n
    <3> QED
      BY <3>1, <3>2
  <2>4. CASE k \in p + 2..new
    <3>1. k - 1 \in 1..n /\ ord2[k] = ord[k - 1] /\ ord[k - 1] \in 1..n
      BY <2>4, <1>1, <1>4
    <3>2. p > 0 => ord[k - 1] # ord[p]
      BY <2>4, <3>1, <1>1 DEF n
    <3>3. its2[ord2[k]].next_item = its[ord[k - 1]].next_item
      BY <3>1, <3>2 DEF n
    <3>4. CASE k = new
      BY <3>4, <3>1, <3>3, <1>1
    <3>5. CASE k # new
      <4>1. k + 1 \in p + 2..new /\ (k + 1) - 1 = k /\ k - 1 # n /\ (k - 1) + 1 = k
        BY <2>4, <3>5, <1>23
      <4>2. ord2[k + 1] = ord[k]
        BY <4>1, <1>4
      <4>3. its[ord[k - 1]].next_item = ord[(k - 1) + 1]
        BY <3>1, <4>1, <1>1
      <4> QED
        BY <3>3, <3>5, <4>1, <4>2, <4>3
    <3> QED
      BY <3>4, <3>5
  <2> QED
    BY <2>1, <2>2, <2>3, <2>4, <1>5, <1>1 DEF n
<1>9. ASSUME NEW i \in 1..new PROVE \E k \in 1..new : ord2[k] = i
  <2>1. CASE i = new
    BY <2>1, <1>4, <1>1 DEF n
  <2>2. CASE i # new
    <3>1. PICK k \in 1..n : ord[k] = i
      BY <2>2, <1>1
    <3>2. CASE k <= p
      <4>1. k \in 1..p /\ k \in 1..new
        BY <3>2, <1>1
      <4> QED
        BY <3>1, <4>1, <1>4
    <3>3. CASE k > p
      <4>1. k + 1 \in p + 2..new /\ (k + 1) - 1 = k /\ k + 1 \in 1..new
        BY <3>3, <1>1 DEF n
      <4> QED
        BY <3>1, <4>1, <1>4
    <3> QED
      BY <3>2, <3>3, <1>1 DEF n
  <2> QED
    BY <2>1, <2>2
<1>10. ASSUME NEW j \in 1..new, NEW k \in 1..new, j < k
       PROVE  its2[ord2[j]].group < its2[ord2[k]].group
  <2>1. ASSUME NEW x \in 1..p PROVE its2[ord2[x]].group = its[ord[x]].group
    BY <1>1, <1>4 DEF n
  <2>2. ASSUME NEW x \in p + 2..new PROVE its2[ord2[x]].group = its[ord[x - 1]].group
    BY <1>1, <1>4 DEF n
  <2>3. its2[ord2[p + 1]].group = g
    BY <1>4 DEF n
  <2>4. \A x \in 1..n : its[ord[x]].group \in Nat
    BY <1>1, ItemTypes DEF n
  <2>5. CASE j \in 1..p /\ k \in 1..p
    BY <2>5, <2>1, <1>3, <1>4, <1>10
  <2>6. CASE j \in 1..p /\ k = p + 1
    BY <2>6, <2>1, <2>3
  <2>7. CASE j \in 1..p /\ k \in p + 2..new
    <3>1. its[ord[j]].group < g /\ g < its[ord[k - 1]].group /\ j \in 1..n /\ k - 1 \in 1..n
      BY <2>7, <1>4 DEF n
    <3> QED
      BY <2>7, <3>1, <2>1, <2>2, <2>4
  <2>8. CASE j = p + 1 /\ k \in p + 2..new
    BY <2>8, <2>2, <2>3, <1>4 DEF n
  <2>9. CASE j \in p + 2..new /\ k \in p + 2..new
    <3>1. j - 1 \in 1..n /\ k - 1 \in 1..n /\ j - 1 < k - 1
      BY <2>9, <1>4, <1>10
    <3> QED
      BY <2>9, <3>1, <2>2, <1>3
  <2> QED
    BY <2>5, <2>6, <2>7, <2>8, <2>9, <1>5, <1>10, <1>1 DEF n
<1>11. IF p = 0 THEN ord2[1] = new ELSE ord2[1] = ord[1] /\ gl = ord[1]
  BY <1>1, <1>2, <1>4 DEF n
<1>12. Len(its2) = new /\ Len(ord2) # 0
  BY <1>1, <1>7 DEF n
<1> HIDE DEF new
<1>13. Ordered(its2, IF p = 0 THEN new ELSE gl, ord2)
  <2> DEFINE gl2 == IF p = 0 THEN new ELSE gl
  <2>1. gl2 = IF Len(ord2) = 0 THEN Null ELSE ord2[1]
    BY <1>11, <1>12
  <2>2. Len(ord2) = Len(its2) /\ ord2 \in Seq(1..Len(its2))
    BY <1>7, <1>12
  <2>3. \A k \in 1..Len(its2) : its2[ord2[k]].next_item = IF k = Len(its2) THEN Null ELSE ord2[k + 1]
    BY <1>8, <1>12
  <2>4. \A i \in 1..Len(its2) : \E k \in 1..Len(its2) : ord2[k] = i
    BY <1>9, <1>12
  <2>5. \A j, k \in 1..Len(its2) : j < k => its2[ord2[j]].group < its2[ord2[k]].group
    BY <1>10, <1>12
  <2> HIDE DEF gl2
  <2>6. Ordered(its2, gl2, ord2)
    BY <2>1, <2>2, <2>3, <2>4, <2>5, OrderedIntro
  <2> QED
    BY <2>6 DEF gl2
<1> QED
  BY <1>13 DEF ord2, n, new

-----------------------------------------------------------------------------
(* The lists of messages.                                                  *)

Message == [next_item : Nat, mesg : Clients \cup {Garbage}]

\* Each item of its has a list of messages of its own in ms.
Listed(its, ms, lists) ==
  /\ Strung(lists, 1..Len(its), Len(ms), NextOf(ms))
  /\ \A i \in 1..Len(its) :
       its[i].msg_list_head = IF Len(lists[i]) = 0 THEN Null ELSE lists[i][1]

\* No two lists have an address in common, and none has one twice.
Apart(lists, n) ==
  \A i, j \in 1..n : \A k \in 1..Len(lists[i]) : \A l \in 1..Len(lists[j]) :
    lists[i][k] = lists[j][l] => i = j /\ k = l

LEMMA ApartOnce ==
  ASSUME NEW lists, NEW n, Apart(lists, n), NEW i \in 1..n, NEW j \in 1..n,
         NEW k \in 1..Len(lists[i]), NEW l \in 1..Len(lists[j]), lists[i][k] = lists[j][l]
  PROVE  i = j /\ k = l
BY DEF Apart

\* Every address is in one of them.
Covering(lists, n, m) ==
  \A a \in 1..m : \E i \in 1..n : \E k \in 1..Len(lists[i]) : lists[i][k] = a

LEMMA ListedFacts ==
  ASSUME NEW its, NEW ms, NEW lists, Listed(its, ms, lists)
  PROVE  /\ lists \in [1..Len(its) -> Seq(1..Len(ms))]
         /\ \A i \in 1..Len(its) :
              /\ lists[i] \in Seq(1..Len(ms)) /\ Len(lists[i]) \in Nat
              /\ \A k \in 1..Len(lists[i]) :
                   /\ lists[i][k] \in 1..Len(ms)
                   /\ ms[lists[i][k]].next_item
                        = IF k = Len(lists[i]) THEN Null ELSE lists[i][k + 1]
         /\ Covering(lists, Len(its), Len(ms))
         /\ Apart(lists, Len(its))
<1> DEFINE I == 1..Len(its)
           m == Len(ms)
           next == NextOf(ms)
<1>1. Strung(lists, I, m, next)
  BY DEF Listed
<1>2. \A a \in 1..m : next[a] = ms[a].next_item
  BY DEF NextOf
<1> HIDE DEF I, m, next
<1>3. ASSUME NEW i \in I
      PROVE  /\ lists[i] \in Seq(1..m) /\ Len(lists[i]) \in Nat
             /\ \A k \in 1..Len(lists[i]) : lists[i][k] \in 1..m
  BY <1>1, StrungTypes
<1>4. ASSUME NEW i \in I, NEW k \in 1..Len(lists[i])
      PROVE  ms[lists[i][k]].next_item = IF k = Len(lists[i]) THEN Null ELSE lists[i][k + 1]
  BY <1>1, <1>2, <1>3, StrungLinks DEF Null
<1>5. ASSUME NEW a \in 1..m PROVE \E i \in I : \E k \in 1..Len(lists[i]) : lists[i][k] = a
  BY <1>1, StrungPlace
<1>6. ASSUME NEW i \in I, NEW j \in I, NEW k \in 1..Len(lists[i]), NEW l \in 1..Len(lists[j]),
             lists[i][k] = lists[j][l]
      PROVE  i = j /\ k = l
  BY <1>1, <1>6, StrungOnce
<1>7. lists \in [I -> Seq(1..m)]
  BY <1>1 DEF Strung
<1>8. Apart(lists, Len(its))
  BY <1>6, Zenon DEF I, Apart
<1>9. Covering(lists, Len(its), m)
  BY <1>5, Zenon DEF I, Covering
<1> QED
  BY <1>3, <1>4, <1>7, <1>8, <1>9 DEF I, m

LEMMA ListedIntro ==
  ASSUME NEW its, NEW ms, NEW lists,
         \A i \in 1..Len(its) :
           its[i].msg_list_head = IF Len(lists[i]) = 0 THEN Null ELSE lists[i][1],
         lists \in [1..Len(its) -> Seq(1..Len(ms))],
         \A i \in 1..Len(its) : \A k \in 1..Len(lists[i]) :
           ms[lists[i][k]].next_item = IF k = Len(lists[i]) THEN Null ELSE lists[i][k + 1],
         Covering(lists, Len(its), Len(ms)),
         Apart(lists, Len(its))
  PROVE  Listed(its, ms, lists)
<1> DEFINE I == 1..Len(its)
           m == Len(ms)
           next == NextOf(ms)
<1>1. \A a \in 1..m : next[a] = ms[a].next_item
  BY DEF NextOf
<1>2. \A i \in I : lists[i] \in Seq(1..m)
  OBVIOUS
<1> HIDE DEF next
<1>3. \A i \in I : \A k \in 1..Len(lists[i]) : lists[i][k] \in 1..m
  BY <1>2, ElementOfSeq
<1>4. ASSUME NEW i \in I, NEW k \in 1..Len(lists[i])
      PROVE  next[lists[i][k]] = IF k = Len(lists[i]) THEN 0 ELSE lists[i][k + 1]
  <2>1. next[lists[i][k]] = ms[lists[i][k]].next_item
    BY <1>1, <1>3
  <2>2. ms[lists[i][k]].next_item = IF k = Len(lists[i]) THEN Null ELSE lists[i][k + 1]
    OBVIOUS
  <2> QED
    BY <2>1, <2>2 DEF Null
<1>5. /\ lists \in [I -> Seq(1..m)]
      /\ \A a \in 1..m : \E i \in I : \E k \in 1..Len(lists[i]) : lists[i][k] = a
      /\ \A i, j \in I : \A k \in 1..Len(lists[i]) : \A l \in 1..Len(lists[j]) :
           lists[i][k] = lists[j][l] => i = j /\ k = l
  BY DEF Apart, Covering
<1> HIDE DEF I, m
<1>6. Strung(lists, I, m, next)
  BY <1>4, <1>5 DEF Strung
<1> QED
  BY <1>6 DEF Listed, next, I, m

\* A new item begins without messages.
LEMMA ListAdded ==
  ASSUME NEW its \in Seq(Item), NEW ms, NEW lists, Listed(its, ms, lists),
         NEW its2 \in Seq(Item), Len(its2) = Len(its) + 1,
         its2[Len(its) + 1].msg_list_head = Null,
         \A i \in 1..Len(its) : its2[i].msg_list_head = its[i].msg_list_head
  PROVE  Listed(its2, ms, [i \in 1..Len(its) + 1 |-> IF i = Len(its) + 1 THEN <<>> ELSE lists[i]])
<1> DEFINE n == Len(its)
           lists2 == [i \in 1..n + 1 |-> IF i = n + 1 THEN <<>> ELSE lists[i]]
           m == Len(ms)
<1>1. n \in Nat
  BY ItemTypes
<1>2. /\ \A i \in 1..n : i \in 1..n + 1 /\ i # n + 1 /\ lists2[i] = lists[i]
      /\ lists2[n + 1] = <<>> /\ Len(lists2[n + 1]) = 0
      /\ \A i \in 1..n + 1 : i = n + 1 \/ i \in 1..n
  BY <1>1
<1>3. /\ \A i \in 1..n :
           /\ lists[i] \in Seq(1..m) /\ Len(lists[i]) \in Nat
           /\ \A k \in 1..Len(lists[i]) :
                ms[lists[i][k]].next_item = IF k = Len(lists[i]) THEN Null ELSE lists[i][k + 1]
      /\ Covering(lists, n, m)
      /\ Apart(lists, n)
  BY ListedFacts
<1>4. \A i \in 1..n : its[i].msg_list_head = IF Len(lists[i]) = 0 THEN Null ELSE lists[i][1]
  BY DEF Listed
<1>5. lists2 \in [1..n + 1 -> Seq(1..m)]
  <2>1. <<>> \in Seq(1..m)
    OBVIOUS
  <2>2. \A i \in 1..n + 1 : lists2[i] \in Seq(1..m)
    BY <1>2, <1>3, <2>1
  <2>3. lists2 = [i \in 1..n + 1 |-> lists2[i]]
    OBVIOUS
  <2> HIDE DEF lists2
  <2> QED
    BY <2>2, <2>3
<1>6. Len(its2) = n + 1 /\ its2[n + 1].msg_list_head = Null
      /\ \A i \in 1..n : its2[i].msg_list_head = its[i].msg_list_head
  OBVIOUS
<1> HIDE DEF lists2, m, n
<1>7. \A i \in 1..n + 1 : \A k \in 1..Len(lists2[i]) : i \in 1..n /\ lists2[i] = lists[i]
  BY <1>2
<1>8. \A i \in 1..n + 1 : \A k \in 1..Len(lists2[i]) :
        ms[lists2[i][k]].next_item = IF k = Len(lists2[i]) THEN Null ELSE lists2[i][k + 1]
  BY <1>3, <1>7
<1>9. Covering(lists2, n + 1, m)
  BY <1>3, <1>2 DEF Covering
<1>10. ASSUME NEW i \in 1..n + 1, NEW j \in 1..n + 1,
              NEW k \in 1..Len(lists2[i]), NEW l \in 1..Len(lists2[j]),
              lists2[i][k] = lists2[j][l]
       PROVE  i = j /\ k = l
  <2>1. i \in 1..n /\ j \in 1..n /\ lists2[i] = lists[i] /\ lists2[j] = lists[j]
    BY <1>7
  <2> QED
    BY <2>1, <1>3, <1>10 DEF Apart
<1>13. Apart(lists2, n + 1)
  BY <1>10, Zenon DEF Apart
<1>11. \A i \in 1..n + 1 :
         its2[i].msg_list_head = IF Len(lists2[i]) = 0 THEN Null ELSE lists2[i][1]
  BY <1>2, <1>4, <1>6
<1>12. Listed(its2, ms, lists2)
  BY <1>5, <1>6, <1>8, <1>9, <1>11, <1>13, ListedIntro DEF m
<1> QED
  BY <1>12 DEF lists2, n

\* A new message is linked behind the last of the list of an item.
LinksMessage(its, ms, lists, item, its2, ms2) ==
  /\ Len(its2) = Len(its) /\ ms2 \in Seq(Message) /\ Len(ms2) = Len(ms) + 1
  /\ ms2[Len(ms) + 1].next_item = Null
  /\ \A a \in 1..Len(ms) :
       ms2[a].next_item = IF Len(lists[item]) > 0 /\ a = lists[item][Len(lists[item])]
                          THEN Len(ms) + 1 ELSE ms[a].next_item
  /\ \A i \in 1..Len(its) :
       its2[i].msg_list_head = IF i = item /\ Len(lists[item]) = 0
                               THEN Len(ms) + 1 ELSE its[i].msg_list_head

LEMMA MessageAdded ==
  ASSUME NEW its \in Seq(Item), NEW ms \in Seq(Message), NEW lists, Listed(its, ms, lists),
         NEW item \in 1..Len(its), NEW its2, NEW ms2,
         LinksMessage(its, ms, lists, item, its2, ms2)
  PROVE  Listed(its2, ms2, [lists EXCEPT ![item] = Append(@, Len(ms) + 1)])
<1>0. /\ Len(its2) = Len(its) /\ ms2 \in Seq(Message) /\ Len(ms2) = Len(ms) + 1
      /\ ms2[Len(ms) + 1].next_item = Null
      /\ \A a \in 1..Len(ms) :
           ms2[a].next_item = IF Len(lists[item]) > 0 /\ a = lists[item][Len(lists[item])]
                              THEN Len(ms) + 1 ELSE ms[a].next_item
      /\ \A i \in 1..Len(its) :
           its2[i].msg_list_head = IF i = item /\ Len(lists[item]) = 0
                                   THEN Len(ms) + 1 ELSE its[i].msg_list_head
  BY DEF LinksMessage
<1> USE <1>0
<1> DEFINE n == Len(its)
           m == Len(ms)
           new == m + 1
           lists2 == [lists EXCEPT ![item] = Append(@, new)]
           last == Len(lists[item])
<1>1. m \in Nat /\ n \in Nat /\ item \in 1..n
  BY ItemTypes, LenProperties
<1>2. /\ lists \in [1..n -> Seq(1..m)]
      /\ \A i \in 1..n :
           /\ lists[i] \in Seq(1..m) /\ Len(lists[i]) \in Nat
           /\ \A k \in 1..Len(lists[i]) :
                /\ lists[i][k] \in 1..m
                /\ ms[lists[i][k]].next_item
                     = IF k = Len(lists[i]) THEN Null ELSE lists[i][k + 1]
  BY ListedFacts
<1>3. Covering(lists, n, m)
  BY ListedFacts
<1>4. Apart(lists, n)
  BY ListedFacts
<1>5. /\ lists2[item] = Append(lists[item], new)
      /\ \A i \in 1..n : i # item => lists2[i] = lists[i]
  BY <1>2
<1>6. /\ lists2[item] \in Seq(1..new)
      /\ Len(lists2[item]) = last + 1
      /\ \A k \in 1..last : lists2[item][k] = lists[item][k]
      /\ lists2[item][last + 1] = new
  <2>1. new \in 1..new /\ last \in Nat
    BY <1>1, <1>2
  <2>2. lists[item] \in Seq(1..new)
    <3>1. 1..m \subseteq 1..new
      BY <1>1
    <3> HIDE DEF new
    <3> QED
      BY <3>1, <1>1, <1>2, SeqMonotonic
  <2> DEFINE s == lists[item]
             t == lists2[item]
  <2>3. s \in Seq(1..new) /\ last = Len(s) /\ t = Append(s, new)
    BY <2>2, <1>5
  <2> HIDE DEF new, s, t, last
  <2>4. t \in Seq(1..new) /\ Len(t) = last + 1
        /\ \A k \in 1..Len(s) : t[k] = s[k]
        /\ t[last + 1] = new
    BY <2>1, <2>3, AppendProperties
  <2> QED
    BY <2>3, <2>4 DEF s, t
<1>7. lists2 \in [1..n -> Seq(1..new)]
  <2>1. ASSUME NEW i \in 1..n, i # item PROVE lists2[i] \in Seq(1..new)
    <3>1. 1..m \subseteq 1..new
      BY <1>1
    <3>2. lists2[i] \in Seq(1..m)
      BY <2>1, <1>2, <1>5
    <3> HIDE DEF new, lists2
    <3> QED
      BY <3>1, <3>2, SeqMonotonic
  <2>2. \A i \in 1..n : lists2[i] \in Seq(1..new)
    BY <2>1, <1>6
  <2>3. lists2 = [i \in 1..n |-> lists2[i]]
    BY <1>2
  <2> HIDE DEF lists2
  <2> QED
    BY <2>2, <2>3
<1>8. /\ ms2[new].next_item = Null
      /\ \A a \in 1..m :
           ms2[a].next_item = IF last > 0 /\ a = lists[item][last] THEN new ELSE ms[a].next_item
  OBVIOUS
<1>9. \A i \in 1..n :
        its2[i].msg_list_head = IF i = item /\ last = 0 THEN new ELSE its[i].msg_list_head
  OBVIOUS
<1>10. \A i \in 1..n : its[i].msg_list_head = IF Len(lists[i]) = 0 THEN Null ELSE lists[i][1]
  BY DEF Listed
<1>11. Len(its2) = n /\ Len(ms2) = new
  OBVIOUS
<1>12. last \in Nat /\ last = Len(lists[item])
  BY <1>1, <1>2
<1> HIDE DEF lists2, last, n, m
<1>13. ASSUME NEW i \in 1..n, NEW k \in 1..Len(lists2[i])
       PROVE  \/ i = item /\ k = last + 1 /\ lists2[i][k] = new
              \/ k \in 1..Len(lists[i]) /\ lists2[i][k] = lists[i][k]
  <2>1. CASE i = item
    <3>1. k = last + 1 \/ k \in 1..last
      BY <2>1, <1>6, <1>12
    <3> QED
      BY <2>1, <3>1, <1>6, <1>12
  <2>2. CASE i # item
    BY <2>2, <1>5
  <2> QED
    BY <2>1, <2>2
<1>14. ASSUME NEW i \in 1..n, NEW k \in 1..Len(lists2[i])
       PROVE  ms2[lists2[i][k]].next_item
                = IF k = Len(lists2[i]) THEN Null ELSE lists2[i][k + 1]
  <2>1. CASE i = item /\ k = last + 1 /\ lists2[i][k] = new
    BY <2>1, <1>6, <1>8
  <2>2. CASE k \in 1..Len(lists[i]) /\ lists2[i][k] = lists[i][k]
    <3>1. lists[i][k] \in 1..m
      BY <2>2, <1>2
    <3>2. CASE i = item /\ k = last
      <4>1. last > 0 /\ k # Len(lists2[i]) /\ lists2[i][k + 1] = new
        BY <3>2, <2>2, <1>6, <1>12
      <4> QED
        BY <3>1, <3>2, <4>1, <2>2, <1>8
    <3>3. CASE ~(i = item /\ k = last)
      <4>1. last > 0 => last \in 1..Len(lists[item])
        BY <1>12
      <4>2. last > 0 => lists[i][k] # lists[item][last]
        BY <4>1, <3>3, <2>2, <1>1, <1>4 DEF Apart
      <4>3. ms2[lists2[i][k]].next_item = ms[lists[i][k]].next_item
        BY <4>2, <3>1, <2>2, <1>8
      <4>4. ms[lists[i][k]].next_item = IF k = Len(lists[i]) THEN Null ELSE lists[i][k + 1]
        BY <2>2, <1>2
      <4>5. CASE i = item
        <5>1. k # Len(lists[i]) /\ k # Len(lists2[i]) /\ k + 1 \in 1..last
          BY <4>5, <3>3, <2>2, <1>6, <1>12
        <5> QED
          BY <4>3, <4>4, <4>5, <5>1, <1>6
      <4>6. CASE i # item
        BY <4>3, <4>4, <4>6, <1>5
      <4> QED
        BY <4>5, <4>6
    <3> QED
      BY <3>2, <3>3
  <2> QED
    BY <2>1, <2>2, <1>13
<1>15. ASSUME NEW a \in 1..new PROVE \E i \in 1..n : \E k \in 1..Len(lists2[i]) : lists2[i][k] = a
  <2>1. CASE a = new
    <3>1. last + 1 \in 1..Len(lists2[item])
      BY <1>6, <1>12
    <3> QED
      BY <2>1, <3>1, <1>6, <1>1
  <2>2. CASE a # new
    <3>1. a \in 1..m
      BY <2>2, <1>1
    <3>2. PICK i \in 1..n : \E k \in 1..Len(lists[i]) : lists[i][k] = a
      BY <3>1, <1>3 DEF Covering
    <3>3. PICK k \in 1..Len(lists[i]) : lists[i][k] = a
      BY <3>2
    <3>4. CASE i = item
      <4>1. k \in 1..last /\ k \in 1..last + 1
        BY <3>3, <3>4, <1>12
      <4>2. k \in 1..Len(lists2[item]) /\ lists2[item][k] = a
        BY <3>3, <3>4, <4>1, <1>6
      <4> QED
        BY <4>2, <1>1
    <3>5. CASE i # item
      BY <3>3, <3>5, <1>5
    <3> QED
      BY <3>4, <3>5
  <2> QED
    BY <2>1, <2>2
<1>16. ASSUME NEW i \in 1..n, NEW j \in 1..n,
              NEW k \in 1..Len(lists2[i]), NEW l \in 1..Len(lists2[j]),
              lists2[i][k] = lists2[j][l]
       PROVE  i = j /\ k = l
  <2>1. ASSUME NEW x \in 1..n, NEW y \in 1..Len(lists[x]) PROVE lists[x][y] # new
    <3>1. lists[x][y] \in 1..m
      BY <1>2
    <3> QED
      BY <3>1, <1>1
  <2>2. CASE i = item /\ k = last + 1 /\ lists2[i][k] = new
    BY <2>1, <2>2, <1>13, <1>16
  <2>3. CASE k \in 1..Len(lists[i]) /\ lists2[i][k] = lists[i][k]
    <3>1. l \in 1..Len(lists[j]) /\ lists2[j][l] = lists[j][l]
      BY <2>1, <2>3, <1>13, <1>16
    <3>2. lists[i][k] = lists[j][l]
      BY <2>3, <3>1, <1>16
    <3> QED
      BY <2>3, <3>1, <3>2, <1>4, ApartOnce
  <2> QED
    BY <2>2, <2>3, <1>13
<1>17. \A i \in 1..n : its2[i].msg_list_head = IF Len(lists2[i]) = 0 THEN Null ELSE lists2[i][1]
  <2> TAKE i \in 1..n
  <2>1. CASE i = item /\ last = 0
    BY <2>1, <1>6, <1>9
  <2>2. CASE i = item /\ last # 0
    <3>1. 1 \in 1..last /\ last + 1 # 0
      BY <2>2, <1>12
    <3> QED
      BY <2>2, <3>1, <1>6, <1>9, <1>10, <1>12
  <2>3. CASE i # item
    BY <2>3, <1>5, <1>9, <1>10
  <2> QED
    BY <2>1, <2>2, <2>3
<1> HIDE DEF new
<1>19. Apart(lists2, n)
  BY <1>16, Zenon DEF Apart
<1>20. Covering(lists2, n, new)
  BY <1>15, Zenon DEF Covering
<1>18. Listed(its2, ms2, lists2)
  BY <1>7, <1>11, <1>14, <1>17, <1>19, <1>20, ListedIntro
<1> QED
  BY <1>18 DEF lists2, m, new

-----------------------------------------------------------------------------
(* What the walks of the code find.                                        *)

MessagesFrom(ms, head) ==
  LET from[m \in 0..Len(ms)] ==
        IF m = Null THEN <<>> ELSE <<ms[m].mesg>> \o from[ms[m].next_item]
  IN from[head]

Texts(ms, list) == [k \in 1..Len(list) |-> ms[list[k]].mesg]

LEMMA MessagesRead ==
  ASSUME NEW its, NEW ms \in Seq(Message), NEW lists, Listed(its, ms, lists),
         NEW i \in 1..Len(its)
  PROVE  MessagesFrom(ms, its[i].msg_list_head) = Texts(ms, lists[i])
<1> DEFINE n == Len(ms)
           I == 1..Len(its)
           next == NextOf(ms)
           val == [a \in 1..n |-> ms[a].mesg]
           W(f) == f = [m \in 0..n |-> IF m = Null THEN <<>>
                                       ELSE <<ms[m].mesg>> \o f[ms[m].next_item]]
           from == CHOOSE f : W(f)
<1>1. n \in Nat
  BY LenProperties
<1>2. \A a \in 0..n : a # 0 => a \in 1..n
  BY <1>1
<1>3. \A a \in 1..n : next[a] = ms[a].next_item /\ val[a] = ms[a].mesg
  BY DEF NextOf
<1>4. Strung(lists, I, n, next) /\ i \in I
  BY DEF Listed
<1>5. MessagesFrom(ms, its[i].msg_list_head) = from[its[i].msg_list_head]
  BY DEF MessagesFrom
<1> HIDE DEF next, val, n, I
<1>6. ASSUME NEW f PROVE W(f) <=> Reads(f, n, next, val)
  <2>1. \A a \in 0..n : (IF a = Null THEN <<>> ELSE <<ms[a].mesg>> \o f[ms[a].next_item])
                        = IF a = 0 THEN <<>> ELSE <<val[a]>> \o f[next[a]]
    BY <1>2, <1>3 DEF Null
  <2>2. [m \in 0..n |-> IF m = Null THEN <<>> ELSE <<ms[m].mesg>> \o f[ms[m].next_item]]
          = [a \in 0..n |-> IF a = 0 THEN <<>> ELSE <<val[a]>> \o f[next[a]]]
    BY <2>1, Zenon
  <2> QED
    BY <2>2 DEF Reads
<1>7. \E f : W(f)
  BY <1>1, <1>4, <1>6, ReadExists
<1>8. W(from)
  BY <1>7
<1>9. Reads(from, n, next, val)
  BY <1>6, <1>8
<1> HIDE DEF from, W
<1>10. Len(lists[i]) \in Nat /\ \A k \in 1..Len(lists[i]) : lists[i][k] \in 1..n
  BY <1>4, StrungTypes
<1>11. its[i].msg_list_head = IF Len(lists[i]) = 0 THEN Null ELSE lists[i][1]
  BY DEF Listed
<1>12. CASE Len(lists[i]) = 0
  <2>1. from[0] = <<>>
    BY <1>1, <1>9 DEF Reads
  <2>2. Texts(ms, lists[i]) = <<>>
    BY <1>12 DEF Texts
  <2> QED
    BY <1>5, <1>11, <1>12, <2>1, <2>2 DEF Null
<1>13. CASE Len(lists[i]) # 0
  <2>1. 1 \in 1..Len(lists[i])
    BY <1>10, <1>13
  <2>2. from[lists[i][1]] = Rest(lists[i], 1, val)
    <3>1. Reading(lists, I, n, next, val, from)
      BY <1>1, <1>4, <1>9 DEF Reading
    <3> QED
      BY <3>1, <1>4, <2>1, ReadFinds
  <2>3. Len(lists[i]) - 1 + 1 = Len(lists[i])
    BY <1>10
  <2>4. \A x \in 1..Len(lists[i]) : val[lists[i][1 + x - 1]] = ms[lists[i][x]].mesg
    <3>1. \A x \in 1..Len(lists[i]) : 1 + x - 1 = x
      OBVIOUS
    <3> QED
      BY <3>1, <1>3, <1>10
  <2>5. Rest(lists[i], 1, val) = Texts(ms, lists[i])
    BY <2>3, <2>4 DEF Rest, Texts
  <2> QED
    BY <1>5, <1>11, <1>13, <2>2, <2>5
<1> QED
  BY <1>12, <1>13

GroupsFrom(its, gl) ==
  LET from[i \in 0..Len(its)] ==
        IF i = Null THEN <<>> ELSE <<i>> \o from[its[i].next_item]
  IN from[gl]

LEMMA GroupsRead ==
  ASSUME NEW its \in Seq(Item), NEW gl, NEW ord, Ordered(its, gl, ord)
  PROVE  GroupsFrom(its, gl) = ord
<1> DEFINE n == Len(its)
           I == {1}
           lists == [i \in I |-> ord]
           next == NextOf(its)
           val == [a \in 1..n |-> a]
           W(f) == f = [i \in 0..n |-> IF i = Null THEN <<>> ELSE <<i>> \o f[its[i].next_item]]
           from == CHOOSE f : W(f)
<1>1. n \in Nat
  BY ItemTypes
<1>2. \A a \in 0..n : a # 0 => a \in 1..n
  BY <1>1
<1>3. \A a \in 1..n : next[a] = its[a].next_item /\ val[a] = a
  BY DEF NextOf
<1>4. Strung(lists, I, n, next) /\ lists[1] = ord /\ 1 \in I /\ Len(ord) = n
      /\ gl = IF Len(ord) = 0 THEN Null ELSE ord[1]
  BY DEF Ordered
<1>5. GroupsFrom(its, gl) = from[gl]
  BY DEF GroupsFrom
<1>6. ord \in Seq(1..n) /\ \A k \in 1..n : ord[k] \in 1..n
  BY OrderedFacts
<1> HIDE DEF next, val, n, lists, I
<1>7. ASSUME NEW f PROVE W(f) <=> Reads(f, n, next, val)
  <2>1. \A a \in 0..n : (IF a = Null THEN <<>> ELSE <<a>> \o f[its[a].next_item])
                        = IF a = 0 THEN <<>> ELSE <<val[a]>> \o f[next[a]]
    BY <1>2, <1>3 DEF Null
  <2>2. [i \in 0..n |-> IF i = Null THEN <<>> ELSE <<i>> \o f[its[i].next_item]]
          = [a \in 0..n |-> IF a = 0 THEN <<>> ELSE <<val[a]>> \o f[next[a]]]
    BY <2>1, Zenon
  <2> QED
    BY <2>2 DEF Reads
<1>8. \E f : W(f)
  <2>1. \E f : Reads(f, n, next, val)
    BY <1>1, <1>4, ReadExists
  <2> HIDE DEF W
  <2> QED
    BY <2>1, <1>7
<1>9. Reads(from, n, next, val)
  BY <1>7, <1>8
<1> HIDE DEF from, W
<1>10. CASE n = 0
  <2>1. from[0] = <<>>
    BY <1>1, <1>9 DEF Reads
  <2>2. ord = <<>>
    BY <1>4, <1>6, <1>10
  <2> QED
    BY <1>4, <1>5, <1>10, <2>1, <2>2 DEF Null
<1>11. CASE n # 0
  <2>1. 1 \in 1..n
    BY <1>1, <1>11
  <2>7. 1 \in 1..Len(lists[1])
    BY <2>1, <1>4
  <2>8. ASSUME NEW i \in I, NEW k \in 1..Len(lists[i])
        PROVE  from[lists[i][k]] = Rest(lists[i], k, val)
    <3>1. Reading(lists, I, n, next, val, from)
      BY <1>1, <1>4, <1>9 DEF Reading
    <3> QED
      BY <3>1, ReadFinds
  <2>2. from[lists[1][1]] = Rest(lists[1], 1, val)
    BY <1>4, <2>7, <2>8
  <2>3. from[ord[1]] = Rest(ord, 1, val)
    BY <2>2, <1>4
  <2>4. \A x \in 1..n : val[ord[1 + x - 1]] = ord[x]
    <3>1. \A x \in 1..n : 1 + x - 1 = x
      BY <1>1
    <3> QED
      BY <3>1, <1>3, <1>6
  <2>5. Rest(ord, 1, val) = [x \in 1..n |-> ord[x]]
    <3>1. n - 1 + 1 = n
      BY <1>1
    <3> QED
      BY <3>1, <2>4, <1>4 DEF Rest
  <2>6. ord = [x \in 1..n |-> ord[x]]
    BY <1>4, <1>6
  <2> QED
    BY <1>4, <1>5, <1>11, <2>3, <2>5, <2>6
<1> QED
  BY <1>10, <1>11

EndFrom(ms, head) ==
  LET walk[i \in DOMAIN ms] == IF ms[i].next_item = Null THEN i ELSE walk[ms[i].next_item]
  IN walk[head]

\* The end of the list of messages of an item.
LEMMA EndFound ==
  ASSUME NEW ms \in Seq(Message), NEW its, NEW lists, Listed(its, ms, lists),
         NEW i \in 1..Len(its), Len(lists[i]) # 0
  PROVE  EndFrom(ms, its[i].msg_list_head) = lists[i][Len(lists[i])]
<1> DEFINE n == Len(ms)
           I == 1..Len(its)
           next == NextOf(ms)
           Stop == {a \in 1..n : next[a] = 0}
           W(f) == f = [m \in DOMAIN ms |-> IF ms[m].next_item = Null THEN m
                                               ELSE f[ms[m].next_item]]
           walk == CHOOSE f : W(f)
<1>1. DOMAIN ms = 1..n
  BY LenProperties
<1>2. \A a \in 1..n : next[a] = ms[a].next_item
  BY DEF NextOf
<1>3. Strung(lists, I, n, next) /\ i \in I
  BY DEF Listed
<1>4. EndFrom(ms, its[i].msg_list_head) = walk[its[i].msg_list_head]
  BY DEF EndFrom
<1>5. its[i].msg_list_head = lists[i][1]
  BY DEF Listed
<1>6. \A a \in 1..n : next[a] = 0 => a \in Stop
  OBVIOUS
<1>7. \A a \in 1..n : a \in Stop <=> ms[a].next_item = Null
  BY <1>2 DEF Null
<1> HIDE DEF next, n, I, Stop
<1>8. ASSUME NEW f PROVE W(f) <=> Walks(f, n, next, Stop)
  <2>1. \A a \in 1..n : (IF ms[a].next_item = Null THEN a ELSE f[ms[a].next_item])
                        = IF a \in Stop THEN a ELSE f[next[a]]
    BY <1>2, <1>7
  <2>2. [m \in 1..n |-> IF ms[m].next_item = Null THEN m ELSE f[ms[m].next_item]]
          = [a \in 1..n |-> IF a \in Stop THEN a ELSE f[next[a]]]
    BY <2>1, Zenon
  <2> QED
    BY <1>1, <2>2 DEF Walks
<1>9. \E f : W(f)
  BY <1>3, <1>6, <1>8, WalkExists
<1>10. Walks(walk, n, next, Stop)
  BY <1>8, <1>9
<1> HIDE DEF walk, W
<1>11. Len(lists[i]) \in Nat /\ Len(lists[i]) > 0 /\ \A k \in 1..Len(lists[i]) : lists[i][k] \in 1..n
  BY <1>3, StrungTypes
<1>12. PICK m \in 1..Len(lists[i]) : FirstOf(lists[i], Stop, walk[lists[i][1]], m)
  <2>1. Walking(lists, I, n, next, Stop, walk)
    BY <1>3, <1>6, <1>10 DEF Walking
  <2> QED
    BY <2>1, <1>3, <1>11, WalkFinds
<1>13. next[lists[i][m]] = 0
  BY <1>12 DEF Stop, FirstOf
<1>14. m = Len(lists[i])
  <2> SUFFICES ASSUME m # Len(lists[i]) PROVE FALSE
    OBVIOUS
  <2>1. lists[i][m + 1] \in 1..n /\ next[lists[i][m]] = lists[i][m + 1]
    BY <1>3, <1>12, StrungLinks
  <2> QED
    BY <2>1, <1>13
<1> QED
  BY <1>4, <1>5, <1>12, <1>14 DEF FirstOf

PointFrom(its, gl, g) ==
  LET walk[i \in DOMAIN its] ==
        IF \/ its[i].group = g
           \/ its[i].next_item = Null
           \/ its[its[i].next_item].group > g
        THEN i ELSE walk[its[i].next_item]
  IN IF its[gl].group > g THEN Null ELSE walk[gl]

\* Where a group is, or would be linked in: behind the first p its.
LEMMA PointFound ==
  ASSUME NEW its \in Seq(Item), NEW gl, NEW ord, Ordered(its, gl, ord), Len(its) # 0,
         NEW g \in Nat
  PROVE  \E p \in 0..Len(its) :
           /\ PointFrom(its, gl, g) = IF p = 0 THEN Null ELSE ord[p]
           /\ \A j \in 1..p : its[ord[j]].group <= g
           /\ \A j \in p + 1..Len(its) : g < its[ord[j]].group
<1> DEFINE n == Len(its)
           I == {1}
           lists == [i \in I |-> ord]
           next == NextOf(its)
           Stop == {a \in 1..n : \/ its[a].group = g
                                 \/ its[a].next_item = Null
                                 \/ its[its[a].next_item].group > g}
           W(f) == f = [i \in DOMAIN its |->
                         IF \/ its[i].group = g
                            \/ its[i].next_item = Null
                            \/ its[its[i].next_item].group > g
                         THEN i ELSE f[its[i].next_item]]
           walk == CHOOSE f : W(f)
<1>1. n \in Nat /\ n # 0 /\ DOMAIN its = 1..n
  BY LenProperties
<1>2. \A a \in 1..n : next[a] = its[a].next_item
  BY DEF NextOf
<1>3. Strung(lists, I, n, next) /\ lists[1] = ord /\ 1 \in I /\ Len(ord) = n
  BY DEF Ordered
<1>4. /\ ord \in Seq(1..n)
      /\ \A k \in 1..n :
           /\ ord[k] \in 1..n
           /\ k = n => its[ord[k]].next_item = Null
           /\ k # n => its[ord[k]].next_item = ord[k + 1]
  <2>1. its \in Seq(Item) /\ Ordered(its, gl, ord)
    OBVIOUS
  <2> HIDE DEF I, lists, next, Stop, walk, W
  <2>2. /\ ord \in Seq(1..Len(its))
        /\ \A k \in 1..Len(its) :
             /\ ord[k] \in 1..Len(its)
             /\ k = Len(its) => its[ord[k]].next_item = Null
             /\ k # Len(its) => its[ord[k]].next_item = ord[k + 1]
    BY <2>1, OrderedFacts
  <2> QED
    BY <2>2
<1>5. \A j, k \in 1..n : j < k => its[ord[j]].group < its[ord[k]].group
  BY <1>3 DEF Ordered
<1>6. gl = ord[1]
  BY <1>1, <1>3 DEF Ordered
<1>7. \A k \in 1..n : its[ord[k]].group \in Nat
  BY <1>4, ItemTypes
<1>8. PointFrom(its, gl, g) = IF its[gl].group > g THEN Null ELSE walk[gl]
  BY DEF PointFrom
<1>9. \A a \in 1..n : next[a] = 0 => a \in Stop
  BY <1>2 DEF Null
<1>10. \A a \in 1..n : a \in Stop <=> \/ its[a].group = g
                                      \/ its[a].next_item = Null
                                      \/ its[its[a].next_item].group > g
  OBVIOUS
<1> HIDE DEF next, n, lists, Stop, I
<1>11. ASSUME NEW f PROVE W(f) <=> Walks(f, n, next, Stop)
  <2>1. \A a \in 1..n :
          (IF \/ its[a].group = g
              \/ its[a].next_item = Null
              \/ its[its[a].next_item].group > g
           THEN a ELSE f[its[a].next_item]) = IF a \in Stop THEN a ELSE f[next[a]]
    BY <1>2, <1>10
  <2>2. [i \in 1..n |-> IF \/ its[i].group = g
                           \/ its[i].next_item = Null
                           \/ its[its[i].next_item].group > g
                        THEN i ELSE f[its[i].next_item]]
          = [a \in 1..n |-> IF a \in Stop THEN a ELSE f[next[a]]]
    BY <2>1, Zenon
  <2> QED
    BY <1>1, <2>2 DEF Walks
<1>12. \E f : W(f)
  BY <1>3, <1>9, <1>11, WalkExists
<1>13. Walks(walk, n, next, Stop)
  BY <1>11, <1>12
<1> HIDE DEF walk, W
<1>14. CASE its[gl].group > g
  <2>1. \A j \in 1..n : g < its[ord[j]].group
    <3> TAKE j \in 1..n
    <3>1. 1 \in 1..n /\ (j = 1 \/ 1 < j)
      BY <1>1
    <3>2. its[ord[1]].group <= its[ord[j]].group
      BY <3>1, <1>5, <1>7
    <3> QED
      BY <3>1, <3>2, <1>6, <1>7, <1>14
  <2>2. PointFrom(its, gl, g) = Null
    BY <1>8, <1>14
  <2>3. 0 \in 0..n /\ 1..0 = {} /\ 0 + 1..n = 1..n
    BY <1>1
  <2> WITNESS 0 \in 0..Len(its)
  <2> QED
    BY <2>1, <2>2, <2>3 DEF n
<1>15. CASE ~(its[gl].group > g)
  <2>1. Len(lists[1]) > 0 /\ Len(lists[1]) = n
    BY <1>1, <1>3
  <2>2. PICK p \in 1..Len(lists[1]) : FirstOf(lists[1], Stop, walk[lists[1][1]], p)
    <3>1. Walking(lists, I, n, next, Stop, walk)
      BY <1>3, <1>9, <1>13 DEF Walking
    <3> QED
      BY <3>1, <2>1, <1>3, WalkFinds
  <2>3. /\ p \in 1..n /\ walk[gl] = ord[p] /\ ord[p] \in Stop
        /\ \A j \in 1..p - 1 : ord[j] \notin Stop
    BY <2>1, <2>2, <1>3, <1>6 DEF FirstOf
  <2>4. its[ord[p]].group <= g
    <3>1. CASE p = 1
      BY <3>1, <1>1, <1>6, <1>7, <1>15
    <3>2. CASE p # 1
      <4>1. p - 1 \in 1..p - 1 /\ p - 1 \in 1..n /\ p - 1 # n /\ (p - 1) + 1 = p
        BY <2>3, <3>2, <1>1
      <4>2. ord[p - 1] \notin Stop /\ ord[p - 1] \in 1..n
        BY <4>1, <2>3, <1>4
      <4>3. its[ord[p - 1]].next_item = ord[p]
        BY <4>1, <1>4
      <4>4. ~(its[ord[p]].group > g)
        BY <4>2, <4>3, <1>10
      <4> QED
        BY <4>4, <2>3, <1>7
    <3> QED
      BY <3>1, <3>2
  <2>5. ASSUME NEW j \in 1..p PROVE its[ord[j]].group <= g
    <3>1. j \in 1..n /\ (j = p \/ j < p)
      BY <2>3, <1>1
    <3>2. its[ord[j]].group <= its[ord[p]].group
      BY <3>1, <2>3, <1>5, <1>7
    <3> QED
      BY <3>1, <3>2, <2>3, <2>4, <1>7
  <2>6. ASSUME NEW j \in p + 1..n PROVE g < its[ord[j]].group
    <3>1. j \in 1..n /\ p # n /\ p + 1 \in 1..n /\ (j = p + 1 \/ p + 1 < j) /\ p < j
      BY <2>3, <1>1
    <3>2. its[ord[p]].next_item = ord[p + 1] /\ ord[p + 1] \in 1..n /\ ord[p] \in 1..n
      BY <3>1, <2>3, <1>4
    <3>3. \/ its[ord[p]].group = g
          \/ its[ord[p + 1]].group > g
      <4>1. ord[p + 1] # Null
        BY <3>2, <1>1 DEF Null
      <4> QED
        BY <4>1, <3>2, <2>3, <1>10
    <3>4. CASE its[ord[p]].group = g
      BY <3>1, <3>4, <2>3, <1>5
    <3>5. CASE its[ord[p + 1]].group > g
      <4>1. its[ord[p + 1]].group <= its[ord[j]].group
        BY <3>1, <1>5, <1>7
      <4> QED
        BY <4>1, <3>1, <3>5, <1>7
    <3> QED
      BY <3>3, <3>4, <3>5
  <2>7. PointFrom(its, gl, g) = ord[p] /\ p # 0 /\ p \in 0..n
    BY <2>3, <1>1, <1>8, <1>15
  <2> QED
    BY <2>5, <2>6, <2>7 DEF n
<1> QED
  BY <1>14, <1>15

-----------------------------------------------------------------------------
(* The board.                                                              *)

\* The board that the groups its and the messages ms make.
BoardOf(its, ms) ==
  [g \in Groups |->
     IF \E i \in DOMAIN its : its[i].group = g
     THEN MessagesFrom(ms, its[CHOOSE i \in DOMAIN its : its[i].group = g].msg_list_head)
     ELSE <<>>]

\* The memories and how they are linked.
Shape(its, ms, gl, ord, lists) ==
  its \in Seq(Item) /\ ms \in Seq(Message) /\ Ordered(its, gl, ord) /\ Listed(its, ms, lists)

LEMMA OneItemEach ==
  ASSUME NEW its \in Seq(Item), NEW gl, NEW ord, Ordered(its, gl, ord),
         NEW i \in 1..Len(its), NEW j \in 1..Len(its), its[i].group = its[j].group
  PROVE  i = j
<1>10. /\ \A k \in 1..Len(its) : ord[k] \in 1..Len(its)
       /\ \A a \in 1..Len(its) : \E k \in 1..Len(its) : ord[k] = a
  <2>1. its \in Seq(Item) /\ Ordered(its, gl, ord)
    OBVIOUS
  <2>2. \A k \in 1..Len(its) : ord[k] \in 1..Len(its)
    BY <2>1, OrderedFacts
  <2>3. \A a \in 1..Len(its) : \E k \in 1..Len(its) : ord[k] = a
    BY <2>1, OrderedFacts
  <2> QED
    BY <2>2, <2>3
<1> DEFINE n == Len(its)
<1>1. /\ \A k \in 1..n : ord[k] \in 1..n
      /\ \A a \in 1..n : \E k \in 1..n : ord[k] = a
  BY <1>10
<1>2. \A k, l \in 1..n : k < l => its[ord[k]].group < its[ord[l]].group
  BY OrderedFacts DEF Ordered
<1>3. n \in Nat /\ \A a \in 1..n : its[a].group \in Nat
  BY ItemTypes
<1> HIDE DEF n
<1>4. PICK k \in 1..n : ord[k] = i
  BY <1>1 DEF n
<1>5. PICK l \in 1..n : ord[l] = j
  BY <1>1 DEF n
<1>6. \A x \in Nat : ~(x < x)
  OBVIOUS
<1>7. ~(k < l)
  BY <1>2, <1>3, <1>4, <1>5, <1>6 DEF n
<1>8. ~(l < k)
  BY <1>2, <1>3, <1>4, <1>5, <1>6 DEF n
<1>9. k = l
  BY <1>3, <1>7, <1>8
<1> QED
  BY <1>4, <1>5, <1>9

LEMMA BoardRead ==
  ASSUME NEW its, NEW ms, NEW gl, NEW ord, NEW lists, Shape(its, ms, gl, ord, lists),
         NEW g \in Groups
  PROVE  /\ \A i \in 1..Len(its) : its[i].group = g => BoardOf(its, ms)[g] = Texts(ms, lists[i])
         /\ (\A i \in 1..Len(its) : its[i].group # g) => BoardOf(its, ms)[g] = <<>>
<1> USE DEF Shape
<1>1. DOMAIN its = 1..Len(its)
  BY LenProperties
<1>2. ASSUME NEW i \in 1..Len(its), its[i].group = g
      PROVE  BoardOf(its, ms)[g] = Texts(ms, lists[i])
  <2> DEFINE j == CHOOSE j \in DOMAIN its : its[j].group = g
  <2>1. j \in DOMAIN its /\ its[j].group = g
    BY <1>1, <1>2
  <2>2. BoardOf(its, ms)[g] = MessagesFrom(ms, its[j].msg_list_head)
    BY <1>1, <1>2 DEF BoardOf
  <2> HIDE DEF j
  <2>3. j = i
    BY <1>1, <1>2, <2>1, OneItemEach
  <2> QED
    BY <2>2, <2>3, MessagesRead
<1>3. ASSUME \A i \in 1..Len(its) : its[i].group # g PROVE BoardOf(its, ms)[g] = <<>>
  BY <1>1, <1>3 DEF BoardOf
<1> QED
  BY <1>2, <1>3

SameGroups(its, its2) == \A i \in 1..Len(its) : its2[i].group = its[i].group
SameTexts(ms, ms2) == \A a \in 1..Len(ms) : ms2[a].mesg = ms[a].mesg

\* A group without messages does not change it.
LEMMA BoardKept ==
  ASSUME NEW its, NEW ms, NEW gl, NEW ord, NEW lists, Shape(its, ms, gl, ord, lists),
         NEW its2, NEW gl2, NEW ord2, NEW lists2, Shape(its2, ms, gl2, ord2, lists2),
         Len(its2) = Len(its) + 1, SameGroups(its, its2),
         lists2 = [i \in 1..Len(its) + 1 |-> IF i = Len(its) + 1 THEN <<>> ELSE lists[i]]
  PROVE  BoardOf(its2, ms) = BoardOf(its, ms)
<1> DEFINE n == Len(its)
           B == BoardOf(its, ms)
           B2 == BoardOf(its2, ms)
<1>1. n \in Nat /\ Len(its2) = n + 1
  BY ItemTypes DEF Shape
<1>2. ASSUME NEW g \in Groups PROVE B2[g] = B[g]
  <2>1. /\ \A i \in 1..n : its[i].group = g => B[g] = Texts(ms, lists[i])
        /\ (\A i \in 1..n : its[i].group # g) => B[g] = <<>>
    BY BoardRead
  <2>2. /\ \A i \in 1..n + 1 : its2[i].group = g => B2[g] = Texts(ms, lists2[i])
        /\ (\A i \in 1..n + 1 : its2[i].group # g) => B2[g] = <<>>
    BY <1>1, BoardRead
  <2>3. Texts(ms, <<>>) = <<>>
    BY DEF Texts
  <2>4. n + 1 \in 1..n + 1 /\ (\A i \in 1..n : i \in 1..n + 1) /\ \A i \in 1..n + 1 : i \in 1..n \/ i = n + 1
    BY <1>1
  <2>5. \A i \in 1..n : its2[i].group = its[i].group /\ lists2[i] = lists[i]
    BY <1>1 DEF SameGroups
  <2>6. lists2[n + 1] = <<>>
    BY <1>1
  <2> HIDE DEF B, B2, n
  <2>7. CASE \E i \in 1..n : its[i].group = g
    <3>1. PICK i \in 1..n : its[i].group = g
      BY <2>7
    <3>2. B[g] = Texts(ms, lists[i]) /\ B2[g] = Texts(ms, lists2[i]) /\ lists2[i] = lists[i]
      BY <3>1, <2>1, <2>2, <2>4, <2>5
    <3> QED
      BY <3>2
  <2>8. CASE \A i \in 1..n : its[i].group # g
    <3>1. CASE its2[n + 1].group = g
      BY <2>8, <3>1, <2>1, <2>2, <2>3, <2>4, <2>6
    <3>2. CASE its2[n + 1].group # g
      BY <2>8, <3>2, <2>1, <2>2, <2>4, <2>5
    <3> QED
      BY <3>1, <3>2
  <2> QED
    BY <2>7, <2>8
<1>3. B = [g \in Groups |-> B[g]] /\ B2 = [g \in Groups |-> B2[g]]
  BY DEF BoardOf
<1> HIDE DEF B, B2
<1>4. B2 = B
  BY <1>2, <1>3, Zenon
<1> QED
  BY <1>4 DEF B, B2

\* From its and ms to its2 and ms2, in which ms2 has one message more, of item.
OneMore(its, ms, lists, its2, ms2, lists2, item) ==
  /\ item \in 1..Len(its)
  /\ Len(its2) = Len(its) /\ SameGroups(its, its2)
  /\ Len(ms2) = Len(ms) + 1 /\ SameTexts(ms, ms2)
  /\ lists2 = [lists EXCEPT ![item] = Append(@, Len(ms) + 1)]

\* board2 is board with x at the end of group g.
AddedTo(board, board2, g, x) == board2 = [board EXCEPT ![g] = Append(@, x)]

\* A new message is behind the others of its group.
LEMMA BoardExtended ==
  ASSUME NEW its, NEW ms, NEW gl, NEW ord, NEW lists, Shape(its, ms, gl, ord, lists),
         NEW its2, NEW ms2, NEW lists2, Shape(its2, ms2, gl, ord, lists2),
         NEW item, OneMore(its, ms, lists, its2, ms2, lists2, item),
         its[item].group \in Groups
  PROVE  AddedTo(BoardOf(its, ms), BoardOf(its2, ms2), its[item].group, ms2[Len(ms) + 1].mesg)
<1> USE DEF Shape, OneMore
<1> DEFINE n == Len(its)
           m == Len(ms)
           new == m + 1
           mesg == ms2[new].mesg
           g == its[item].group
           B == BoardOf(its, ms)
           B2 == BoardOf(its2, ms2)
<1>1. /\ lists \in [1..n -> Seq(1..m)]
      /\ \A i \in 1..n : /\ lists[i] \in Seq(1..m) /\ Len(lists[i]) \in Nat
                         /\ \A k \in 1..Len(lists[i]) : lists[i][k] \in 1..m
  BY ListedFacts
<1>2. m \in Nat /\ \A a \in 1..m : ms[a] \in Message /\ ms[a].mesg \in Clients \cup {Garbage}
  <2>1. \A a \in 1..m : ms[a] \in Message
    BY ElementOfSeq
  <2> QED
    BY <2>1, LenProperties DEF Message
<1>3. mesg \in Clients \cup {Garbage}
  <2>1. new \in 1..Len(ms2)
    BY <1>2
  <2>2. ms2[new] \in Message
    BY <2>1, ElementOfSeq
  <2> QED
    BY <2>2 DEF Message
<1>4. ASSUME NEW i \in 1..n, i # item PROVE Texts(ms2, lists2[i]) = Texts(ms, lists[i])
  <2>1. lists2[i] = lists[i]
    BY <1>1, <1>4
  <2>2. \A k \in 1..Len(lists[i]) : ms2[lists[i][k]].mesg = ms[lists[i][k]].mesg
    BY <1>1 DEF SameTexts
  <2> QED
    BY <2>1, <2>2 DEF Texts
<1>5. Texts(ms2, lists2[item]) = Append(Texts(ms, lists[item]), mesg)
  <2> DEFINE s == lists[item]
             V == Clients \cup {Garbage}
             t == Texts(ms, s)
             t2 == Texts(ms2, Append(s, new))
             len == Len(s)
  <2>1. lists2[item] = Append(s, new)
    BY <1>1
  <2>2. s \in Seq(1..m) /\ len \in Nat /\ \A k \in 1..len : s[k] \in 1..m
    BY <1>1
  <2>3. \A k \in 1..len : ms[s[k]].mesg \in V /\ ms2[s[k]].mesg = ms[s[k]].mesg
    BY <2>2, <1>2 DEF SameTexts
  <2>4. s \in Seq(Nat) /\ new \in Nat
    <3>1. 1..m \subseteq Nat
      BY <1>2
    <3> HIDE DEF s
    <3> QED
      BY <3>1, <2>2, <1>2, SeqMonotonic
  <2>5. /\ Len(Append(s, new)) = len + 1
        /\ \A k \in 1..len : Append(s, new)[k] = s[k]
        /\ Append(s, new)[len + 1] = new
    <3> HIDE DEF new, s
    <3> QED
      BY <2>2, <2>4, AppendProperties
  <2>6. t \in Seq(V) /\ Len(t) = len /\ \A k \in 1..len : t[k] = ms[s[k]].mesg
    <3>1. t = [k \in 1..len |-> ms[s[k]].mesg]
      BY DEF Texts
    <3> HIDE DEF t, V, len
    <3> QED
      BY <3>1, <2>2, <2>3, LenProperties
  <2>7. t2 = [k \in 1..len + 1 |-> ms2[Append(s, new)[k]].mesg]
    BY <2>5 DEF Texts
  <2>8. \A k \in 1..len + 1 : k \in 1..len \/ k = len + 1
    <3>1. len \in Nat
      BY <2>2
    <3> HIDE DEF len, s, t, t2, new, mesg
    <3> QED
      BY <3>1
  <2>9. \A k \in 1..len + 1 : ms2[Append(s, new)[k]].mesg = IF k = len + 1 THEN mesg ELSE t[k]
    <3> TAKE k \in 1..len + 1
    <3>1. CASE k = len + 1
      BY <3>1, <2>5
    <3>2. CASE k # len + 1
      <4>1. k \in 1..len
        BY <3>2, <2>8
      <4> HIDE DEF t, s, len, new, mesg
      <4>2. Append(s, new)[k] = s[k]
        BY <4>1, <2>5
      <4>3. ms2[s[k]].mesg = t[k]
        BY <4>1, <2>3, <2>6
      <4> QED
        BY <4>2, <4>3, <3>2
    <3> QED
      BY <3>1, <3>2
  <2>10. t2 = [k \in 1..len + 1 |-> IF k = len + 1 THEN mesg ELSE t[k]]
    BY <2>7, <2>9, Zenon
  <2> HIDE DEF t, t2, V, len, s, new, mesg
  <2>11. /\ Append(t, mesg) \in Seq(V)
         /\ Len(Append(t, mesg)) = len + 1
         /\ \A k \in 1..len : Append(t, mesg)[k] = t[k]
         /\ Append(t, mesg)[len + 1] = mesg
    <3>1. mesg \in V
      BY <1>3 DEF V
    <3> QED
      BY <2>6, <3>1, AppendProperties
  <2>12. Append(t, mesg) = [k \in 1..len + 1 |-> Append(t, mesg)[k]]
    <3> DEFINE a == Append(t, mesg)
    <3>1. a \in Seq(V) /\ Len(a) = len + 1
      BY <2>11
    <3> HIDE DEF a
    <3>2. a = [k \in 1..len + 1 |-> a[k]]
      BY <3>1
    <3> QED
      BY <3>2 DEF a
  <2>13. \A k \in 1..len + 1 : Append(t, mesg)[k] = IF k = len + 1 THEN mesg ELSE t[k]
    BY <2>8, <2>11
  <2>14. t2 = Append(t, mesg)
    BY <2>10, <2>12, <2>13, Zenon
  <2> QED
    BY <2>1, <2>14 DEF t, t2, s
<1>6. ASSUME NEW h \in Groups PROVE B2[h] = IF h = g THEN Append(B[h], mesg) ELSE B[h]
  <2>1. /\ \A i \in 1..n : its[i].group = h => B[h] = Texts(ms, lists[i])
        /\ (\A i \in 1..n : its[i].group # h) => B[h] = <<>>
    <3> HIDE DEF Shape
    <3> QED
      BY BoardRead
  <2>2. /\ \A i \in 1..n : its2[i].group = h => B2[h] = Texts(ms2, lists2[i])
        /\ (\A i \in 1..n : its2[i].group # h) => B2[h] = <<>>
    <3>2. Len(its2) = n
      OBVIOUS
    <3> HIDE DEF Shape, OneMore
    <3>1. /\ \A i \in 1..Len(its2) : its2[i].group = h => BoardOf(its2, ms2)[h] = Texts(ms2, lists2[i])
          /\ (\A i \in 1..Len(its2) : its2[i].group # h) => BoardOf(its2, ms2)[h] = <<>>
      BY BoardRead
    <3> QED
      BY <3>1, <3>2
  <2>3. (\A i \in 1..n : its2[i].group = its[i].group) /\ its[item].group = g
    BY DEF SameGroups
  <2> HIDE DEF B, B2, mesg
  <2>4. CASE h = g
    BY <2>4, <2>1, <2>2, <2>3, <1>5
  <2>5. CASE h # g /\ \E i \in 1..n : its[i].group = h
    BY <2>5, <2>1, <2>2, <2>3, <1>4
  <2>6. CASE h # g /\ \A i \in 1..n : its[i].group # h
    BY <2>6, <2>1, <2>2, <2>3
  <2> QED
    BY <2>4, <2>5, <2>6
<1>7. B = [h \in Groups |-> B[h]] /\ B2 = [h \in Groups |-> B2[h]]
  BY DEF BoardOf
<1> HIDE DEF B, B2, mesg
<1>8. B2 = [h \in Groups |-> IF h = g THEN Append(B[h], mesg) ELSE B[h]]
  BY <1>6, <1>7, Zenon
<1>9. [B EXCEPT ![g] = Append(@, mesg)] = [h \in Groups |-> IF h = g THEN Append(B[h], mesg) ELSE B[h]]
  <2>1. DOMAIN B = Groups
    BY <1>7
  <2> QED
    BY <2>1
<1> QED
  BY <1>8, <1>9 DEF B, B2, mesg, new, AddedTo

-----------------------------------------------------------------------------
(* What write_message() does to the lists.                                 *)

LEMMA MessageTypes ==
  ASSUME NEW ms \in Seq(Message)
  PROVE  /\ Len(ms) \in Nat
         /\ \A a \in 1..Len(ms) : /\ ms[a].next_item \in Nat
                                  /\ ms[a].mesg \in Clients \cup {Garbage}
                                  /\ ms[a] = [next_item |-> ms[a].next_item, mesg |-> ms[a].mesg]
<1>1. \A a \in 1..Len(ms) : ms[a] \in Message
  BY ElementOfSeq
<1> QED
  BY <1>1, LenProperties DEF Message

LEMMA NextSet ==
  ASSUME NEW r \in Message, NEW x \in Nat
  PROVE  /\ [r EXCEPT !.next_item = x] \in Message
         /\ [r EXCEPT !.next_item = x].next_item = x
         /\ [r EXCEPT !.next_item = x].mesg = r.mesg
BY DEF Message

LEMMA LinkSet ==
  ASSUME NEW r \in Item, NEW x \in Nat
  PROVE  /\ [r EXCEPT !.next_item = x] \in Item
         /\ [r EXCEPT !.next_item = x].group = r.group
         /\ [r EXCEPT !.next_item = x].next_item = x
         /\ [r EXCEPT !.next_item = x].msg_list_head = r.msg_list_head
BY DEF Item

LEMMA HeadSet ==
  ASSUME NEW r \in Item, NEW x \in Nat
  PROVE  /\ [r EXCEPT !.msg_list_head = x] \in Item
         /\ [r EXCEPT !.msg_list_head = x].group = r.group
         /\ [r EXCEPT !.msg_list_head = x].next_item = r.next_item
         /\ [r EXCEPT !.msg_list_head = x].msg_list_head = x
BY DEF Item

\* The message is entered in the memory, behind the list that begins at head.
Entered(ms, head, mesg) ==
  Append(IF head = Null THEN ms
         ELSE [ms EXCEPT ![EndFrom(ms, head)].next_item = Len(ms) + 1],
         [next_item |-> Null, mesg |-> mesg])

IsEntered(ms, ms2, list, mesg) ==
  /\ ms2 \in Seq(Message)
  /\ Len(ms2) = Len(ms) + 1
  /\ ms2[Len(ms) + 1].next_item = Null
  /\ ms2[Len(ms) + 1].mesg = mesg
  /\ \A a \in 1..Len(ms) :
       /\ ms2[a].mesg = ms[a].mesg
       /\ ms2[a].next_item = IF Len(list) > 0 /\ a = list[Len(list)] THEN Len(ms) + 1
                             ELSE ms[a].next_item

LEMMA EnteredFacts ==
  ASSUME NEW its, NEW ms \in Seq(Message), NEW lists, Listed(its, ms, lists),
         NEW item \in 1..Len(its), NEW mesg \in Clients \cup {Garbage}
  PROVE  /\ IsEntered(ms, Entered(ms, its[item].msg_list_head, mesg), lists[item], mesg)
         /\ its[item].msg_list_head = Null <=> Len(lists[item]) = 0
<1> DEFINE n == Len(ms)
           head == its[item].msg_list_head
           ms2 == Entered(ms, head, mesg)
           last == Len(lists[item])
           end == EndFrom(ms, head)
           linked == IF head = Null THEN ms ELSE [ms EXCEPT ![end].next_item = n + 1]
           new == [next_item |-> Null, mesg |-> mesg]
<1>1. n \in Nat /\ DOMAIN ms = 1..n /\ \A a \in 1..n : ms[a] \in Message
  BY ElementOfSeq, LenProperties
<1>2. \A a \in 1..n : ms[a].next_item \in Nat /\ ms[a].mesg \in Clients \cup {Garbage}
  BY MessageTypes
<1>3. last \in Nat /\ \A k \in 1..last : lists[item][k] \in 1..n
  BY ListedFacts
<1>4. head = IF last = 0 THEN Null ELSE lists[item][1]
  BY DEF Listed
<1>5. head = Null <=> last = 0
  BY <1>1, <1>3, <1>4 DEF Null
<1>6. last # 0 => end = lists[item][last] /\ end \in 1..n
  BY <1>3, EndFound
<1>7. new \in Message /\ new.next_item = Null /\ new.mesg = mesg
  BY DEF Message, Null
<1>8. ms2 = Append(linked, new)
  BY DEF Entered
<1> HIDE DEF end, last, new, head, ms2
<1>9. /\ linked \in Seq(Message) /\ Len(linked) = n
      /\ \A a \in 1..n : /\ linked[a].mesg = ms[a].mesg
                         /\ linked[a].next_item = IF last > 0 /\ a = lists[item][last]
                                                  THEN n + 1 ELSE ms[a].next_item
  <2>1. CASE last = 0
    BY <2>1, <1>5
  <2>2. CASE last # 0
    <3>1. linked = [ms EXCEPT ![end].next_item = n + 1] /\ end \in 1..n /\ end = lists[item][last]
      BY <2>2, <1>5, <1>6
    <3>2. last > 0
      BY <2>2, <1>3
    <3>3. linked = [a \in 1..n |-> IF a = end THEN [ms[a] EXCEPT !.next_item = n + 1] ELSE ms[a]]
      BY <3>1, <1>1
    <3> HIDE DEF linked
    <3>4. \A a \in 1..n : linked[a] = IF a = end THEN [ms[a] EXCEPT !.next_item = n + 1] ELSE ms[a]
      BY <3>3
    <3>5. \A a \in 1..n :
            /\ [ms[a] EXCEPT !.next_item = n + 1] \in Message
            /\ [ms[a] EXCEPT !.next_item = n + 1].next_item = n + 1
            /\ [ms[a] EXCEPT !.next_item = n + 1].mesg = ms[a].mesg
      BY <1>1, NextSet
    <3>6. \A a \in 1..n : linked[a] \in Message
      BY <3>4, <3>5, <1>1
    <3>7. linked = [a \in 1..n |-> linked[a]]
      BY <3>3
    <3> HIDE DEF n
    <3>8. linked \in Seq(Message) /\ Len(linked) = n
      BY <3>6, <3>7, <1>1, LenProperties
    <3> QED
      BY <3>1, <3>2, <3>4, <3>5, <3>8
  <2> QED
    BY <2>1, <2>2
<1> HIDE DEF linked, n
<1>10. /\ ms2 \in Seq(Message) /\ Len(ms2) = n + 1
       /\ \A a \in 1..n : ms2[a] = linked[a]
       /\ ms2[n + 1] = new
  BY <1>7, <1>8, <1>9, AppendProperties
<1>11. /\ ms2 \in Seq(Message)
       /\ Len(ms2) = n + 1
       /\ ms2[n + 1].next_item = Null
       /\ ms2[n + 1].mesg = mesg
       /\ \A a \in 1..n :
            /\ ms2[a].mesg = ms[a].mesg
            /\ ms2[a].next_item = IF last > 0 /\ a = lists[item][last]
                                  THEN n + 1 ELSE ms[a].next_item
       /\ head = Null <=> last = 0
  BY <1>5, <1>7, <1>9, <1>10
<1> QED
  BY <1>11 DEF n, last, head, ms2, IsEntered

\* A message of item is entered, and is the head where it is the first.
Writing(its, ms, item, mesg, its2, ms2) ==
  /\ ms2 = Entered(ms, its[item].msg_list_head, mesg)
  /\ its2 = IF its[item].msg_list_head # Null THEN its
            ELSE [its EXCEPT ![item].msg_list_head = Len(ms) + 1]

LEMMA WritingShape ==
  ASSUME NEW its, NEW ms, NEW gl, NEW ord, NEW lists, Shape(its, ms, gl, ord, lists),
         NEW item \in 1..Len(its), its[item].group \in Groups,
         NEW mesg \in Clients \cup {Garbage},
         NEW its2, NEW ms2, Writing(its, ms, item, mesg, its2, ms2)
  PROVE  /\ \E lists2 : Shape(its2, ms2, gl, ord, lists2)
         /\ Len(its2) = Len(its) /\ SameGroups(its, its2)
         /\ AddedTo(BoardOf(its, ms), BoardOf(its2, ms2), its[item].group, mesg)
<1> DEFINE head == its[item].msg_list_head
<1>11. /\ its \in Seq(Item) /\ ms \in Seq(Message)
       /\ Ordered(its, gl, ord) /\ Listed(its, ms, lists)
  BY DEF Shape
<1>12. /\ its2 = IF head # Null THEN its ELSE [its EXCEPT ![item].msg_list_head = Len(ms) + 1]
       /\ ms2 = Entered(ms, head, mesg)
  BY DEF Writing
<1>13. head = its[item].msg_list_head
  OBVIOUS
<1> HIDE DEF head
<1> USE <1>11, <1>12, <1>13
<1> DEFINE n == Len(its)
           m == Len(ms)
           last == Len(lists[item])
<1>1. /\ ms2 \in Seq(Message)
      /\ Len(ms2) = m + 1
      /\ ms2[m + 1].next_item = Null
      /\ ms2[m + 1].mesg = mesg
      /\ \A a \in 1..m :
           /\ ms2[a].mesg = ms[a].mesg
           /\ ms2[a].next_item = IF last > 0 /\ a = lists[item][last]
                                 THEN m + 1 ELSE ms[a].next_item
      /\ head = Null <=> last = 0
  <2>1. IsEntered(ms, ms2, lists[item], mesg) /\ (head = Null <=> Len(lists[item]) = 0)
    BY EnteredFacts
  <2> QED
    BY <2>1 DEF IsEntered
<1>2. n \in Nat /\ DOMAIN its = 1..n /\ \A i \in 1..n : its[i] \in Item
  BY ItemTypes, LenProperties
<1>3. m \in Nat
  BY MessageTypes
<1>4. /\ its2 \in Seq(Item) /\ Len(its2) = n
      /\ \A i \in 1..n :
           /\ its2[i].group = its[i].group
           /\ its2[i].next_item = its[i].next_item
           /\ its2[i].msg_list_head = IF i = item /\ last = 0 THEN m + 1
                                      ELSE its[i].msg_list_head
  <2>1. CASE head # Null
    BY <2>1, <1>1
  <2>2. CASE head = Null
    <3>1. its2 = [i \in 1..n |-> IF i = item THEN [its[i] EXCEPT !.msg_list_head = m + 1] ELSE its[i]]
      BY <2>2, <1>2
    <3>2. \A i \in 1..n :
            /\ [its[i] EXCEPT !.msg_list_head = m + 1] \in Item
            /\ [its[i] EXCEPT !.msg_list_head = m + 1].group = its[i].group
            /\ [its[i] EXCEPT !.msg_list_head = m + 1].next_item = its[i].next_item
            /\ [its[i] EXCEPT !.msg_list_head = m + 1].msg_list_head = m + 1
      <4>1. m + 1 \in Nat
        BY <1>3
      <4> HIDE DEF n, m
      <4> QED
        BY <4>1, <1>2, HeadSet
    <3> HIDE DEF n, m
    <3>3. \A i \in 1..n : its2[i] = IF i = item THEN [its[i] EXCEPT !.msg_list_head = m + 1] ELSE its[i]
      BY <3>1
    <3>4. its2 = [i \in 1..n |-> its2[i]]
      BY <3>1
    <3>5. \A i \in 1..n : its2[i] \in Item
      BY <3>2, <3>3, <1>2
    <3>6. its2 \in Seq(Item) /\ Len(its2) = n
      <4>1. n \in Nat
        BY <1>2
      <4>2. its2 \in [1..n -> Item]
        BY <3>4, <3>5, Zenon
      <4>3. its2 \in Seq(Item)
        BY <4>1, <4>2
      <4>4. DOMAIN its2 = 1..n
        BY <3>4
      <4> QED
        BY <4>1, <4>3, <4>4, LenProperties
    <3> QED
      <4>1. last = 0
        BY <2>2, <1>1
      <4> HIDE DEF last
      <4>2. ASSUME NEW i \in 1..n
            PROVE  /\ its2[i].group = its[i].group
                   /\ its2[i].next_item = its[i].next_item
                   /\ its2[i].msg_list_head = IF i = item /\ last = 0 THEN m + 1
                                              ELSE its[i].msg_list_head
        <5>1. CASE i = item
          BY <5>1, <4>1, <3>2, <3>3
        <5>2. CASE i # item
          BY <5>2, <3>3
        <5> QED
          BY <5>1, <5>2
      <4> QED
        BY <4>2, <3>6
  <2> QED
    BY <2>1, <2>2
<1>5. Ordered(its2, gl, ord)
  <2> HIDE DEF n, m, last
  <2> QED
    BY <1>4, OrderKept DEF n
<1> DEFINE lists2 == [lists EXCEPT ![item] = Append(@, m + 1)]
<1>6. Listed(its2, ms2, lists2)
  <2>1. \A a \in 1..m : ms2[a].next_item = IF last > 0 /\ a = lists[item][last]
                                           THEN m + 1 ELSE ms[a].next_item
    BY <1>1
  <2>2. \A i \in 1..n : its2[i].msg_list_head = IF i = item /\ last = 0 THEN m + 1
                                                ELSE its[i].msg_list_head
    BY <1>4
  <2>3. Len(its2) = n /\ Len(ms2) = m + 1 /\ ms2[m + 1].next_item = Null /\ ms2 \in Seq(Message)
    BY <1>1, <1>4
  <2> QED
    <3>1. LinksMessage(its, ms, lists, item, its2, ms2)
      BY <2>1, <2>2, <2>3 DEF LinksMessage
    <3>2. /\ its \in Seq(Item) /\ ms \in Seq(Message) /\ Listed(its, ms, lists)
          /\ item \in 1..Len(its) /\ lists2 = [lists EXCEPT ![item] = Append(@, Len(ms) + 1)]
      OBVIOUS
    <3> HIDE DEF lists2
    <3> QED
      BY ONLY <3>1, <3>2, MessageAdded
<1>7. SameTexts(ms, ms2)
  BY <1>1 DEF SameTexts
<1>8. SameGroups(its, its2)
  BY <1>4 DEF SameGroups
<1>9. Shape(its2, ms2, gl, ord, lists2)
  BY <1>1, <1>4, <1>5, <1>6 DEF Shape
<1>10. OneMore(its, ms, lists, its2, ms2, lists2, item)
  BY <1>1, <1>4, <1>7, <1>8 DEF OneMore
<1> HIDE DEF lists2
<1>14. AddedTo(BoardOf(its, ms), BoardOf(its2, ms2), its[item].group, ms2[m + 1].mesg)
  BY <1>9, <1>10, BoardExtended
<1> QED
  BY <1>1, <1>4, <1>8, <1>9, <1>14

\* Behind the first p items, the last of them at, is the place of group g.
Between(its, ord, p, at, g) ==
  /\ p \in 0..Len(its) /\ at = IF p = 0 THEN Null ELSE ord[p]
  /\ \A j \in 1..p : its[ord[j]].group < g
  /\ \A j \in p + 1..Len(its) : g < its[ord[j]].group

\* An item for group g is linked in there.
Making(its, gl, at, g, its2) ==
  its2 = Append(IF at = Null THEN its ELSE [its EXCEPT ![at].next_item = Len(its) + 1],
                NewGroup(g, IF at = Null THEN gl ELSE its[at].next_item))

LEMMA MakingShape ==
  ASSUME NEW its, NEW ms, NEW gl, NEW ord, NEW lists, Shape(its, ms, gl, ord, lists),
         NEW g \in Nat, NEW p, NEW at, Between(its, ord, p, at, g),
         NEW its2, Making(its, gl, at, g, its2)
  PROVE  /\ \E ord2, lists2 : Shape(its2, ms, IF p = 0 THEN Len(its) + 1 ELSE gl, ord2, lists2)
         /\ Len(its2) = Len(its) + 1 /\ SameGroups(its, its2)
         /\ its2[Len(its) + 1].group = g /\ its2[Len(its) + 1].msg_list_head = Null
         /\ BoardOf(its2, ms) = BoardOf(its, ms)
<1> p \in 0..Len(its) /\ at = IF p = 0 THEN Null ELSE ord[p]
  BY DEF Between
<1>1. /\ its \in Seq(Item) /\ ms \in Seq(Message)
      /\ Ordered(its, gl, ord) /\ Listed(its, ms, lists)
  BY DEF Shape
<1>2. /\ Len(its) \in Nat /\ Len(ord) = Len(its)
      /\ \A k \in 1..Len(its) :
           /\ ord[k] \in 1..Len(its)
           /\ k = Len(its) => its[ord[k]].next_item = Null
           /\ k # Len(its) => its[ord[k]].next_item = ord[k + 1]
  BY <1>1, OrderedFacts
<1> DEFINE n == Len(its)
           next == IF at = Null THEN gl ELSE its[at].next_item
           new == NewGroup(g, next)
           linked == IF at = Null THEN its ELSE [its EXCEPT ![at].next_item = n + 1]
           ord2 == Inserted(ord, p, n + 1)
           lists2 == [i \in 1..n + 1 |-> IF i = n + 1 THEN <<>> ELSE lists[i]]
           gl2 == IF p = 0 THEN n + 1 ELSE gl
<1>3. n \in Nat /\ DOMAIN its = 1..n /\ \A i \in 1..n : its[i] \in Item
  BY <1>1, ItemTypes, LenProperties
<1>4. gl = IF n = 0 THEN Null ELSE ord[1]
  BY <1>1, <1>2 DEF Ordered
<1>5. p > 0 => p \in 1..n /\ ord[p] \in 1..n /\ at = ord[p] /\ at # Null
  BY <1>2 DEF Null
<1>6. next = IF p = n THEN Null ELSE ord[p + 1]
  <2>1. CASE p = 0
    BY <2>1, <1>3, <1>4
  <2>2. CASE p # 0
    <3>1. p \in 1..n /\ ord[p] \in 1..n /\ at = ord[p] /\ at # Null
      BY <2>2, <1>3, <1>5
    <3> QED
      BY <3>1, <1>2
  <2> QED
    BY <2>1, <2>2
<1>7. next \in Nat
  <2>1. p # n => p + 1 \in 1..n
    <3>1. p \in 0..n
      OBVIOUS
    <3> HIDE DEF n
    <3> QED
      BY <3>1, <1>3
  <2> QED
    BY <2>1, <1>2, <1>6 DEF Null
<1> HIDE DEF next
<1>8. new \in Item /\ new.group = g /\ new.next_item = next /\ new.msg_list_head = Null
  BY <1>7 DEF NewGroup, Item, Null
<1> HIDE DEF new
<1>9. /\ linked \in Seq(Item) /\ Len(linked) = n
      /\ \A i \in 1..n :
           /\ linked[i].group = its[i].group
           /\ linked[i].msg_list_head = its[i].msg_list_head
           /\ linked[i].next_item = IF p > 0 /\ i = ord[p] THEN n + 1 ELSE its[i].next_item
  <2>1. CASE p = 0
    BY <2>1, <1>1
  <2>2. CASE p # 0
    <3>1. p > 0 /\ at \in 1..n /\ at = ord[p] /\ at # Null
      BY <2>2, <1>3, <1>5
    <3>2. linked = [i \in 1..n |-> IF i = at THEN [its[i] EXCEPT !.next_item = n + 1] ELSE its[i]]
      BY <3>1, <1>3
    <3> HIDE DEF linked, n
    <3>3. \A i \in 1..n : linked[i] = IF i = at THEN [its[i] EXCEPT !.next_item = n + 1] ELSE its[i]
      BY <3>2
    <3>4. n + 1 \in Nat
      BY <1>3
    <3>5. \A i \in 1..n :
            /\ [its[i] EXCEPT !.next_item = n + 1] \in Item
            /\ [its[i] EXCEPT !.next_item = n + 1].group = its[i].group
            /\ [its[i] EXCEPT !.next_item = n + 1].next_item = n + 1
            /\ [its[i] EXCEPT !.next_item = n + 1].msg_list_head = its[i].msg_list_head
      BY <3>4, <1>3, LinkSet
    <3>6. \A i \in 1..n : linked[i] \in Item
      BY <3>3, <3>5, <1>3
    <3>7. linked = [i \in 1..n |-> linked[i]]
      BY <3>2
    <3>8. linked \in Seq(Item) /\ Len(linked) = n
      BY <3>6, <3>7, <1>3, LenProperties
    <3>9. ASSUME NEW i \in 1..n
          PROVE  /\ linked[i].group = its[i].group
                 /\ linked[i].msg_list_head = its[i].msg_list_head
                 /\ linked[i].next_item = IF p > 0 /\ i = ord[p] THEN n + 1 ELSE its[i].next_item
      <4>1. CASE i = at
        BY <4>1, <3>1, <3>3, <3>5
      <4>2. CASE i # at
        BY <4>2, <3>1, <3>3
      <4> QED
        BY <4>1, <4>2
    <3> QED
      BY <3>8, <3>9
  <2> QED
    BY <2>1, <2>2
<1>10. its2 = Append(linked, new)
  BY DEF Making, new, next
<1> HIDE DEF linked
<1>11. /\ its2 \in Seq(Item) /\ Len(its2) = n + 1
       /\ \A i \in 1..n : its2[i] = linked[i]
       /\ its2[n + 1] = new
  <2> HIDE DEF n
  <2> QED
    BY <1>8, <1>9, <1>10, AppendProperties
<1>12. /\ its2[n + 1].group = g /\ its2[n + 1].msg_list_head = Null
       /\ its2[n + 1].next_item = IF p = n THEN Null ELSE ord[p + 1]
  BY <1>6, <1>8, <1>11
<1>13. \A i \in 1..n : its2[i].group = its[i].group /\ its2[i].msg_list_head = its[i].msg_list_head
  BY <1>9, <1>11
<1>14. \A i \in 1..n :
         its2[i].next_item = IF p > 0 /\ i = ord[p] THEN n + 1 ELSE its[i].next_item
  BY <1>9, <1>11
<1>15. SameGroups(its, its2)
  BY <1>13 DEF SameGroups
<1>16. Ordered(its2, gl2, ord2)
  <2>1. /\ \A j \in 1..p : its[ord[j]].group < g
        /\ \A j \in p + 1..n : g < its[ord[j]].group
    BY DEF Between
  <2>2. \A i \in 1..n :
          /\ its2[i].group = its[i].group
          /\ its2[i].next_item = IF p > 0 /\ i = ord[p] THEN n + 1 ELSE its[i].next_item
    BY <1>13, <1>14
  <2> QED
    BY <2>1, <2>2, <1>1, <1>11, <1>12, OrderInserted
<1>17. Listed(its2, ms, lists2)
  BY <1>1, <1>11, <1>12, <1>13, ListAdded
<1> HIDE DEF lists2, ord2, gl2
<1>18. Shape(its2, ms, gl2, ord2, lists2)
  BY <1>1, <1>11, <1>16, <1>17 DEF Shape
<1>19. BoardOf(its2, ms) = BoardOf(its, ms)
  <2>1. lists2 = [i \in 1..Len(its) + 1 |-> IF i = Len(its) + 1 THEN <<>> ELSE lists[i]]
    BY DEF lists2
  <2>2. Len(its2) = Len(its) + 1
    BY <1>11
  <2> QED
    BY <2>1, <2>2, <1>15, <1>18, BoardKept
<1>20. \E o, l : Shape(its2, ms, gl2, o, l)
  BY <1>18
<1> QED
  BY <1>11, <1>12, <1>15, <1>19, <1>20 DEF gl2

-----------------------------------------------------------------------------
(* The clients of a group, in the order in which they were served.         *)

\* f(k): those of group g under the first k of s.
Sifts(f, s, n, of, g) ==
  f = [i \in 0..n |-> IF i = 0 THEN <<>>
                      ELSE IF of[s[i]] = g THEN Append(f[i - 1], s[i]) ELSE f[i - 1]]

Sifted(s, of, g) ==
  LET upto[i \in 0..Len(s)] ==
        IF i = 0 THEN <<>>
        ELSE IF of[s[i]] = g THEN Append(upto[i - 1], s[i]) ELSE upto[i - 1]
  IN upto[Len(s)]

LEMMA SiftsStep ==
  ASSUME NEW f, NEW s, NEW n \in Nat, NEW of, NEW g, Sifts(f, s, n, of, g)
  PROVE  /\ f[0] = <<>>
         /\ \A k \in Nat : k < n =>
              f[k + 1] = IF of[s[k + 1]] = g THEN Append(f[k], s[k + 1]) ELSE f[k]
<1>1. \A i \in 0..n : f[i] = IF i = 0 THEN <<>>
                             ELSE IF of[s[i]] = g THEN Append(f[i - 1], s[i]) ELSE f[i - 1]
  BY Zenon DEF Sifts
<1>2. f[0] = <<>>
  BY <1>1
<1>3. ASSUME NEW k \in Nat, k < n
      PROVE  f[k + 1] = IF of[s[k + 1]] = g THEN Append(f[k], s[k + 1]) ELSE f[k]
  <2>1. k + 1 \in 0..n /\ k + 1 # 0 /\ (k + 1) - 1 = k
    BY <1>3
  <2> QED
    BY <1>1, <2>1
<1> QED
  BY <1>2, <1>3

LEMMA SiftsExists ==
  ASSUME NEW s, NEW of, NEW g
  PROVE  \A n \in Nat : \E f : Sifts(f, s, n, of, g)
<1> DEFINE S == {n \in Nat : \E f : Sifts(f, s, n, of, g)}
<1>1. 0 \in S
  <2> DEFINE f == [i \in 0..0 |-> <<>>]
  <2>1. \A i \in 0..0 : i = 0
    OBVIOUS
  <2>2. \A i \in 0..0 : f[i] = IF i = 0 THEN <<>>
                               ELSE IF of[s[i]] = g THEN Append(f[i - 1], s[i]) ELSE f[i - 1]
    BY <2>1
  <2>3. f = [i \in 0..0 |-> f[i]]
    OBVIOUS
  <2> HIDE DEF f
  <2>4. Sifts(f, s, 0, of, g)
    BY <2>2, <2>3, Zenon DEF Sifts
  <2> QED
    BY <2>4
<1>2. ASSUME NEW n \in Nat, n \in S PROVE n + 1 \in S
  <2>1. PICK f : Sifts(f, s, n, of, g)
    BY <1>2
  <2> DEFINE next == IF of[s[n + 1]] = g THEN Append(f[n], s[n + 1]) ELSE f[n]
             h == [i \in 0..n + 1 |-> IF i = n + 1 THEN next ELSE f[i]]
  <2>2. \A i \in 0..n : h[i] = f[i]
    OBVIOUS
  <2>3. h[n + 1] = next
    OBVIOUS
  <2>4. h = [i \in 0..n + 1 |-> h[i]]
    OBVIOUS
  <2>5. f[0] = <<>> /\ \A k \in Nat : k < n =>
          f[k + 1] = IF of[s[k + 1]] = g THEN Append(f[k], s[k + 1]) ELSE f[k]
    BY <2>1, SiftsStep
  <2> HIDE DEF h
  <2>6. ASSUME NEW i \in 0..n + 1
        PROVE  h[i] = IF i = 0 THEN <<>>
                      ELSE IF of[s[i]] = g THEN Append(h[i - 1], s[i]) ELSE h[i - 1]
    <3>1. CASE i = 0
      BY <3>1, <2>2, <2>5
    <3>2. CASE i = n + 1
      <4>1. n \in 0..n /\ i - 1 = n /\ i # 0
        BY <3>2
      <4> QED
        BY <3>2, <4>1, <2>2, <2>3
    <3>3. CASE i # 0 /\ i # n + 1
      <4>1. i - 1 \in Nat /\ i - 1 < n /\ (i - 1) + 1 = i /\ i \in 0..n /\ i - 1 \in 0..n
        BY <3>3
      <4>2. f[i] = IF of[s[i]] = g THEN Append(f[i - 1], s[i]) ELSE f[i - 1]
        <5> DEFINE k == i - 1
        <5>1. k \in Nat /\ k < n /\ k + 1 = i
          BY <4>1
        <5> HIDE DEF k
        <5>2. f[k + 1] = IF of[s[k + 1]] = g THEN Append(f[k], s[k + 1]) ELSE f[k]
          BY <5>1, <2>5
        <5> QED
          BY <5>1, <5>2 DEF k
      <4> QED
        BY <3>3, <4>1, <4>2, <2>2
    <3> QED
      BY <3>1, <3>2, <3>3
  <2>7. Sifts(h, s, n + 1, of, g)
    BY <2>4, <2>6, Zenon DEF Sifts
  <2> QED
    BY <2>7
<1> HIDE DEF S
<1>3. \A n \in Nat : n \in S
  BY <1>1, <1>2, Induction
<1> QED
  BY <1>3 DEF S

LEMMA SiftedIs ==
  ASSUME NEW s, NEW of, NEW g, Len(s) \in Nat
  PROVE  \E f : Sifts(f, s, Len(s), of, g) /\ Sifted(s, of, g) = f[Len(s)]
<1> DEFINE W(f) == f = [i \in 0..Len(s) |->
                          IF i = 0 THEN <<>>
                          ELSE IF of[s[i]] = g THEN Append(f[i - 1], s[i]) ELSE f[i - 1]]
           upto == CHOOSE f : W(f)
<1>1. Sifted(s, of, g) = upto[Len(s)]
  BY DEF Sifted
<1>2. \A f : W(f) <=> Sifts(f, s, Len(s), of, g)
  BY Zenon DEF Sifts
<1>3. \E f : W(f)
  BY <1>2, SiftsExists
<1>4. W(upto)
  BY <1>3
<1> HIDE DEF upto, W
<1>5. Sifts(upto, s, Len(s), of, g)
  BY <1>2, <1>4
<1> QED
  BY <1>1, <1>5

Sifting(f, s, n, of, g) ==
  /\ f[0] = <<>>
  /\ \A k \in Nat : k < n =>
       f[k + 1] = IF of[s[k + 1]] = g THEN Append(f[k], s[k + 1]) ELSE f[k]

LEMMA SiftsGrow ==
  ASSUME NEW f, NEW s, NEW n \in Nat, NEW of, NEW g, Sifts(f, s, n, of, g)
  PROVE  Sifting(f, s, n, of, g)
BY SiftsStep DEF Sifting

Agree(s, of, t, of2, n) == \A k \in 1..n : t[k] = s[k] /\ of2[s[k]] = of[s[k]]

\* What was sifted out is a matter of the first n of s alone.
LEMMA SiftsAgree ==
  ASSUME NEW f, NEW s, NEW n \in Nat, NEW of, NEW g, Sifts(f, s, n, of, g),
         NEW h, NEW t, NEW m \in Nat, NEW of2, Sifts(h, t, m, of2, g), n <= m,
         Agree(s, of, t, of2, n)
  PROVE  h[n] = f[n]
<1> DEFINE S == {k \in Nat : k <= n => h[k] = f[k]}
<1>1. f[0] = <<>> /\ \A k \in Nat : k < n =>
        f[k + 1] = IF of[s[k + 1]] = g THEN Append(f[k], s[k + 1]) ELSE f[k]
  <2> HIDE DEF S
  <2>1. Sifts(f, s, n, of, g)
    OBVIOUS
  <2>2. Sifting(f, s, n, of, g)
    BY <2>1, SiftsGrow
  <2> QED
    BY <2>2, Zenon DEF Sifting
<1>2. h[0] = <<>> /\ \A k \in Nat : k < m =>
        h[k + 1] = IF of2[t[k + 1]] = g THEN Append(h[k], t[k + 1]) ELSE h[k]
  BY SiftsStep
<1>3. 0 \in S
  BY <1>1, <1>2
<1>4. ASSUME NEW k \in Nat, k \in S PROVE k + 1 \in S
  <2> SUFFICES ASSUME k + 1 <= n PROVE h[k + 1] = f[k + 1]
    OBVIOUS
  <2>1. k < n /\ k < m /\ k + 1 \in 1..n /\ k <= n
    OBVIOUS
  <2>2. h[k] = f[k]
    BY <1>4, <2>1
  <2>3. t[k + 1] = s[k + 1] /\ of2[s[k + 1]] = of[s[k + 1]]
    BY <2>1 DEF Agree
  <2>4. f[k + 1] = IF of[s[k + 1]] = g THEN Append(f[k], s[k + 1]) ELSE f[k]
    BY <1>1, <2>1
  <2>5. h[k + 1] = IF of2[t[k + 1]] = g THEN Append(h[k], t[k + 1]) ELSE h[k]
    BY <1>2, <2>1
  <2> QED
    BY <2>2, <2>3, <2>4, <2>5
<1> HIDE DEF S
<1>5. n \in S
  BY <1>3, <1>4, Induction
<1> QED
  BY <1>5 DEF S

LEMMA SiftedSame ==
  ASSUME NEW s, Len(s) \in Nat, NEW of, NEW of2, NEW g,
         \A k \in 1..Len(s) : of2[s[k]] = of[s[k]]
  PROVE  Sifted(s, of2, g) = Sifted(s, of, g)
<1>1. PICK f : Sifts(f, s, Len(s), of, g) /\ Sifted(s, of, g) = f[Len(s)]
  BY SiftedIs
<1>2. PICK h : Sifts(h, s, Len(s), of2, g) /\ Sifted(s, of2, g) = h[Len(s)]
  BY SiftedIs
<1> DEFINE n == Len(s)
<1>3. n \in Nat /\ n <= n /\ Agree(s, of, s, of2, n)
  BY DEF Agree
<1>4. h[n] = f[n]
  <2> HIDE DEF n
  <2>1. Sifts(f, s, n, of, g) /\ Sifts(h, s, n, of2, g)
    BY <1>1, <1>2 DEF n
  <2> QED
    BY <1>3, <2>1, SiftsAgree
<1> QED
  BY <1>1, <1>2, <1>4

LEMMA SiftedAppend ==
  ASSUME NEW T, NEW s \in Seq(T), NEW c \in T, NEW of, NEW g
  PROVE  Sifted(Append(s, c), of, g)
           = IF of[c] = g THEN Append(Sifted(s, of, g), c) ELSE Sifted(s, of, g)
<1> DEFINE t == Append(s, c)
           n == Len(s)
<1>1. n \in Nat /\ Len(t) = n + 1 /\ t[n + 1] = c /\ \A k \in 1..n : t[k] = s[k]
  BY AppendProperties, LenProperties
<1> HIDE DEF t
<1>2. PICK f : Sifts(f, s, n, of, g) /\ Sifted(s, of, g) = f[n]
  BY <1>1, SiftedIs
<1> HIDE DEF n
<1>3. PICK h : Sifts(h, t, n + 1, of, g) /\ Sifted(t, of, g) = h[n + 1]
  BY <1>1, SiftedIs
<1>4. h[n] = f[n]
  <2>1. n + 1 \in Nat /\ n <= n + 1
    BY <1>1
  <2>2. Agree(s, of, t, of, n)
    BY <1>1 DEF Agree
  <2> QED
    BY <1>1, <1>2, <1>3, <2>1, <2>2, SiftsAgree
<1>5. h[n + 1] = IF of[t[n + 1]] = g THEN Append(h[n], t[n + 1]) ELSE h[n]
  BY <1>1, <1>3, SiftsStep
<1> QED
  BY <1>1, <1>2, <1>3, <1>4, <1>5 DEF t

LEMMA SiftedEmpty ==
  ASSUME NEW of, NEW g
  PROVE  Sifted(<<>>, of, g) = <<>>
<1>1. PICK f : Sifts(f, <<>>, 0, of, g) /\ Sifted(<<>>, of, g) = f[0]
  BY SiftedIs, EmptySeq
<1> QED
  BY <1>1, SiftsStep

LEMMA SiftedTypes ==
  ASSUME NEW T, NEW s \in Seq(T), NEW of, NEW g
  PROVE  Sifted(s, of, g) \in Seq(T)
<1> DEFINE n == Len(s)
<1>1. n \in Nat /\ \A k \in 1..n : s[k] \in T
  BY ElementOfSeq, LenProperties
<1>2. PICK f : Sifts(f, s, n, of, g) /\ Sifted(s, of, g) = f[n]
  BY <1>1, SiftedIs
<1> HIDE DEF n
<1> DEFINE S == {k \in Nat : k <= n => f[k] \in Seq(T)}
<1>3. f[0] = <<>> /\ \A k \in Nat : k < n =>
        f[k + 1] = IF of[s[k + 1]] = g THEN Append(f[k], s[k + 1]) ELSE f[k]
  BY <1>1, <1>2, SiftsStep
<1>4. 0 \in S
  BY <1>3, EmptySeq
<1>5. ASSUME NEW k \in Nat, k \in S PROVE k + 1 \in S
  <2> SUFFICES ASSUME k + 1 <= n PROVE f[k + 1] \in Seq(T)
    OBVIOUS
  <2>1. k < n /\ k <= n /\ k + 1 \in 1..n
    BY <1>1
  <2>2. f[k] \in Seq(T) /\ s[k + 1] \in T
    BY <1>1, <1>5, <2>1
  <2>3. Append(f[k], s[k + 1]) \in Seq(T)
    BY <2>2, AppendProperties
  <2> QED
    BY <1>3, <2>1, <2>2, <2>3
<1> HIDE DEF S
<1>6. n \in S
  BY <1>1, <1>4, <1>5, Induction
<1> QED
  BY <1>1, <1>2, <1>6 DEF S

-----------------------------------------------------------------------------
(* The state.                                                              *)

Phases == {"start", "group", "message", "exited", "killed"}

\* The types of the variables.
Types ==
  /\ client \in [Clients -> Phases]
  /\ group_of \in [Clients -> Groups \cup {NoGroup}]
  /\ unread \in [Clients -> Seq({"group", "message"})]
  /\ backlog \in Seq(Clients)
  /\ server \in {"accept", "group", "message"}
  /\ connfd \in Clients \cup {Garbage}
  /\ group_id \in Groups \cup {NoGroup}
  /\ recv_buff \in Clients \cup {Garbage}
  /\ served \in Seq(Clients)

Waiting(c) == \E k \in 1..Len(backlog) : backlog[k] = c

\* A client that was not started is nowhere; one that was named a group.
Unstarted ==
  \A c \in Clients :
    IF client[c] = "start"
    THEN /\ unread[c] = <<>> /\ ~Waiting(c) /\ connfd # c
         /\ \A k \in 1..Len(served) : served[k] # c
    ELSE group_of[c] \in Groups

\* The backlog has a client once, and not the one that is served.
Queue ==
  /\ \A j, k \in 1..Len(backlog) : backlog[j] = backlog[k] => j = k
  /\ \A c \in Clients : Waiting(c) => connfd # c

\* What a client has written.
Wrote(c) ==
  IF client[c] = "group" THEN <<>>
  ELSE IF client[c] = "message" THEN <<"group">> ELSE <<"group", "message">>

\* Until the server reads the group, all that a client wrote is unread.
Unanswered ==
  \A c \in Clients :
    Waiting(c) \/ (server = "group" /\ connfd = c) =>
      (client[c] # "killed" => unread[c] = Wrote(c))

\* Then it waits for the message of a client of the group that it read.
Serving ==
  /\ server # "accept" => connfd \in Clients
  /\ server = "message" => group_id \in Groups /\ Len(items) # 0
  /\ server = "message" /\ client[connfd] # "killed" =>
       /\ client[connfd] \in {"message", "exited"}
       /\ unread[connfd] = IF client[connfd] = "exited" THEN <<"message">> ELSE <<>>
       /\ group_id = group_of[connfd]

\* The memories are linked, and the groups are groups.
Shaped ==
  /\ \E ord, lists : Shape(items, mesgs, group_list, ord, lists)
  /\ \A i \in 1..Len(items) : items[i].group \in Groups

Protocol == Types /\ Unstarted /\ Queue /\ Unanswered /\ Serving

\* The inductive invariant.
Inv == Protocol /\ Shaped /\ MessagesInOrder

LEMMA InitProtocol ==
  ASSUME Init
  PROVE  Protocol
<1> USE DEF Init
<1>1. Types
  BY EmptySeq DEF Types, Phases
<1>2. Len(backlog) = 0 /\ Len(served) = 0
  BY EmptySeq
<1>3. Unstarted
  BY <1>2, GroupAssumption DEF Unstarted, Waiting
<1>4. Queue
  BY <1>2 DEF Queue, Waiting
<1>5. Unanswered
  BY <1>2 DEF Unanswered, Waiting
<1>6. Serving
  BY DEF Serving
<1> QED
  BY <1>1, <1>3, <1>4, <1>5, <1>6 DEF Protocol

-----------------------------------------------------------------------------
(* The clients.                                                            *)

LEMMA QueueTypes ==
  ASSUME Types
  PROVE  /\ Len(backlog) \in Nat /\ \A k \in 1..Len(backlog) : backlog[k] \in Clients
         /\ Len(served) \in Nat /\ \A k \in 1..Len(served) : served[k] \in Clients
BY ElementOfSeq, LenProperties DEF Types

LEMMA ConnectProtocol ==
  ASSUME Protocol, NEW c \in Clients, Connect(c)
  PROVE  Protocol'
<1> USE DEF Protocol
<1>1. /\ client[c] = "start" /\ client' = [client EXCEPT ![c] = "group"]
      /\ backlog' = Append(backlog, c)
      /\ UNCHANGED <<unread, server, connfd, group_id, recv_buff, group_list, items, mesgs, served>>
  BY DEF Connect, ClientStep, listVars
<1>2. PICK g \in Groups : group_of' = [group_of EXCEPT ![c] = g]
  BY DEF Connect
<1>3. /\ Len(backlog') = Len(backlog) + 1
      /\ \A k \in 1..Len(backlog) : backlog'[k] = backlog[k]
      /\ backlog'[Len(backlog) + 1] = c
      /\ backlog' \in Seq(Clients)
  BY <1>1, AppendProperties DEF Types
<1>4. Len(backlog) \in Nat /\ Len(served) \in Nat
  BY QueueTypes
<1>5. \A k \in 1..Len(backlog') : k \in 1..Len(backlog) \/ k = Len(backlog) + 1
  BY <1>3, <1>4
<1>6. \A d \in Clients : Waiting(d)' <=> Waiting(d) \/ d = c
  <2> TAKE d \in Clients
  <2>1. Waiting(d)' => Waiting(d) \/ d = c
    BY <1>3, <1>5 DEF Waiting
  <2>2. Waiting(d) => Waiting(d)'
    BY <1>3, <1>4 DEF Waiting
  <2>3. Waiting(c)'
    <3>1. Len(backlog) + 1 \in 1..Len(backlog')
      BY <1>3, <1>4
    <3> QED
      BY <3>1, <1>3 DEF Waiting
  <2> QED
    BY <2>1, <2>2, <2>3
<1>7. unread[c] = <<>> /\ ~Waiting(c) /\ connfd # c /\ \A k \in 1..Len(served) : served[k] # c
  BY <1>1 DEF Unstarted
<1>8. \A d \in Clients : client'[d] = IF d = c THEN "group" ELSE client[d]
  BY <1>1 DEF Types
<1>9. \A d \in Clients : group_of'[d] = IF d = c THEN g ELSE group_of[d]
  BY <1>2 DEF Types
<1>10. Types'
  BY <1>1, <1>2, <1>3 DEF Types, Phases
<1>11. Unstarted'
  BY <1>1, <1>6, <1>8, <1>9 DEF Unstarted
<1>12. Queue'
  <2>1. ASSUME NEW j \in 1..Len(backlog'), NEW k \in 1..Len(backlog'), backlog'[j] = backlog'[k]
        PROVE  j = k
    <3>1. \A i \in 1..Len(backlog) : backlog[i] # c
      BY <1>7 DEF Waiting
    <3> QED
      BY <2>1, <3>1, <1>3, <1>5 DEF Queue
  <2>2. \A d \in Clients : Waiting(d)' => connfd' # d
    BY <1>1, <1>6, <1>7 DEF Queue
  <2> QED
    BY <2>1, <2>2 DEF Queue
<1>13. Unanswered'
  BY <1>1, <1>6, <1>7, <1>8 DEF Unanswered, Wrote
<1>14. Serving'
  BY <1>1, <1>7, <1>8, <1>9 DEF Serving
<1> QED
  BY <1>10, <1>11, <1>12, <1>13, <1>14

LEMMA PairAppended ==
  ASSUME NEW a, NEW b
  PROVE  Append(<<>>, b) = <<b>> /\ Append(<<a>>, b) = <<a, b>>
<1> DEFINE T == {a, b}
           s == <<a>>
           t == Append(s, b)
           u == <<a, b>>
<1>1. s \in Seq(T) /\ Len(s) = 1 /\ s[1] = a
  OBVIOUS
<1>2. u \in Seq(T) /\ Len(u) = 2 /\ u[1] = a /\ u[2] = b
  OBVIOUS
<1>3. a \in T /\ b \in T
  OBVIOUS
<1> HIDE DEF T, s
<1>4. t \in Seq(T) /\ Len(t) = Len(s) + 1 /\ (\A k \in 1..Len(s) : t[k] = s[k]) /\ t[Len(s) + 1] = b
  <2> HIDE DEF u
  <2>1. s \in Seq(T) /\ b \in T /\ t = Append(s, b)
    BY <1>1, <1>3
  <2> HIDE DEF t
  <2> QED
    BY <2>1, AppendProperties
<1> HIDE DEF t, u
<1>5. Len(t) = Len(u) /\ \A k \in 1..Len(t) : t[k] = u[k]
  <2>1. Len(t) = 2 /\ t[1] = a /\ t[2] = b
    BY <1>1, <1>4
  <2>2. \A k \in 1..2 : k = 1 \/ k = 2
    OBVIOUS
  <2> QED
    BY <1>2, <2>1, <2>2
<1>6. t = u
  BY <1>2, <1>4, <1>5, SeqEqual
<1>7. Append(<<>>, b) = <<b>>
  OBVIOUS
<1> QED
  BY <1>6, <1>7 DEF s, t, u

\* What a client does to what it wrote, while it stays where it is.
LEMMA ClientProtocol ==
  ASSUME Protocol, NEW c \in Clients, WriteGroup(c) \/ SendMessage(c) \/ Kill(c)
  PROVE  Protocol'
<1> USE DEF Protocol
<1>1. UNCHANGED <<group_of, backlog, server, connfd, group_id, recv_buff, group_list, items, mesgs, served>>
  BY DEF WriteGroup, SendMessage, Kill, ClientStep, listVars
<1>2. PICK to \in Phases \ {"start"} : client' = [client EXCEPT ![c] = to]
  <2> USE DEF WriteGroup, SendMessage, Kill, ClientStep, Phases
  <2>1. CASE WriteGroup(c)
    BY <2>1
  <2>2. CASE SendMessage(c)
    BY <2>2
  <2>3. CASE Kill(c)
    BY <2>3
  <2> QED
    BY <2>1, <2>2, <2>3
<1>3. client[c] # "start"
  BY DEF WriteGroup, SendMessage, Kill, ClientStep
<1>4. \A d \in Clients : client'[d] = IF d = c THEN to ELSE client[d]
  BY <1>2 DEF Types
<1>5. /\ client' \in [Clients -> Phases]
      /\ \A d \in Clients : client'[d] = "start" <=> client[d] = "start"
  BY <1>2, <1>3, <1>4 DEF Types
<1>6. \A d \in Clients : Waiting(d)' <=> Waiting(d)
  BY <1>1 DEF Waiting
<1>7. unread' \in [Clients -> Seq({"group", "message"})]
      /\ \A d \in Clients \ {c} : unread'[d] = unread[d]
  <2>1. unread[c] \in Seq({"group", "message"})
    BY DEF Types
  <2>2. /\ Append(unread[c], "group") \in Seq({"group", "message"})
        /\ Append(unread[c], "message") \in Seq({"group", "message"})
    BY <2>1, AppendProperties
  <2> QED
    BY <2>2 DEF Types, WriteGroup, SendMessage, Kill
<1>9. Unanswered' /\ Serving'
  <2>1. CASE WriteGroup(c)
    <3>1. client[c] = "group" /\ client'[c] = "message" /\ unread'[c] = Append(unread[c], "group")
      BY <2>1 DEF WriteGroup, ClientStep, Types
    <3>2. unread[c] = <<>> => unread'[c] = <<"group">>
      BY <3>1
    <3>3. Unanswered'
      BY <1>1, <1>4, <1>6, <1>7, <3>1, <3>2 DEF Unanswered, Wrote
    <3>4. server = "message" => connfd # c
      BY <3>1 DEF Serving
    <3> QED
      BY <1>1, <1>4, <1>7, <3>3, <3>4 DEF Serving
  <2>2. CASE SendMessage(c)
    <3>1. client[c] = "message" /\ client'[c] = "exited" /\ unread'[c] = Append(unread[c], "message")
      BY <2>2 DEF SendMessage, ClientStep, Types
    <3>2. /\ unread[c] = <<>> => unread'[c] = <<"message">>
          /\ unread[c] = <<"group">> => unread'[c] = <<"group", "message">>
      <4>1. /\ Append(<<>>, "message") = <<"message">>
            /\ Append(<<"group">>, "message") = <<"group", "message">>
        BY PairAppended
      <4> QED
        BY <4>1, <3>1
    <3>3. Unanswered'
      BY <1>1, <1>4, <1>6, <1>7, <3>1, <3>2 DEF Unanswered, Wrote
    <3>4. server = "message" /\ connfd = c => unread'[c] = <<"message">> /\ group_id = group_of[c]
      BY <3>1, <3>2 DEF Serving
    <3> QED
      BY <1>1, <1>4, <1>7, <3>1, <3>3, <3>4 DEF Serving
  <2>3. CASE Kill(c)
    <3>1. client'[c] = "killed" /\ unread' = unread
      BY <2>3 DEF Kill, ClientStep, Types
    <3>2. Unanswered'
      BY <1>1, <1>4, <1>6, <3>1 DEF Unanswered, Wrote
    <3>3. Serving'
      BY <1>1, <1>4, <3>1 DEF Serving
    <3> QED
      BY <3>2, <3>3
  <2> QED
    BY <2>1, <2>2, <2>3
<1>10. Types'
  BY <1>1, <1>5, <1>7 DEF Types
<1>11. Unstarted'
  BY <1>1, <1>3, <1>5, <1>6, <1>7 DEF Unstarted
<1>12. Queue'
  BY <1>1, <1>6 DEF Queue
<1> QED
  BY <1>9, <1>10, <1>11, <1>12

-----------------------------------------------------------------------------
(* The server.                                                             *)

LEMMA TailOfPair ==
  ASSUME NEW a, NEW b
  PROVE  Tail(<<a>>) = <<>> /\ Tail(<<a, b>>) = <<b>>
<1> DEFINE T == {a, b}
           u == <<a, b>>
           t == Tail(u)
           s == <<a>>
           r == Tail(s)
<1>1. u \in Seq(T) /\ Len(u) = 2 /\ u[1] = a /\ u[2] = b /\ u # <<>>
  OBVIOUS
<1>2. s \in Seq(T) /\ Len(s) = 1 /\ s # <<>>
  OBVIOUS
<1>3. <<b>> \in Seq(T) /\ Len(<<b>>) = 1 /\ <<b>>[1] = b
  OBVIOUS
<1> HIDE DEF T, u, s
<1>4. t \in Seq(T) /\ Len(t) = 1 /\ t[1] = u[2]
  <2>1. t \in Seq(T) /\ Len(t) = Len(u) - 1 /\ \A i \in 1..Len(u) - 1 : t[i] = u[i + 1]
    BY <1>1, HeadTailProperties
  <2> QED
    BY <1>1, <2>1
<1>5. r \in Seq(T) /\ Len(r) = 0
  BY <1>2, HeadTailProperties
<1> HIDE DEF t, r
<1>6. t = <<b>>
  <2> DEFINE v == <<b>>
  <2>1. v \in Seq(T) /\ Len(v) = 1 /\ v[1] = b
    BY <1>3
  <2> HIDE DEF v
  <2>2. \A k \in 1..1 : k = 1
    OBVIOUS
  <2>3. t = v
    BY <1>1, <1>4, <2>1, <2>2, SeqEqual
  <2> QED
    BY <2>3 DEF v
<1>7. r = <<>>
  BY <1>5, EmptySeq
<1> QED
  BY <1>6, <1>7 DEF t, r, s, u

LEMMA AcceptProtocol ==
  ASSUME Protocol, Accept
  PROVE  Protocol'
<1> USE DEF Protocol
<1>1. /\ server' = "group" /\ backlog # <<>> /\ connfd' = Head(backlog) /\ backlog' = Tail(backlog)
      /\ UNCHANGED <<client, group_of, unread, group_id, recv_buff, group_list, items, mesgs, served>>
  BY DEF Accept, ServerStep, listVars
<1> DEFINE n == Len(backlog)
<1>2. n \in Nat /\ \A k \in 1..n : backlog[k] \in Clients
  BY QueueTypes
<1>3. backlog \in Seq(Clients)
  BY DEF Types
<1> HIDE DEF n
<1>4. /\ n # 0 /\ backlog' \in Seq(Clients) /\ Len(backlog') = n - 1
      /\ \A k \in 1..n - 1 : backlog'[k] = backlog[k + 1]
      /\ connfd' = backlog[1] /\ connfd' \in Clients
  BY <1>1, <1>3, HeadTailProperties, EmptySeq DEF n
<1>5. 1 \in 1..n /\ \A k \in 1..n - 1 : k + 1 \in 1..n /\ k + 1 # 1
  BY <1>2, <1>4
<1>6. \A d \in Clients : Waiting(d)' => Waiting(d) /\ d # connfd'
  <2> SUFFICES ASSUME NEW d \in Clients, Waiting(d)' PROVE Waiting(d) /\ d # connfd'
    OBVIOUS
  <2>1. PICK k \in 1..n - 1 : backlog'[k] = d
    BY <1>4 DEF Waiting
  <2>2. backlog[k + 1] = d /\ k + 1 \in 1..n /\ k + 1 # 1
    BY <2>1, <1>4, <1>5
  <2>3. Waiting(d)
    BY <2>2 DEF Waiting, n
  <2>4. backlog[k + 1] # backlog[1]
    BY <2>2, <1>5 DEF Queue, n
  <2> QED
    BY <2>2, <2>3, <2>4, <1>4
<1>7. Waiting(connfd')
  BY <1>4, <1>5 DEF Waiting, n
<1>8. Types'
  BY <1>1, <1>4 DEF Types
<1>9. Unstarted'
  <2> SUFFICES ASSUME NEW d \in Clients
               PROVE  (IF client[d] = "start"
                       THEN /\ unread[d] = <<>> /\ ~Waiting(d) /\ connfd # d
                            /\ \A k \in 1..Len(served) : served[k] # d
                       ELSE group_of[d] \in Groups)'
    BY DEF Unstarted
  <2>1. IF client[d] = "start"
        THEN /\ unread[d] = <<>> /\ ~Waiting(d) /\ connfd # d
             /\ \A k \in 1..Len(served) : served[k] # d
        ELSE group_of[d] \in Groups
    BY DEF Unstarted
  <2>2. client[d] = "start" => ~Waiting(d)' /\ connfd' # d
    BY <2>1, <1>6, <1>7
  <2> QED
    BY <2>1, <2>2, <1>1
<1>10. Queue'
  <2>1. ASSUME NEW j \in 1..n - 1, NEW k \in 1..n - 1, backlog'[j] = backlog'[k]
        PROVE  j = k
    <3>1. j + 1 \in 1..n /\ k + 1 \in 1..n /\ backlog[j + 1] = backlog[k + 1]
      BY <2>1, <1>4, <1>5
    <3>2. j + 1 = k + 1
      BY <3>1 DEF Queue, n
    <3> QED
      BY <3>2, <1>2
  <2> QED
    BY <2>1, <1>4, <1>6 DEF Queue
<1>11. Unanswered'
  BY <1>1, <1>6, <1>7 DEF Unanswered, Wrote
<1>12. Serving'
  BY <1>1, <1>4 DEF Serving
<1> QED
  BY <1>8, <1>9, <1>10, <1>11, <1>12

LEMMA ListNotEmpty ==
  ASSUME Shaped
  PROVE  group_list = Null <=> Len(items) = 0
<1>1. PICK ord, lists : Shape(items, mesgs, group_list, ord, lists)
  BY DEF Shaped
<1>2. items \in Seq(Item) /\ Ordered(items, group_list, ord)
  BY <1>1 DEF Shape
<1>3. Len(items) \in Nat /\ Len(ord) = Len(items) /\ \A k \in 1..Len(items) : ord[k] \in 1..Len(items)
  BY <1>2, OrderedFacts
<1>4. group_list = IF Len(ord) = 0 THEN Null ELSE ord[1]
  BY <1>2 DEF Ordered
<1> QED
  BY <1>3, <1>4 DEF Null

LEMMA ReadGroupProtocol ==
  ASSUME Protocol, Shaped, ReadGroup
  PROVE  Protocol'
<1> USE DEF Protocol
<1>1. /\ server = "group" /\ server' = "message"
      /\ unread' = [unread EXCEPT ![connfd] = IF @ = <<>> THEN @ ELSE Tail(@)]
      /\ UNCHANGED <<client, group_of, backlog, connfd, recv_buff, served>>
  BY DEF ReadGroup, ServerStep
<1>2. \/ unread[connfd] # <<>> /\ group_id' = group_of[connfd]
      \/ EndOfFile /\ group_id' \in Groups
  BY DEF ReadGroup
<1>3. connfd \in Clients
  BY <1>1 DEF Serving
<1>4. client[connfd] # "start" /\ group_of[connfd] \in Groups
  BY <1>3 DEF Unstarted
<1>5. group_id' \in Groups
  BY <1>2, <1>4
<1>6. Len(items') # 0
  <2>1. CASE group_list = Null
    <3>1. items' = Append(items, NewGroup(group_id', Null))
      BY <2>1 DEF ReadGroup
    <3>2. Len(items) = 0
      BY <2>1, ListNotEmpty
    <3>3. items \in Seq(Item)
      BY DEF Shaped, Shape
    <3>4. NewGroup(group_id', Null) \in Item
      BY <1>5, GroupAssumption DEF NewGroup, Item, Null
    <3> QED
      BY <3>1, <3>2, <3>3, <3>4, AppendProperties
  <2>2. CASE group_list # Null
    <3>1. items' = items
      BY <2>2 DEF ReadGroup, listVars
    <3> QED
      BY <2>2, <3>1, ListNotEmpty
  <2> QED
    BY <2>1, <2>2
<1>7. client[connfd] # "killed" => unread[connfd] = Wrote(connfd)
  BY <1>1, <1>3 DEF Unanswered
<1>8. /\ \A d \in Clients \ {connfd} : unread'[d] = unread[d]
      /\ unread'[connfd] = IF unread[connfd] = <<>> THEN <<>> ELSE Tail(unread[connfd])
  BY <1>1, <1>3 DEF Types
<1>9. client[connfd] # "killed" =>
        /\ client[connfd] \in {"message", "exited"}
        /\ unread'[connfd] = IF client[connfd] = "exited" THEN <<"message">> ELSE <<>>
        /\ group_id' = group_of[connfd]
  <2> SUFFICES ASSUME client[connfd] # "killed"
               PROVE  /\ client[connfd] \in {"message", "exited"}
                      /\ unread'[connfd] = IF client[connfd] = "exited" THEN <<"message">> ELSE <<>>
                      /\ group_id' = group_of[connfd]
    OBVIOUS
  <2>1. client[connfd] \in {"group", "message", "exited"}
    BY <1>3, <1>4 DEF Types, Phases
  <2>2. <<"group">> # <<>> /\ <<"group", "message">> # <<>>
    OBVIOUS
  <2>3. unread[connfd] # <<>>
    <3>1. CASE client[connfd] = "group"
      BY <3>1, <1>2, <1>7 DEF EndOfFile, Wrote
    <3>2. CASE client[connfd] # "group"
      BY <3>2, <2>1, <2>2, <1>7 DEF Wrote
    <3> QED
      BY <3>1, <3>2
  <2>4. client[connfd] # "group" /\ group_id' = group_of[connfd]
    BY <2>3, <1>2, <1>7 DEF EndOfFile, Wrote
  <2>5. unread'[connfd] = Tail(Wrote(connfd))
    BY <2>3, <1>7, <1>8
  <2>6. CASE client[connfd] = "message"
    BY <2>4, <2>5, <2>6, TailOfPair DEF Wrote
  <2>7. CASE client[connfd] = "exited"
    BY <2>4, <2>5, <2>7, TailOfPair DEF Wrote
  <2> QED
    BY <2>1, <2>4, <2>6, <2>7
<1>10. unread' \in [Clients -> Seq({"group", "message"})]
  <2>1. unread[connfd] \in Seq({"group", "message"})
    BY <1>3 DEF Types
  <2>2. unread[connfd] # <<>> => Tail(unread[connfd]) \in Seq({"group", "message"})
    BY <2>1, HeadTailProperties
  <2> QED
    BY <1>1, <2>2 DEF Types
<1>11. \A d \in Clients : Waiting(d)' <=> Waiting(d)
  BY <1>1 DEF Waiting
<1>12. Types'
  BY <1>1, <1>5, <1>10 DEF Types
<1>13. Unstarted'
  BY <1>1, <1>4, <1>8, <1>11 DEF Unstarted
<1>14. Queue'
  BY <1>1, <1>11 DEF Queue
<1>15. Unanswered'
  <2>1. \A d \in Clients : Waiting(d) => d # connfd
    BY DEF Queue
  <2> QED
    BY <1>1, <1>8, <1>11, <2>1 DEF Unanswered, Wrote
<1>16. Serving'
  BY <1>1, <1>3, <1>5, <1>6, <1>9 DEF Serving
<1> QED
  BY <1>12, <1>13, <1>14, <1>15, <1>16

LEMMA ReadMessageProtocol ==
  ASSUME Protocol, ReadMessage
  PROVE  Protocol'
<1> USE DEF Protocol
<1>1. /\ server = "message" /\ server' = "accept"
      /\ unread' = [unread EXCEPT ![connfd] = <<>>]
      /\ served' = Append(served, connfd)
      /\ connfd' = Garbage /\ group_id' = NoGroup
      /\ UNCHANGED <<client, group_of, backlog>>
  BY DEF ReadMessage, ServerStep
<1>2. connfd \in Clients
  BY <1>1 DEF Serving
<1>3. recv_buff' \in Clients \cup {Garbage}
  BY <1>2 DEF ReadMessage, Types
<1>4. /\ served' \in Seq(Clients)
      /\ Len(served) \in Nat /\ Len(served') = Len(served) + 1
      /\ \A k \in 1..Len(served) : served'[k] = served[k]
      /\ served'[Len(served) + 1] = connfd
  BY <1>1, <1>2, AppendProperties, QueueTypes DEF Types
<1>5. \A k \in 1..Len(served') : k \in 1..Len(served) \/ k = Len(served) + 1
  BY <1>4
<1>6. \A d \in Clients : Waiting(d)' <=> Waiting(d)
  BY <1>1 DEF Waiting
<1>7. /\ \A d \in Clients \ {connfd} : unread'[d] = unread[d]
      /\ unread'[connfd] = <<>>
  BY <1>1, <1>2 DEF Types
<1>8. client[connfd] # "start"
  BY <1>2 DEF Unstarted
<1>9. connfd' \notin Clients
  BY <1>1, GroupAssumption
<1>10. Types'
  BY <1>1, <1>3, <1>4, EmptySeq DEF Types
<1>11. Unstarted'
  <2>1. \A d \in Clients : client[d] = "start" => \A k \in 1..Len(served') : served'[k] # d
    BY <1>4, <1>5, <1>8 DEF Unstarted
  <2> QED
    BY <2>1, <1>1, <1>6, <1>7, <1>9 DEF Unstarted
<1>12. Queue'
  BY <1>1, <1>6, <1>9 DEF Queue
<1>13. Unanswered'
  BY <1>1, <1>6, <1>7 DEF Unanswered, Wrote, Queue
<1>14. Serving'
  BY <1>1 DEF Serving
<1> QED
  BY <1>10, <1>11, <1>12, <1>13, <1>14

-----------------------------------------------------------------------------
(* The lists.                                                              *)

LEMMA Walked ==
  /\ GroupsPrinted = GroupsFrom(items, group_list)
  /\ Board = BoardOf(items, mesgs)
  /\ \A g : ItemOrInsertPoint(g) = PointFrom(items, group_list, g)
  /\ \A g : SentTo(g) = Sifted(served, group_of, g)
<1>1. GroupsPrinted = GroupsFrom(items, group_list)
  BY DEF GroupsPrinted, GroupsFrom
<1>2. Board = BoardOf(items, mesgs)
  BY DEF Board, BoardOf, MessagesPrinted, MessagesFrom
<1>3. \A g : ItemOrInsertPoint(g) = PointFrom(items, group_list, g)
  <2> TAKE g
  <2> QED
    BY DEF ItemOrInsertPoint, PointFrom
<1>4. \A g : SentTo(g) = Sifted(served, group_of, g)
  BY Zenon DEF SentTo, Sifted
<1> QED
  BY <1>1, <1>2, <1>3, <1>4

LEMMA WalkedNext ==
  /\ Board' = BoardOf(items', mesgs')
  /\ \A g : SentTo(g)' = Sifted(served', group_of', g)
<1>1. Board' = BoardOf(items', mesgs')
  BY DEF Board, BoardOf, MessagesPrinted, MessagesFrom
<1>2. \A g : SentTo(g)' = Sifted(served', group_of', g)
  BY Zenon DEF SentTo, Sifted
<1> QED
  BY <1>1, <1>2

LEMMA MessageEntered ==
  ASSUME NEW head, NEW mesg, AppendMessage(head, mesg)
  PROVE  mesgs' = Entered(mesgs, head, mesg)
<1>1. MsgListEnd(head) = EndFrom(mesgs, head)
  BY DEF MsgListEnd, EndFrom
<1> QED
  BY <1>1, Zenon DEF AppendMessage, Entered

\* write_message() adds one message to one group.
LEMMA WriteMessageAdds ==
  ASSUME Shaped, Len(items) # 0, NEW g \in Groups, NEW mesg \in Clients \cup {Garbage},
         WriteMessage(g, mesg)
  PROVE  Shaped' /\ AddedTo(Board, Board', g, mesg)
<1> DEFINE n == Len(items)
           at == ItemOrInsertPoint(g)
           there == at # Null /\ items[at].group = g
           new == n + 1
           next == IF at = Null THEN group_list ELSE items[at].next_item
           head == IF there THEN items[at].msg_list_head ELSE Null
           item == IF there THEN at ELSE new
           all == IF there THEN items ELSE Append(Linked(at, new), NewGroup(g, next))
<1>1. /\ AppendMessage(head, mesg)
      /\ items' = IF head # Null THEN all ELSE [all EXCEPT ![item].msg_list_head = Len(mesgs) + 1]
      /\ group_list' = IF at = Null THEN new ELSE group_list
  BY DEF WriteMessage
<1>2. PICK ord, lists : Shape(items, mesgs, group_list, ord, lists)
  BY DEF Shaped
<1>3. \A i \in 1..n : items[i].group \in Groups
  BY DEF Shaped
<1>4. /\ items \in Seq(Item) /\ mesgs \in Seq(Message)
      /\ Ordered(items, group_list, ord) /\ Listed(items, mesgs, lists)
  BY <1>2 DEF Shape
<1>5. g \in Nat
  BY GroupAssumption
<1>6. at = PointFrom(items, group_list, g)
  BY Walked
<1> HIDE DEF at
<1>7. PICK p \in 0..n : /\ at = IF p = 0 THEN Null ELSE ord[p]
                        /\ \A j \in 1..p : items[ord[j]].group <= g
                        /\ \A j \in p + 1..n : g < items[ord[j]].group
  BY <1>4, <1>5, <1>6, PointFound
<1>8. /\ n \in Nat /\ Len(ord) = n
      /\ \A k \in 1..n : ord[k] \in 1..n
  BY <1>4, OrderedFacts
<1>9. \A j, k \in 1..n : j < k => items[ord[j]].group < items[ord[k]].group
  BY <1>4, <1>8 DEF Ordered
<1>10. \A i \in 1..n : items[i].group \in Nat
  BY <1>4, ItemTypes
<1>11. p # 0 => p \in 1..n /\ at = ord[p] /\ at \in 1..n /\ at # Null
  BY <1>7, <1>8 DEF Null
<1>12. p = 0 <=> at = Null
  BY <1>7, <1>11
<1>13. mesgs' = Entered(mesgs, head, mesg)
  BY <1>1, MessageEntered
\* The list of the group is there, or is made.
<1>14. /\ \E ord2, lists2 : Shape(all, mesgs, group_list', ord2, lists2)
       /\ item \in 1..Len(all) /\ all[item].group = g /\ all[item].msg_list_head = head
       /\ BoardOf(all, mesgs) = BoardOf(items, mesgs)
       /\ \A i \in 1..Len(all) : all[i].group \in Groups
  <2>1. CASE there
    <3>1. all = items /\ item = at /\ head = items[at].msg_list_head /\ at # Null
          /\ items[at].group = g
      BY <2>1
    <3>2. at \in 1..n /\ group_list' = group_list
      BY <3>1, <1>1, <1>11, <1>12
    <3> HIDE DEF all, item, head, there
    <3> QED
      BY <3>1, <3>2, <1>2, <1>3
  <2>2. CASE ~there
    <3>1. all = Append(Linked(at, new), NewGroup(g, next)) /\ item = new /\ head = Null
      BY <2>2
    <3>2. Between(items, ord, p, at, g)
      <4>1. ASSUME NEW j \in 1..p PROVE items[ord[j]].group < g
        <5>1. p # 0 /\ p \in 1..n /\ j \in 1..n /\ (j = p \/ j < p)
          BY <1>8
        <5>2. items[ord[p]].group # g
          BY <5>1, <2>2, <1>11
        <5>3. items[ord[p]].group < g
          BY <5>1, <5>2, <1>5, <1>7, <1>8, <1>10
        <5>4. CASE j = p
          BY <5>3, <5>4
        <5>5. CASE j < p
          <6>1. items[ord[j]].group < items[ord[p]].group
            BY <5>1, <5>5, <1>9
          <6> QED
            BY <6>1, <5>1, <5>3, <1>5, <1>8, <1>10
        <5> QED
          BY <5>1, <5>4, <5>5
      <4> QED
        BY <4>1, <1>7 DEF Between
    <3>3. Making(items, group_list, at, g, all)
      BY <3>1 DEF Making, Linked
    <3> HIDE DEF all, item, head, there
    <3>4. /\ \E ord2, lists2 : Shape(all, mesgs, IF p = 0 THEN Len(items) + 1 ELSE group_list,
                                     ord2, lists2)
          /\ Len(all) = Len(items) + 1 /\ SameGroups(items, all)
          /\ all[Len(items) + 1].group = g /\ all[Len(items) + 1].msg_list_head = Null
          /\ BoardOf(all, mesgs) = BoardOf(items, mesgs)
      <4> HIDE DEF n
      <4> QED
        BY <1>2, <1>5, <3>2, <3>3, MakingShape
    <3>5. group_list' = IF p = 0 THEN Len(items) + 1 ELSE group_list
      BY <1>1, <1>12
    <3>6. item \in 1..Len(all)
      BY <3>1, <3>4, <1>8
    <3>7. \A i \in 1..Len(all) : all[i].group \in Groups
      <4>1. \A i \in 1..Len(all) : i \in 1..n \/ i = n + 1
        BY <3>4, <1>8
      <4> QED
        BY <4>1, <3>4, <1>3 DEF SameGroups
    <3> QED
      BY <3>1, <3>4, <3>5, <3>6, <3>7
  <2> QED
    BY <2>1, <2>2
\* The message is its last.
<1> HIDE DEF all, item, head, there
<1>15. PICK ord2, lists2 : Shape(all, mesgs, group_list', ord2, lists2)
  BY <1>14
<1>16. Writing(all, mesgs, item, mesg, items', mesgs')
  BY <1>1, <1>13, <1>14, Zenon DEF Writing
<1>17. /\ \E lists3 : Shape(items', mesgs', group_list', ord2, lists3)
       /\ Len(items') = Len(all) /\ SameGroups(all, items')
       /\ AddedTo(BoardOf(all, mesgs), BoardOf(items', mesgs'), all[item].group, mesg)
  BY <1>14, <1>15, <1>16, WritingShape
<1>18. Shaped'
  <2>1. \E o, l : Shape(items', mesgs', group_list', o, l)
    BY <1>17
  <2>2. \A i \in 1..Len(items') : items'[i].group \in Groups
    BY <1>14, <1>17 DEF SameGroups
  <2> QED
    BY <2>1, <2>2 DEF Shaped
<1>19. AddedTo(Board, Board', g, mesg)
  BY <1>14, <1>17, Walked, WalkedNext
<1> QED
  BY <1>18, <1>19

\* The first group is made in an empty list, and has no message.
LEMMA ReadGroupMakes ==
  ASSUME Shaped, group_list = Null, NEW g \in Groups,
         items' = Append(items, NewGroup(g, Null)), group_list' = Len(items) + 1,
         mesgs' = mesgs
  PROVE  Shaped' /\ Board' = Board
<1>1. PICK ord, lists : Shape(items, mesgs, group_list, ord, lists)
  BY DEF Shaped
<1>2. Len(items) = 0 /\ g \in Nat /\ 0 \in 0..Len(items)
  BY ListNotEmpty, GroupAssumption
<1>3. Between(items, ord, 0, Null, g)
  BY <1>2 DEF Between
<1>4. Making(items, group_list, Null, g, items')
  BY DEF Making
<1> DEFINE p == 0
<1>5. Between(items, ord, p, Null, g)
  BY <1>3
<1> HIDE DEF p
<1>7. /\ \E ord2, lists2 : Shape(items', mesgs, IF p = 0 THEN Len(items) + 1 ELSE group_list,
                                 ord2, lists2)
      /\ Len(items') = Len(items) + 1 /\ SameGroups(items, items')
      /\ items'[Len(items) + 1].group = g /\ items'[Len(items) + 1].msg_list_head = Null
      /\ BoardOf(items', mesgs) = BoardOf(items, mesgs)
  BY <1>1, <1>2, <1>4, <1>5, MakingShape
<1>8. \E ord2, lists2 : Shape(items', mesgs', group_list', ord2, lists2)
  BY <1>7 DEF p
<1>9. \A i \in 1..Len(items') : items'[i].group \in Groups
  <2>1. \A i \in 1..Len(items') : i = Len(items) + 1
    BY <1>2, <1>7
  <2> QED
    BY <2>1, <1>7
<1>10. Shaped'
  BY <1>8, <1>9 DEF Shaped
<1>11. Board' = Board
  BY <1>7, Walked, WalkedNext
<1> QED
  BY <1>10, <1>11

\* The groups of a board that has its shape are lists of messages.
LEMMA BoardTypes ==
  ASSUME Shaped
  PROVE  /\ DOMAIN Board = Groups
         /\ \A g \in Groups : Board[g] \in Seq(Clients \cup {Garbage})
<1>1. PICK ord, lists : Shape(items, mesgs, group_list, ord, lists)
  BY DEF Shaped
<1>2. Board = BoardOf(items, mesgs)
  BY Walked
<1>3. ASSUME NEW g \in Groups PROVE Board[g] \in Seq(Clients \cup {Garbage})
  <2>1. /\ \A i \in 1..Len(items) : items[i].group = g => Board[g] = Texts(mesgs, lists[i])
        /\ (\A i \in 1..Len(items) : items[i].group # g) => Board[g] = <<>>
    BY <1>1, <1>2, BoardRead
  <2>2. CASE \E i \in 1..Len(items) : items[i].group = g
    <3>1. PICK i \in 1..Len(items) : items[i].group = g
      BY <2>2
    <3> DEFINE V == Clients \cup {Garbage}
               len == Len(lists[i])
               s == Texts(mesgs, lists[i])
    <3>2. s = [k \in 1..len |-> mesgs[lists[i][k]].mesg]
      BY DEF Texts
    <3>3. len \in Nat /\ \A k \in 1..len : mesgs[lists[i][k]].mesg \in V
      <4>1. mesgs \in Seq(Message) /\ Listed(items, mesgs, lists)
        BY <1>1 DEF Shape
      <4>2. len \in Nat /\ \A k \in 1..len : lists[i][k] \in 1..Len(mesgs)
        BY <4>1, ListedFacts
      <4> QED
        BY <4>1, <4>2, MessageTypes
    <3> HIDE DEF s, V, len
    <3>4. s \in Seq(V)
      BY <3>2, <3>3
    <3> QED
      BY <2>1, <3>1, <3>4 DEF s, V
  <2>3. CASE \A i \in 1..Len(items) : items[i].group # g
    BY <2>1, <2>3, EmptySeq
  <2> QED
    BY <2>2, <2>3
<1>4. DOMAIN Board = Groups
  BY DEF Board
<1> QED
  BY <1>3, <1>4

-----------------------------------------------------------------------------
(* The invariant.                                                          *)

\* What a step of a client, or accept(), leaves alone.
LEMMA SameLists ==
  ASSUME Inv, UNCHANGED <<group_list, items, mesgs, served>>,
         \A c \in Clients : client'[c] # "killed" => client[c] # "killed",
         \A k \in 1..Len(served) : group_of'[served[k]] = group_of[served[k]]
  PROVE  Shaped' /\ MessagesInOrder' /\ Board' = Board
<1>1. Shaped'
  BY DEF Inv, Shaped
<1>2. Board' = Board
  BY Walked, WalkedNext
<1>3. ASSUME NEW g \in Groups PROVE SentTo(g)' = SentTo(g)
  <2>1. Len(served) \in Nat
    BY QueueTypes DEF Inv, Protocol
  <2>2. Sifted(served, group_of', g) = Sifted(served, group_of, g)
    BY <2>1, SiftedSame
  <2> QED
    BY <2>2, Walked, WalkedNext
<1>4. MessagesInOrder'
  BY <1>2, <1>3 DEF Inv, MessagesInOrder
<1> QED
  BY <1>1, <1>2, <1>4

LEMMA ClientStepInv ==
  ASSUME Inv, NEW c \in Clients, ClientNext(c)
  PROVE  Inv' /\ Len(served') = Len(served)
<1>1. Protocol'
  BY ConnectProtocol, ClientProtocol DEF Inv, ClientNext
<1>2. UNCHANGED <<group_list, items, mesgs, served>>
  BY DEF ClientNext, Connect, WriteGroup, SendMessage, Kill, ClientStep, listVars
<1>3. \A d \in Clients : client'[d] # "killed" => client[d] # "killed"
  <2>1. PICK from \in Phases \ {"killed"}, to \in Phases :
               client[c] = from /\ client' = [client EXCEPT ![c] = to]
    BY DEF ClientNext, Connect, WriteGroup, SendMessage, Kill, ClientStep, Phases
  <2> QED
    BY <2>1 DEF Inv, Protocol, Types
<1>4. \A k \in 1..Len(served) : group_of'[served[k]] = group_of[served[k]]
  <2>1. CASE Connect(c)
    <3>1. \A k \in 1..Len(served) : served[k] # c
      BY <2>1 DEF Connect, ClientStep, Inv, Protocol, Unstarted
    <3>2. \A k \in 1..Len(served) : served[k] \in Clients
      BY QueueTypes DEF Inv, Protocol
    <3> QED
      BY <2>1, <3>1, <3>2 DEF Connect, Inv, Protocol, Types
  <2>2. CASE ~Connect(c)
    BY <2>2 DEF ClientNext, WriteGroup, SendMessage, Kill
  <2> QED
    BY <2>1, <2>2
<1>5. Shaped' /\ MessagesInOrder'
  BY <1>2, <1>3, <1>4, SameLists
<1> QED
  BY <1>1, <1>2, <1>5 DEF Inv

LEMMA AcceptInv ==
  ASSUME Inv, Accept
  PROVE  Inv' /\ Len(served') = Len(served)
<1>1. Protocol'
  BY AcceptProtocol DEF Inv
<1>2. UNCHANGED <<group_list, items, mesgs, served, client, group_of>>
  BY DEF Accept, ServerStep, listVars
<1>3. Shaped' /\ MessagesInOrder'
  BY <1>2, SameLists
<1> QED
  BY <1>1, <1>2, <1>3 DEF Inv

LEMMA ReadGroupInv ==
  ASSUME Inv, ReadGroup
  PROVE  Inv' /\ Len(served') = Len(served)
<1>1. Protocol'
  BY ReadGroupProtocol DEF Inv
<1>2. UNCHANGED <<client, group_of, served>>
  BY DEF ReadGroup, ServerStep
<1>3. group_id' \in Groups
  BY <1>1 DEF ReadGroup, ServerStep, Protocol, Serving
<1>4. CASE group_list # Null
  <2>1. UNCHANGED <<group_list, items, mesgs>>
    BY <1>4 DEF ReadGroup, listVars
  <2>2. Shaped' /\ MessagesInOrder'
    BY <1>2, <2>1, SameLists
  <2> QED
    BY <1>1, <1>2, <2>2 DEF Inv
<1>5. CASE group_list = Null
  <2>1. /\ items' = Append(items, NewGroup(group_id', Null))
        /\ group_list' = Len(items) + 1
        /\ mesgs' = mesgs
    BY <1>5 DEF ReadGroup
  <2>2. Shaped' /\ Board' = Board
    BY <1>3, <1>5, <2>1, ReadGroupMakes DEF Inv
  <2>3. \A g \in Groups : SentTo(g)' = SentTo(g)
    BY <1>2, Walked, WalkedNext
  <2>4. MessagesInOrder'
    BY <1>2, <2>2, <2>3 DEF Inv, MessagesInOrder
  <2> QED
    BY <1>1, <1>2, <2>2, <2>4 DEF Inv
<1> QED
  BY <1>4, <1>5

\* The message that is read is added to the group that was read.
LEMMA ReadMessageAdds ==
  ASSUME Inv, ReadMessage
  PROVE  /\ group_id \in Groups /\ recv_buff' \in Clients \cup {Garbage}
         /\ Shaped' /\ AddedTo(Board, Board', group_id, recv_buff')
<1>1. group_id \in Groups /\ Len(items) # 0 /\ connfd \in Clients
  BY DEF Inv, Protocol, Serving, ReadMessage, ServerStep
<1>2. recv_buff' \in Clients \cup {Garbage}
  BY <1>1 DEF ReadMessage, Inv, Protocol, Types
<1>3. WriteMessage(group_id, recv_buff')
  BY DEF ReadMessage
<1> QED
  BY <1>1, <1>2, <1>3, WriteMessageAdds DEF Inv

LEMMA ReadMessageInv ==
  ASSUME Inv, ReadMessage
  PROVE  Inv'
<1>1. Protocol'
  BY ReadMessageProtocol DEF Inv
<1>2. /\ group_id \in Groups /\ recv_buff' \in Clients \cup {Garbage}
      /\ Shaped' /\ AddedTo(Board, Board', group_id, recv_buff')
  BY ReadMessageAdds
<1>3. UNCHANGED <<client, group_of>> /\ served' = Append(served, connfd) /\ server = "message"
  BY DEF ReadMessage, ServerStep
<1>4. connfd \in Clients /\ served \in Seq(Clients)
  BY <1>3 DEF Inv, Protocol, Serving, Types
<1>5. ASSUME \A c \in Clients : client'[c] # "killed", NEW g \in Groups
      PROVE  /\ Len(Board'[g]) = Len(SentTo(g)')
             /\ \A k \in DOMAIN SentTo(g)' : Board'[g][k] \in {SentTo(g)'[k], Garbage}
  <2>1. client[connfd] # "killed"
    BY <1>3, <1>4, <1>5
  <2>2. group_id = group_of[connfd] /\ unread[connfd] = IF client[connfd] = "exited" THEN <<"message">> ELSE <<>>
    BY <1>3, <2>1 DEF Inv, Protocol, Serving
  <2>3. recv_buff' \in {connfd, Garbage}
    <3>1. <<"message">> # <<>>
      OBVIOUS
    <3> QED
      BY <2>1, <2>2, <3>1 DEF ReadMessage, EndOfFile
  <2> DEFINE B == Board[g]
             B2 == Board'[g]
             s == SentTo(g)
             s2 == SentTo(g)'
             V == Clients \cup {Garbage}
  <2>4. Len(B) = Len(s) /\ \A k \in DOMAIN s : B[k] \in {s[k], Garbage}
    BY <1>3, <1>5 DEF Inv, MessagesInOrder
  <2>5. B \in Seq(V) /\ DOMAIN Board = Groups
    BY BoardTypes DEF Inv
  <2>6. B2 = IF g = group_id THEN Append(B, recv_buff') ELSE B
    BY <1>2, <2>5 DEF AddedTo
  <2>7. s2 = IF group_of[connfd] = g THEN Append(s, connfd) ELSE s
    <3>1. s = Sifted(served, group_of, g)
      BY Walked
    <3>2. s2 = Sifted(Append(served, connfd), group_of, g)
      BY <1>3, WalkedNext
    <3> HIDE DEF s, s2
    <3> QED
      BY <3>1, <3>2, <1>4, SiftedAppend
  <2>8. s \in Seq(V)
    <3>1. s = Sifted(served, group_of, g) /\ served \in Seq(V)
      <4>1. Clients \subseteq V
        OBVIOUS
      <4> HIDE DEF V
      <4> QED
        BY <4>1, <1>4, Walked, SeqMonotonic
    <3> QED
      BY <3>1, SiftedTypes
  <2> HIDE DEF B, B2, s, s2
  <2>9. CASE g # group_id
    BY <2>2, <2>4, <2>6, <2>7, <2>9 DEF B2, s2
  <2>10. CASE g = group_id
    <3>1. B2 = Append(B, recv_buff') /\ s2 = Append(s, connfd)
      BY <2>2, <2>6, <2>7, <2>10
    <3>2. recv_buff' \in V /\ connfd \in V
      BY <1>2, <1>4
    <3> HIDE DEF V
    <3>3. /\ B2 \in Seq(V) /\ Len(B2) = Len(B) + 1 /\ B2[Len(B) + 1] = recv_buff'
          /\ \A k \in 1..Len(B) : B2[k] = B[k]
      BY <3>1, <3>2, <2>5, AppendProperties
    <3>4. /\ s2 \in Seq(V) /\ Len(s2) = Len(s) + 1 /\ s2[Len(s) + 1] = connfd
          /\ \A k \in 1..Len(s) : s2[k] = s[k]
      BY <3>1, <3>2, <2>8, AppendProperties
    <3>5. Len(s) \in Nat /\ DOMAIN s = 1..Len(s) /\ DOMAIN s2 = 1..Len(s) + 1
      BY <2>8, <3>4, LenProperties
    <3>6. ASSUME NEW k \in DOMAIN s2 PROVE B2[k] \in {s2[k], Garbage}
      <4>1. k \in 1..Len(s) \/ k = Len(s) + 1
        BY <3>5
      <4>2. CASE k \in 1..Len(s)
        BY <4>2, <3>3, <3>4, <3>5, <2>4
      <4>3. CASE k = Len(s) + 1
        BY <4>3, <3>3, <3>4, <2>3, <2>4
      <4> QED
        BY <4>1, <4>2, <4>3
    <3> QED
      BY <3>3, <3>4, <3>6, <2>4 DEF B2, s2
  <2> QED
    BY <2>9, <2>10
<1>6. MessagesInOrder'
  BY <1>5 DEF MessagesInOrder
<1> QED
  BY <1>1, <1>2, <1>6 DEF Inv

LEMMA InitInv ==
  ASSUME Init
  PROVE  Inv
<1>1. Protocol
  BY InitProtocol
<1>2. items = <<>> /\ mesgs = <<>> /\ group_list = Null /\ served = <<>>
  BY DEF Init
<1> DEFINE none == [i \in 1..0 |-> <<>>]
<1>3. Len(items) = 0 /\ Len(mesgs) = 0 /\ 1..0 = {} /\ items \in Seq(Item) /\ mesgs \in Seq(Message)
  BY <1>2, EmptySeq
<1>4. Ordered(items, group_list, <<>>)
  <2> DEFINE ord == <<>>
  <2>1. ord \in Seq(1..Len(items)) /\ Len(ord) = 0
    BY EmptySeq
  <2> HIDE DEF ord
  <2>2. Ordered(items, group_list, ord)
    BY <1>2, <1>3, <2>1, OrderedIntro
  <2> QED
    BY <2>2 DEF ord
<1>5. Listed(items, mesgs, none)
  <2>1. none \in [1..Len(items) -> Seq(1..Len(mesgs))]
    BY <1>3
  <2>2. Apart(none, Len(items)) /\ Covering(none, Len(items), Len(mesgs))
    BY <1>3 DEF Apart, Covering
  <2> HIDE DEF none
  <2> QED
    BY <1>3, <2>1, <2>2, ListedIntro
<1>6. Shape(items, mesgs, group_list, <<>>, none)
  BY <1>3, <1>4, <1>5 DEF Shape
<1>7. Shaped
  BY <1>3, <1>6 DEF Shaped
<1>8. \A g \in Groups : Board[g] = <<>> /\ SentTo(g) = <<>>
  <2> TAKE g \in Groups
  <2>1. Board[g] = <<>>
    BY <1>3, <1>6, BoardRead, Walked
  <2>2. SentTo(g) = <<>>
    BY <1>2, Walked, SiftedEmpty
  <2> QED
    BY <2>1, <2>2
<1>9. MessagesInOrder
  BY <1>8 DEF MessagesInOrder
<1> QED
  BY <1>1, <1>7, <1>9 DEF Inv

LEMMA StepInv ==
  ASSUME Inv, [Next]_vars
  PROVE  Inv' /\ (ReadMessage \/ Len(served') = Len(served))
<1>1. CASE ReadMessage
  BY <1>1, ReadMessageInv
<1>2. CASE ReadGroup
  BY <1>2, ReadGroupInv
<1>3. CASE Accept
  BY <1>3, AcceptInv
<1>4. ASSUME NEW c \in Clients, ClientNext(c) PROVE Inv' /\ Len(served') = Len(served)
  BY <1>4, ClientStepInv
<1>5. CASE UNCHANGED vars
  <2>1. UNCHANGED <<client, group_of, unread, backlog, server, connfd, group_id, recv_buff,
                    group_list, items, mesgs, served>>
    BY <1>5 DEF vars, netVars, listVars
  <2>2. Protocol'
    BY <2>1 DEF Inv, Protocol, Types, Unstarted, Queue, Unanswered, Serving, Waiting, Wrote
  <2>3. Shaped' /\ MessagesInOrder'
    BY <2>1, SameLists
  <2> QED
    BY <2>1, <2>2, <2>3 DEF Inv
<1> QED
  BY <1>1, <1>2, <1>3, <1>4, <1>5 DEF Next, ServerNext

LEMMA InvHolds == Spec => []Inv
<1>1. Init => Inv
  BY InitInv
<1>2. Inv /\ [Next]_vars => Inv'
  BY StepInv
<1> QED
  BY <1>1, <1>2, PTL DEF Spec

LEMMA InvSorted ==
  ASSUME Inv
  PROVE  SortedGroups
<1>1. PICK ord, lists : Shape(items, mesgs, group_list, ord, lists)
  BY DEF Inv, Shaped
<1>2. items \in Seq(Item) /\ Ordered(items, group_list, ord)
  BY <1>1 DEF Shape
<1>3. GroupsPrinted = ord
  BY <1>2, GroupsRead, Walked
<1>4. ord \in Seq(1..Len(items)) /\ Len(ord) = Len(items)
  BY <1>2, OrderedFacts
<1>5. DOMAIN ord = 1..Len(ord)
  BY <1>4, LenProperties
<1> QED
  BY <1>2, <1>3, <1>4, <1>5 DEF SortedGroups, Ordered

\* However many clients and groups there are, whatever ends early and whatever
\* number is read at the end of a file: the walk of group_list.c's list meets
\* every group that was made, once, the smaller before the greater.
THEOREM GroupsStaySorted == Spec => []SortedGroups
BY InvHolds, InvSorted, PTL

\* While no client is ended early, each group's list holds the messages of its
\* clients, in the order in which the server took their connections, the first
\* read() of each whole or cut.
THEOREM MessagesStayInOrder == Spec => []MessagesInOrder
<1>1. Inv => MessagesInOrder
  BY DEF Inv
<1> QED
  BY <1>1, InvHolds, PTL

\* A connection adds one message, at the end of one group's list, whether
\* write_message() finds that list or makes it, and leaves the other lists as
\* they were.
THEOREM OneMessageEachHolds == Spec => OneMessageEach
<1>1. Inv /\ [Next]_vars =>
        [Len(served') > Len(served)
           => \E g \in Groups : Board' = [Board EXCEPT ![g] = Append(@, recv_buff')]]_vars
  <2> SUFFICES ASSUME Inv, [Next]_vars, Len(served') > Len(served)
               PROVE  \E g \in Groups : Board' = [Board EXCEPT ![g] = Append(@, recv_buff')]
    OBVIOUS
  <2>1. Len(served) \in Nat
    BY QueueTypes DEF Inv, Protocol
  <2>2. ReadMessage
    BY <2>1, StepInv
  <2>3. group_id \in Groups /\ AddedTo(Board, Board', group_id, recv_buff')
    BY <2>2, ReadMessageAdds
  <2> QED
    BY <2>3, Zenon DEF AddedTo
<1> QED
  BY <1>1, InvHolds, PTL DEF Spec, OneMessageEach
=============================================================================
