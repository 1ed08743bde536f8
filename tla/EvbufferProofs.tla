--------------------------- MODULE EvbufferProofs ---------------------------
(***************************************************************************)
(* The buffers of Evbuffer, for any number of them, chains of any size and *)
(* calls of any length: each holds the bytes that were added to it and not *)
(* taken from it, no chain holds more than its memory, last_with_datap is  *)
(* where it should be, and the callbacks' counts add up.                   *)
(***************************************************************************)
EXTENDS Evbuffer, MinHeapProofs

-----------------------------------------------------------------------------
(* Sequences that are cut and joined.                                      *)

LEMMA CutAt ==
  ASSUME NEW S, NEW s \in Seq(S), NEW k \in 0..Len(s)
  PROVE  /\ SubSeq(s, 1, k) \in Seq(S) /\ Len(SubSeq(s, 1, k)) = k
         /\ \A i \in 1..k : SubSeq(s, 1, k)[i] = s[i]
         /\ Drop(s, k) \in Seq(S) /\ Len(Drop(s, k)) = Len(s) - k
         /\ \A i \in 1..Len(s) - k : Drop(s, k)[i] = s[k + i]
         /\ SubSeq(s, 1, k) \o Drop(s, k) = s
<1>1. Len(s) \in Nat /\ k \in Nat /\ k <= Len(s) /\ \A i \in 1..Len(s) : s[i] \in S
  BY LenProperties
<1>2. /\ SubSeq(s, 1, k) \in Seq(S) /\ Len(SubSeq(s, 1, k)) = k
      /\ \A i \in 1..k : SubSeq(s, 1, k)[i] = s[i]
  <2>1. \A i \in 1..k : s[i] \in S
    BY <1>1
  <2> QED
    BY <1>1, <2>1, SubSeqProperties, 1 \in Int
<1>3. /\ Drop(s, k) \in Seq(S) /\ Len(Drop(s, k)) = Len(s) - k
      /\ \A i \in 1..Len(s) - k : Drop(s, k)[i] = s[k + i]
  <2>1. \A i \in k + 1..Len(s) : s[i] \in S
    BY <1>1
  <2>2. k + 1 \in Int /\ Len(s) \in Int
    BY <1>1
  <2>3. /\ SubSeq(s, k + 1, Len(s)) \in Seq(S)
        /\ Len(SubSeq(s, k + 1, Len(s))) = IF k + 1 <= Len(s) THEN Len(s) - (k + 1) + 1 ELSE 0
        /\ \A i \in 1..Len(s) - (k + 1) + 1 : SubSeq(s, k + 1, Len(s))[i] = s[k + 1 + i - 1]
    BY <2>1, <2>2, SubSeqProperties
  <2>4. /\ \A i \in 1..Len(s) - k : k + 1 + i - 1 = k + i
        /\ Len(s) - (k + 1) + 1 = Len(s) - k
        /\ (IF k + 1 <= Len(s) THEN Len(s) - (k + 1) + 1 ELSE 0) = Len(s) - k
    BY <1>1
  <2> QED
    BY <2>3, <2>4 DEF Drop
<1>4. SubSeq(s, 1, k) \o Drop(s, k) = s
  <2>1. 1 \in 1..Len(s) + 1 /\ k \in 1 - 1..Len(s) /\ Len(s) \in k..Len(s)
    BY <1>1
  <2>2. SubSeq(s, 1, k) \o SubSeq(s, k + 1, Len(s)) = SubSeq(s, 1, Len(s))
    BY <2>1, ConcatAdjacentSubSeq
  <2> QED
    BY <2>2, SubSeqFull DEF Drop
<1> QED
  BY <1>2, <1>3, <1>4

\* What is cut from two that were joined.
LEMMA CutJoined ==
  ASSUME NEW S, NEW u \in Seq(S), NEW v \in Seq(S), NEW k \in 0..Len(u) + Len(v)
  PROVE  /\ k <= Len(u) => /\ SubSeq(u \o v, 1, k) = SubSeq(u, 1, k)
                           /\ Drop(u \o v, k) = Drop(u, k) \o v
         /\ k >= Len(u) => /\ SubSeq(u \o v, 1, k) = u \o SubSeq(v, 1, k - Len(u))
                           /\ Drop(u \o v, k) = Drop(v, k - Len(u))
<1> DEFINE w == u \o v
           m == Len(u)
           n == Len(v)
<1>1. /\ w \in Seq(S) /\ Len(w) = m + n /\ m \in Nat /\ n \in Nat /\ k \in 0..Len(w)
      /\ \A i \in 1..m + n : w[i] = IF i <= m THEN u[i] ELSE v[i - m]
  BY ConcatProperties, LenProperties
<1>2. /\ SubSeq(w, 1, k) \in Seq(S) /\ Len(SubSeq(w, 1, k)) = k
      /\ \A i \in 1..k : SubSeq(w, 1, k)[i] = w[i]
      /\ Drop(w, k) \in Seq(S) /\ Len(Drop(w, k)) = m + n - k
      /\ \A i \in 1..m + n - k : Drop(w, k)[i] = w[k + i]
  <2> HIDE DEF w
  <2>1. /\ SubSeq(w, 1, k) \in Seq(S) /\ Len(SubSeq(w, 1, k)) = k
        /\ \A i \in 1..k : SubSeq(w, 1, k)[i] = w[i]
        /\ Drop(w, k) \in Seq(S) /\ Len(Drop(w, k)) = Len(w) - k
        /\ \A i \in 1..Len(w) - k : Drop(w, k)[i] = w[k + i]
    BY <1>1, CutAt
  <2> QED
    BY <2>1, <1>1
<1> HIDE DEF w, m, n
<1>3. ASSUME k <= m
      PROVE  SubSeq(w, 1, k) = SubSeq(u, 1, k) /\ Drop(w, k) = Drop(u, k) \o v
  <2>1. k \in 0..Len(u)
    BY <1>1, <1>3 DEF m
  <2>2. /\ SubSeq(u, 1, k) \in Seq(S) /\ Len(SubSeq(u, 1, k)) = k
        /\ \A i \in 1..k : SubSeq(u, 1, k)[i] = u[i]
        /\ Drop(u, k) \in Seq(S) /\ Len(Drop(u, k)) = m - k
        /\ \A i \in 1..m - k : Drop(u, k)[i] = u[k + i]
    BY <2>1, CutAt DEF m
  <2>3. \A i \in 1..k : i \in 1..m + n /\ i <= m
    BY <1>1, <1>3
  <2>4. SubSeq(w, 1, k) = SubSeq(u, 1, k)
    BY <1>1, <1>2, <2>2, <2>3, SeqEqual
  <2> DEFINE d == Drop(u, k) \o v
  <2>5. /\ d \in Seq(S) /\ Len(d) = (m - k) + n
        /\ \A i \in 1..(m - k) + n : d[i] = IF i <= m - k THEN Drop(u, k)[i] ELSE v[i - (m - k)]
    <3>1. /\ d \in Seq(S) /\ Len(d) = Len(Drop(u, k)) + Len(v)
          /\ \A i \in 1..Len(Drop(u, k)) + Len(v) :
               d[i] = IF i <= Len(Drop(u, k)) THEN Drop(u, k)[i] ELSE v[i - Len(Drop(u, k))]
      BY <2>2, ConcatProperties
    <3> QED
      BY <3>1, <2>2 DEF n
  <2> HIDE DEF d
  <2>6. ASSUME NEW i \in 1..m + n - k PROVE Drop(w, k)[i] = d[i]
    <3>1. /\ i \in 1..(m - k) + n /\ k + i \in 1..m + n
          /\ i <= m - k <=> k + i <= m
          /\ k + i - m = i - (m - k)
      BY <1>1, <1>3
    <3>2. CASE i <= m - k
      <4>1. i \in 1..m - k
        BY <3>2, <1>1
      <4> QED
        BY <3>1, <3>2, <4>1, <2>2, <2>5, <1>1, <1>2
    <3>3. CASE ~(i <= m - k)
      <4>1. d[i] = v[i - (m - k)]
        BY <3>1, <3>3, <2>5
      <4>2. Drop(w, k)[i] = v[k + i - m]
        BY <3>1, <3>3, <1>1, <1>2
      <4> QED
        BY <4>1, <4>2, <3>1
    <3> QED
      BY <3>2, <3>3
  <2>7. Len(Drop(w, k)) = Len(d) /\ Len(d) = m + n - k
    BY <1>1, <1>2, <2>5
  <2>8. Drop(w, k) = d
    BY <1>2, <2>5, <2>6, <2>7, SeqEqual
  <2> QED
    BY <2>4, <2>8 DEF d
<1>4. ASSUME k >= m
      PROVE  SubSeq(w, 1, k) = u \o SubSeq(v, 1, k - m) /\ Drop(w, k) = Drop(v, k - m)
  <2>1. k - m \in 0..Len(v)
    BY <1>1, <1>4 DEF n
  <2>2. /\ SubSeq(v, 1, k - m) \in Seq(S) /\ Len(SubSeq(v, 1, k - m)) = k - m
        /\ \A i \in 1..k - m : SubSeq(v, 1, k - m)[i] = v[i]
        /\ Drop(v, k - m) \in Seq(S) /\ Len(Drop(v, k - m)) = n - (k - m)
        /\ \A i \in 1..n - (k - m) : Drop(v, k - m)[i] = v[k - m + i]
    BY <2>1, CutAt DEF n
  <2>3. ASSUME NEW i \in 1..m + n - k PROVE Drop(w, k)[i] = Drop(v, k - m)[i]
    <3>1. /\ i \in 1..n - (k - m) /\ k + i \in 1..m + n
          /\ ~(k + i <= m) /\ k + i - m = k - m + i
      BY <1>1, <1>4
    <3>2. Drop(w, k)[i] = v[k + i - m]
      BY <3>1, <1>1, <1>2
    <3>3. Drop(v, k - m)[i] = v[k - m + i]
      BY <3>1, <2>2
    <3> QED
      BY <3>1, <3>2, <3>3
  <2>4. Len(Drop(w, k)) = Len(Drop(v, k - m)) /\ Len(Drop(w, k)) = m + n - k
    BY <1>1, <1>2, <2>2
  <2>5. Drop(w, k) = Drop(v, k - m)
    BY <1>2, <2>2, <2>3, <2>4, SeqEqual
  <2> DEFINE d == u \o SubSeq(v, 1, k - m)
  <2>6. /\ d \in Seq(S) /\ Len(d) = m + (k - m)
        /\ \A i \in 1..m + (k - m) : d[i] = IF i <= m THEN u[i] ELSE SubSeq(v, 1, k - m)[i - m]
    <3>1. /\ d \in Seq(S) /\ Len(d) = Len(u) + Len(SubSeq(v, 1, k - m))
          /\ \A i \in 1..Len(u) + Len(SubSeq(v, 1, k - m)) :
               d[i] = IF i <= Len(u) THEN u[i] ELSE SubSeq(v, 1, k - m)[i - Len(u)]
      BY <2>2, ConcatProperties
    <3> QED
      BY <3>1, <2>2 DEF m
  <2> HIDE DEF d
  <2>7. ASSUME NEW i \in 1..k PROVE SubSeq(w, 1, k)[i] = d[i]
    <3>1. i \in 1..m + (k - m) /\ i \in 1..m + n /\ (~(i <= m) => i - m \in 1..k - m)
      BY <1>1, <1>4
    <3> QED
      BY <3>1, <2>2, <2>6, <1>1, <1>2
  <2>8. Len(d) = k /\ Len(SubSeq(w, 1, k)) = k
    BY <1>1, <1>2, <2>6
  <2>9. SubSeq(w, 1, k) = d
    BY <1>2, <2>6, <2>7, <2>8, SeqEqual
  <2> QED
    BY <2>5, <2>9 DEF d
<1> QED
  BY <1>3, <1>4 DEF w, m, n

-----------------------------------------------------------------------------
(* What FlattenSeq makes of sequences of numbers.                          *)

Flattens(f, ss, n) == f = [i \in 1..n |-> IF i = 1 THEN ss[i] ELSE f[i - 1] \o ss[i]]

LEMMA FlattensExist ==
  ASSUME NEW ss
  PROVE  \A n \in Nat : \E f : Flattens(f, ss, n)
<1> DEFINE T == {n \in Nat : \E f : Flattens(f, ss, n)}
<1>1. 0 \in T
  <2>1. Flattens([i \in 1..0 |-> 0], ss, 0)
    BY DEF Flattens
  <2> QED
    BY <2>1
<1>2. ASSUME NEW n \in Nat, n \in T PROVE n + 1 \in T
  <2>1. PICK f : Flattens(f, ss, n)
    BY <1>2
  <2> DEFINE g == [i \in 1..n + 1 |-> IF i = n + 1
                                      THEN IF i = 1 THEN ss[i] ELSE f[i - 1] \o ss[i]
                                      ELSE f[i]]
  <2>2. \A i \in 1..n : f[i] = IF i = 1 THEN ss[i] ELSE f[i - 1] \o ss[i]
    BY <2>1, Zenon DEF Flattens
  <2>3. \A i \in 1..n : g[i] = f[i]
    OBVIOUS
  <2>4. ASSUME NEW i \in 1..n + 1
        PROVE  g[i] = IF i = 1 THEN ss[i] ELSE g[i - 1] \o ss[i]
    <3>1. CASE i = 1
      BY <3>1, <2>2
    <3>2. CASE i # 1
      <4>1. i - 1 \in 1..n
        BY <3>2
      <4>2. g[i - 1] = f[i - 1]
        BY <4>1, <2>3
      <4>3. CASE i = n + 1
        BY <3>2, <4>2, <4>3
      <4>4. CASE i # n + 1
        <5>1. i \in 1..n
          BY <4>4
        <5> QED
          BY <5>1, <3>2, <4>2, <2>2, <2>3
      <4> QED
        BY <4>3, <4>4
    <3> QED
      BY <3>1, <3>2
  <2>5. g = [i \in 1..n + 1 |-> g[i]]
    OBVIOUS
  <2> HIDE DEF g
  <2>6. Flattens(g, ss, n + 1)
    BY <2>4, <2>5, Zenon DEF Flattens
  <2> QED
    BY <2>6
<1> HIDE DEF T
<1>3. \A n \in Nat : n \in T
  BY <1>1, <1>2, Induction
<1> QED
  BY <1>3 DEF T

LEMMA FlattensIs ==
  ASSUME NEW ss, NEW n \in Nat, NEW f, Flattens(f, ss, n)
  PROVE  /\ n >= 1 => f[1] = ss[1]
         /\ \A i \in 2..n : f[i] = f[i - 1] \o ss[i]
<1>1. \A i \in 1..n : f[i] = IF i = 1 THEN ss[i] ELSE f[i - 1] \o ss[i]
  BY Zenon DEF Flattens
<1>2. n >= 1 => 1 \in 1..n
  OBVIOUS
<1>3. \A i \in 2..n : i \in 1..n /\ i # 1
  OBVIOUS
<1> QED
  BY <1>1, <1>2, <1>3

LEMMA FlattensTypes ==
  ASSUME NEW S, NEW ss \in Seq(Seq(S)), NEW f, Flattens(f, ss, Len(ss))
  PROVE  \A i \in 1..Len(ss) : f[i] \in Seq(S)
<1> DEFINE T == {n \in Nat : \A i \in 1..Len(ss) : i <= n => f[i] \in Seq(S)}
<1>1. Len(ss) \in Nat /\ \A i \in 1..Len(ss) : ss[i] \in Seq(S)
  BY LenProperties
<1>5. /\ Len(ss) >= 1 => f[1] = ss[1]
      /\ \A i \in 2..Len(ss) : f[i] = f[i - 1] \o ss[i]
  BY <1>1, FlattensIs
<1>2. 0 \in T
  BY <1>1
<1>3. ASSUME NEW n \in Nat, n \in T, NEW i \in 1..Len(ss), i <= n + 1
      PROVE  f[i] \in Seq(S)
  <2>1. CASE i = 1
    BY <2>1, <1>1, <1>5, <1>3
  <2>2. CASE i # 1
    <3>1. i \in 2..Len(ss) /\ i - 1 \in 1..Len(ss) /\ i - 1 <= n
      BY <2>2, <1>1, <1>3
    <3>2. f[i] = f[i - 1] \o ss[i] /\ f[i - 1] \in Seq(S)
      BY <3>1, <1>3, <1>5
    <3> QED
      BY <3>2, <1>1, ConcatProperties
  <2> QED
    BY <2>1, <2>2
<1>4. \A n \in Nat : n \in T
  <2>1. ASSUME NEW n \in Nat, n \in T PROVE n + 1 \in T
    <3>1. ASSUME NEW i \in 1..Len(ss), i <= n + 1 PROVE f[i] \in Seq(S)
      BY <3>1, <2>1, <1>3
    <3> QED
      BY <3>1
  <2> HIDE DEF T
  <2> QED
    BY <1>2, <2>1, Induction
<1>6. ASSUME NEW i \in 1..Len(ss) PROVE f[i] \in Seq(S)
  <2>1. Len(ss) \in T
    <3> HIDE DEF T
    <3> QED
      BY <1>1, <1>4
  <2>2. i <= Len(ss)
    BY <1>1
  <2> QED
    BY <2>1, <2>2
<1> QED
  BY <1>6

LEMMA FlattensSame ==
  ASSUME NEW m \in Nat, NEW n \in Nat, n <= m, NEW ss, NEW tt, NEW f, NEW g,
         Flattens(f, ss, m), Flattens(g, tt, n), \A i \in 1..n : ss[i] = tt[i]
  PROVE  \A i \in 1..n : f[i] = g[i]
<1> DEFINE T == {k \in Nat : \A i \in 1..n : i <= k => f[i] = g[i]}
<1>4. /\ m >= 1 => f[1] = ss[1]
      /\ \A i \in 2..m : f[i] = f[i - 1] \o ss[i]
  <2>1. m \in Nat /\ Flattens(f, ss, m)
    OBVIOUS
  <2> QED
    BY ONLY <2>1, FlattensIs
<1>5. /\ n >= 1 => g[1] = tt[1]
      /\ \A i \in 2..n : g[i] = g[i - 1] \o tt[i]
  BY FlattensIs
<1>1. 0 \in T
  OBVIOUS
<1>2. ASSUME NEW k \in Nat, k \in T, NEW i \in 1..n, i <= k + 1
      PROVE  f[i] = g[i]
  <2>1. CASE i = 1
    BY <2>1, <1>2, <1>4, <1>5
  <2>2. CASE i # 1
    <3>1. i \in 2..n /\ i \in 2..m /\ i - 1 \in 1..n /\ i - 1 <= k
      BY <2>2, <1>2
    <3>2. f[i] = f[i - 1] \o ss[i] /\ g[i] = g[i - 1] \o tt[i] /\ f[i - 1] = g[i - 1]
      BY <3>1, <1>2, <1>4, <1>5
    <3> QED
      BY <3>2
  <2> QED
    BY <2>1, <2>2
<1>3. \A k \in Nat : k \in T
  <2>1. ASSUME NEW k \in Nat, k \in T PROVE k + 1 \in T
    BY <2>1, <1>2
  <2> HIDE DEF T
  <2> QED
    BY <1>1, <2>1, Induction
<1> QED
  BY <1>3

LEMMA FlattenIs ==
  ASSUME NEW S, NEW ss \in Seq(S), Len(ss) # 0
  PROVE  \E f : Flattens(f, ss, Len(ss)) /\ FlattenSeq(ss) = f[Len(ss)]
<1> DEFINE n == Len(ss)
           f == CHOOSE f : f = [i \in 1..n |-> IF i = 1 THEN ss[i] ELSE f[i - 1] \o ss[i]]
<1>1. n \in Nat
  BY LenProperties
<1>2. FlattenSeq(ss) = f[n]
  BY DEF FlattenSeq
<1>3. \E h : h = [i \in 1..n |-> IF i = 1 THEN ss[i] ELSE h[i - 1] \o ss[i]]
  BY <1>1, FlattensExist DEF Flattens
<1>4. f = [i \in 1..n |-> IF i = 1 THEN ss[i] ELSE f[i - 1] \o ss[i]]
  BY <1>3, Zenon
<1> HIDE DEF f
<1>5. Flattens(f, ss, n)
  BY <1>4, Zenon DEF Flattens
<1> QED
  BY <1>2, <1>5

LEMMA FlattenNothing == FlattenSeq(<<>>) = <<>>
BY DEF FlattenSeq

LEMMA FlattenTypes ==
  ASSUME NEW S, NEW ss \in Seq(Seq(S))
  PROVE  FlattenSeq(ss) \in Seq(S)
<1>1. CASE Len(ss) = 0
  <2>1. ss = <<>>
    BY <1>1, EmptySeq
  <2> QED
    BY <2>1, FlattenNothing, EmptySeq
<1>2. CASE Len(ss) # 0
  <2>1. PICK f : Flattens(f, ss, Len(ss)) /\ FlattenSeq(ss) = f[Len(ss)]
    BY <1>2, FlattenIs
  <2>2. Len(ss) \in 1..Len(ss)
    BY <1>2, LenProperties
  <2> QED
    BY <2>1, <2>2, FlattensTypes
<1> QED
  BY <1>1, <1>2

LEMMA FlattenAppend ==
  ASSUME NEW S, NEW ss \in Seq(Seq(S)), NEW s \in Seq(S)
  PROVE  FlattenSeq(Append(ss, s)) = FlattenSeq(ss) \o s
<1> DEFINE tt == Append(ss, s)
           n == Len(ss)
<1>1. /\ tt \in Seq(Seq(S)) /\ Len(tt) = n + 1 /\ n \in Nat
      /\ \A i \in 1..n : tt[i] = ss[i]
      /\ tt[n + 1] = s
  BY AppendProperties, LenProperties
<1> HIDE DEF tt
<1>2. Len(tt) # 0 /\ n + 1 \in Nat
  BY <1>1
<1>3. PICK g : Flattens(g, tt, n + 1) /\ FlattenSeq(tt) = g[n + 1]
  <2> HIDE DEF n
  <2> QED
    BY <1>1, <1>2, FlattenIs
<1>4. CASE n = 0
  <2>1. ss = <<>>
    BY <1>4, EmptySeq
  <2>2. FlattenSeq(ss) = <<>>
    BY <2>1, FlattenNothing
  <2>3. FlattenSeq(tt) = s
    <3>1. n + 1 >= 1 => g[1] = tt[1]
      BY <1>2, <1>3, FlattensIs
    <3> QED
      BY <3>1, <1>1, <1>3, <1>4
  <2> QED
    BY <2>2, <2>3, ConcatEmptySeq DEF tt
<1>5. CASE n # 0
  <2>1. PICK f : Flattens(f, ss, n) /\ FlattenSeq(ss) = f[n]
    BY <1>5, FlattenIs
  <2>2. n + 1 \in 2..n + 1 /\ (n + 1) - 1 = n /\ n \in 1..n /\ n <= n + 1
    BY <1>1, <1>5
  <2>3. g[n + 1] = g[n] \o s
    <3> HIDE DEF n
    <3>1. g[n + 1] = g[(n + 1) - 1] \o tt[n + 1]
      BY <1>2, <1>3, <2>2, FlattensIs
    <3> QED
      BY <3>1, <2>2, <1>1
  <2>4. g[n] = f[n]
    <3> HIDE DEF n
    <3>1. \A i \in 1..n : tt[i] = ss[i]
      BY <1>1
    <3>2. \A i \in 1..n : g[i] = f[i]
      BY <3>1, <2>1, <2>2, <1>1, <1>2, <1>3, FlattensSame
    <3> QED
      BY <3>2, <2>2
  <2> QED
    BY <1>3, <2>1, <2>3, <2>4 DEF tt
<1> QED
  BY <1>4, <1>5

-----------------------------------------------------------------------------
(* Chains and the text they hold.                                          *)

\* A chain holds no more than its memory, and what is empty is free from the
\* start.
Chains ==
  {c \in [cap : Nat, skip : Nat, data : Seq(Int)] :
     c.cap >= 1 /\ c.skip + Len(c.data) <= c.cap /\ (c.data = <<>> => c.skip = 0)}

Text(cs) == FlattenSeq([i \in DOMAIN cs |-> cs[i].data])

LEMMA ChainIs ==
  ASSUME NEW c \in Chains
  PROVE  /\ c \in [cap : Nat, skip : Nat, data : Seq(Int)]
         /\ c.cap \in Nat /\ c.skip \in Nat /\ c.data \in Seq(Int) /\ Len(c.data) \in Nat
         /\ c.cap >= 1 /\ c.skip + Len(c.data) <= c.cap /\ (c.data = <<>> => c.skip = 0)
BY LenProperties DEF Chains

LEMMA DataIs ==
  ASSUME NEW cs \in Seq(Chains)
  PROVE  /\ [i \in DOMAIN cs |-> cs[i].data] \in Seq(Seq(Int))
         /\ [i \in DOMAIN cs |-> cs[i].data] = [i \in 1..Len(cs) |-> cs[i].data]
         /\ Len([i \in DOMAIN cs |-> cs[i].data]) = Len(cs)
<1>1. DOMAIN cs = 1..Len(cs) /\ Len(cs) \in Nat /\ \A i \in 1..Len(cs) : cs[i] \in Chains
  BY LenProperties
<1>2. \A i \in 1..Len(cs) : cs[i].data \in Seq(Int)
  BY <1>1, ChainIs
<1> QED
  BY <1>1, <1>2

LEMMA TextTypes ==
  ASSUME NEW cs \in Seq(Chains)
  PROVE  Text(cs) \in Seq(Int) /\ Len(Text(cs)) \in Nat
<1>1. Text(cs) \in Seq(Int)
  BY DataIs, FlattenTypes DEF Text
<1> QED
  BY <1>1, LenProperties

LEMMA TextNothing == Text(<<>>) = <<>>
<1>1. [i \in DOMAIN <<>> |-> <<>>[i].data] = <<>>
  OBVIOUS
<1> QED
  BY <1>1, FlattenNothing DEF Text

\* It is the data that counts.
LEMMA TextSame ==
  ASSUME NEW cs \in Seq(Chains), NEW ds \in Seq(Chains), Len(cs) = Len(ds),
         \A i \in 1..Len(cs) : cs[i].data = ds[i].data
  PROVE  Text(cs) = Text(ds)
<1>1. [i \in DOMAIN cs |-> cs[i].data] = [i \in DOMAIN ds |-> ds[i].data]
  BY LenProperties
<1> QED
  BY <1>1 DEF Text

LEMMA TextAppend ==
  ASSUME NEW cs \in Seq(Chains), NEW c \in Chains
  PROVE  Text(Append(cs, c)) = Text(cs) \o c.data
<1> DEFINE ds == Append(cs, c)
           ss == [i \in DOMAIN cs |-> cs[i].data]
           tt == [i \in DOMAIN ds |-> ds[i].data]
           n == Len(cs)
<1>1. /\ ds \in Seq(Chains) /\ Len(ds) = n + 1 /\ n \in Nat
      /\ \A i \in 1..n : ds[i] = cs[i]
      /\ ds[n + 1] = c
  BY AppendProperties, LenProperties
<1>2. /\ ss \in Seq(Seq(Int)) /\ ss = [i \in 1..n |-> cs[i].data] /\ Len(ss) = n
  BY DataIs
<1>3. c.data \in Seq(Int)
  BY ChainIs
<1>4. tt \in Seq(Seq(Int)) /\ tt = [i \in 1..n + 1 |-> ds[i].data] /\ Len(tt) = n + 1
  <2> HIDE DEF ds
  <2> QED
    BY <1>1, DataIs
<1>5. /\ Append(ss, c.data) \in Seq(Seq(Int)) /\ Len(Append(ss, c.data)) = n + 1
      /\ \A i \in 1..n : Append(ss, c.data)[i] = ss[i]
      /\ Append(ss, c.data)[n + 1] = c.data
  <2> HIDE DEF ss
  <2> QED
    BY <1>2, <1>3, AppendProperties
<1>6. ASSUME NEW i \in 1..n + 1 PROVE tt[i] = Append(ss, c.data)[i]
  <2>1. CASE i = n + 1
    BY <2>1, <1>1, <1>4, <1>5
  <2>2. CASE i # n + 1
    <3>1. i \in 1..n
      BY <2>2, <1>1
    <3>2. tt[i] = ds[i].data /\ ss[i] = cs[i].data
      BY <3>1, <1>2, <1>4
    <3> QED
      BY <3>1, <3>2, <1>1, <1>5
  <2> QED
    BY <2>1, <2>2
<1>7. tt = Append(ss, c.data)
  <2> HIDE DEF tt, ss
  <2> QED
    BY <1>4, <1>5, <1>6, SeqEqual
<1>8. FlattenSeq(Append(ss, c.data)) = FlattenSeq(ss) \o c.data
  <2> HIDE DEF ss
  <2> QED
    BY <1>2, <1>3, FlattenAppend
<1> QED
  BY <1>7, <1>8 DEF Text

LEMMA TextOne ==
  ASSUME NEW c \in Chains
  PROVE  <<c>> \in Seq(Chains) /\ Len(<<c>>) = 1 /\ Text(<<c>>) = c.data
<1>1. <<c>> = Append(<<>>, c) /\ <<>> \in Seq(Chains)
  BY EmptySeq
<1>2. c.data \in Seq(Int)
  BY ChainIs
<1>3. Text(Append(<<>>, c)) = Text(<<>>) \o c.data
  BY <1>1, TextAppend
<1>4. Text(<<c>>) = c.data
  BY <1>1, <1>2, <1>3, TextNothing, ConcatEmptySeq
<1>5. <<c>> \in Seq(Chains) /\ Len(<<c>>) = 1
  OBVIOUS
<1> QED
  BY <1>4, <1>5

LEMMA Associates ==
  ASSUME NEW s \in Seq(Int), NEW t \in Seq(Int), NEW u \in Seq(Int)
  PROVE  (s \o t) \o u = s \o (t \o u)
BY ConcatAssociative

\* Three strings are joined either way round.
Regroups(s, t, u) == (s \o t) \o u = s \o (t \o u)

LEMMA Regrouped ==
  ASSUME NEW s \in Seq(Int), NEW t \in Seq(Int), NEW u \in Seq(Int)
  PROVE  Regroups(s, t, u)
BY Associates DEF Regroups

LEMMA TextJoin ==
  ASSUME NEW cs \in Seq(Chains), NEW ds \in Seq(Chains)
  PROVE  Text(cs \o ds) = Text(cs) \o Text(ds)
<1> DEFINE T == {n \in Nat : \A es \in Seq(Chains) :
                   Len(es) = n => Text(cs \o es) = Text(cs) \o Text(es)}
<1>1. Text(cs) \in Seq(Int)
  BY TextTypes
<1>2. 0 \in T
  <2>1. ASSUME NEW es \in Seq(Chains), Len(es) = 0
        PROVE  Text(cs \o es) = Text(cs) \o Text(es)
    <3>1. es = <<>>
      BY <2>1, EmptySeq
    <3> QED
      BY <3>1, <1>1, TextNothing, ConcatEmptySeq
  <2> QED
    BY <2>1
<1>3. ASSUME NEW n \in Nat, n \in T, NEW es \in Seq(Chains), Len(es) = n + 1
      PROVE  Text(cs \o es) = Text(cs) \o Text(es)
  <2>1. es # <<>>
    BY <1>3, EmptySeq
  <2>2. PICK fs \in Seq(Chains), c \in Chains : es = Append(fs, c)
    BY <2>1, SequenceEmptyOrAppend
  <2>3. Len(fs) = n
    <3>1. Len(es) = Len(fs) + 1 /\ Len(fs) \in Nat
      BY <2>2, AppendProperties, LenProperties
    <3> QED
      BY <3>1, <1>3
  <2>4. Text(cs \o fs) = Text(cs) \o Text(fs)
    BY <2>3, <1>3
  <2>5. cs \o es = Append(cs \o fs, c)
    <3>1. es = fs \o <<c>> /\ <<c>> \in Seq(Chains)
      BY <2>2, AppendIsConcat, TextOne
    <3>2. Append(cs \o fs, c) = (cs \o fs) \o <<c>>
      BY ConcatProperties, AppendIsConcat
    <3> QED
      BY <3>1, <3>2, ConcatAssociative
  <2>6. Text(cs \o es) = Text(cs \o fs) \o c.data
    BY <2>5, ConcatProperties, TextAppend
  <2>7. Text(es) = Text(fs) \o c.data
    BY <2>2, TextAppend
  <2>8. Text(fs) \in Seq(Int) /\ c.data \in Seq(Int)
    BY TextTypes, ChainIs
  <2>9. (Text(cs) \o Text(fs)) \o c.data = Text(cs) \o (Text(fs) \o c.data)
    <3> DEFINE t == Text(cs)
               u == Text(fs)
               v == c.data
    <3>1. t \in Seq(Int) /\ u \in Seq(Int) /\ v \in Seq(Int)
      BY <2>8, <1>1
    <3> HIDE DEF t, u, v
    <3>2. (t \o u) \o v = t \o (u \o v)
      BY <3>1, Associates
    <3> QED
      BY <3>2 DEF t, u, v
  <2> QED
    BY <2>4, <2>6, <2>7, <2>9, Zenon
<1>4. \A n \in Nat : n \in T
  <2>1. ASSUME NEW n \in Nat, n \in T PROVE n + 1 \in T
    <3>1. \A es \in Seq(Chains) : Len(es) = n + 1 => Text(cs \o es) = Text(cs) \o Text(es)
      BY <2>1, <1>3
    <3> QED
      BY <3>1
  <2> HIDE DEF T
  <2> QED
    BY <1>2, <2>1, Induction
<1>5. Len(ds) \in T
  <2> HIDE DEF T
  <2> QED
    BY <1>4, LenProperties
<1> QED
  BY <1>5

LEMMA TextNone ==
  ASSUME NEW cs \in Seq(Chains), \A i \in 1..Len(cs) : cs[i].data = <<>>
  PROVE  Text(cs) = <<>>
<1> DEFINE T == {n \in Nat : \A es \in Seq(Chains) :
                   Len(es) = n /\ (\A i \in 1..n : es[i].data = <<>>) => Text(es) = <<>>}
<1>1. 0 \in T
  <2>1. ASSUME NEW es \in Seq(Chains), Len(es) = 0 PROVE Text(es) = <<>>
    <3>1. es = <<>>
      BY <2>1, EmptySeq
    <3> QED
      BY <3>1, TextNothing
  <2> QED
    BY <2>1
<1>2. ASSUME NEW n \in Nat, n \in T, NEW es \in Seq(Chains), Len(es) = n + 1,
             \A i \in 1..n + 1 : es[i].data = <<>>
      PROVE  Text(es) = <<>>
  <2>1. es # <<>>
    BY <1>2, EmptySeq
  <2>2. PICK fs \in Seq(Chains), c \in Chains : es = Append(fs, c)
    BY <2>1, SequenceEmptyOrAppend
  <2>3. /\ Len(es) = Len(fs) + 1 /\ Len(fs) \in Nat /\ es[Len(fs) + 1] = c
        /\ \A i \in 1..Len(fs) : es[i] = fs[i]
    BY <2>2, AppendProperties, LenProperties
  <2>4. Len(fs) = n
    BY <2>3, <1>2
  <2>5. c.data = <<>> /\ \A i \in 1..n : fs[i].data = <<>>
    BY <2>3, <2>4, <1>2
  <2>6. Text(fs) = <<>>
    BY <2>4, <2>5, <1>2
  <2>7. Text(es) = Text(fs) \o c.data
    BY <2>2, TextAppend
  <2> QED
    BY <2>5, <2>6, <2>7, ConcatEmptySeq, EmptySeq
<1>3. \A n \in Nat : n \in T
  <2>1. ASSUME NEW n \in Nat, n \in T PROVE n + 1 \in T
    <3>1. \A es \in Seq(Chains) :
            Len(es) = n + 1 /\ (\A i \in 1..n + 1 : es[i].data = <<>>) => Text(es) = <<>>
      BY <2>1, <1>2
    <3> QED
      BY <3>1
  <2> HIDE DEF T
  <2> QED
    BY <1>1, <2>1, Induction
<1>4. Len(cs) \in T
  <2> HIDE DEF T
  <2> QED
    BY <1>3, LenProperties
<1> QED
  BY <1>4

-----------------------------------------------------------------------------
(* Sums.                                                                   *)

LEMMA TotalSteps ==
  ASSUME NEW ns \in Seq(Int)
  PROVE  \E p \in [0..Len(ns) -> Int] :
           /\ p[0] = 0 /\ Total(ns) = p[Len(ns)]
           /\ \A k \in 1..Len(ns) : p[k] = p[k - 1] + ns[k]
<1> DEFINE n == Len(ns)
           H == [k \in 1..n |-> [u \in Int |-> u + ns[k]]]
           g == CHOOSE f : f = [t \in SUBSET (1..n) |->
                                  IF t = {} THEN 0 ELSE f[t \ {Max(t)}] + ns[Max(t)]]
<1>1. n \in Nat /\ DOMAIN ns = 1..n /\ \A k \in 1..n : ns[k] \in Int
  BY LenProperties
<1>2. Total(ns) = g[1..n]
  BY <1>1 DEF Total, FoldLeft, MapThenFoldSet
<1>3. H \in [1..n -> [Int -> Int]]
  BY <1>1
<1>4. PICK f \in [SUBSET (1..n) -> Int] : IsFold(f, n, 0, H)
  <2> HIDE DEF H
  <2> QED
    BY <1>1, <1>3, FoldExists, 0 \in Int
<1>5. ASSUME NEW t \in SUBSET (1..n)
      PROVE  f[t] = IF t = {} THEN 0 ELSE f[t \ {Max(t)}] + ns[Max(t)]
  <2>1. f[t] = IF t = {} THEN 0 ELSE H[Max(t)][f[t \ {Max(t)}]]
    BY <1>4 DEF IsFold
  <2>2. CASE t # {}
    <3>1. Max(t) \in 1..n
      BY <2>2, <1>1, Greatest
    <3>2. f[t \ {Max(t)}] \in Int
      OBVIOUS
    <3> QED
      BY <2>1, <2>2, <3>1, <3>2
  <2> QED
    BY <2>1, <2>2
<1>6. f = [t \in SUBSET (1..n) |-> IF t = {} THEN 0 ELSE f[t \ {Max(t)}] + ns[Max(t)]]
  BY <1>5
<1>7. g = [t \in SUBSET (1..n) |-> IF t = {} THEN 0 ELSE g[t \ {Max(t)}] + ns[Max(t)]]
  BY <1>6, Zenon
<1> HIDE DEF g
<1>8. ASSUME NEW t \in SUBSET (1..n)
      PROVE  g[t] = IF t = {} THEN 0 ELSE g[t \ {Max(t)}] + ns[Max(t)]
  BY <1>7, Zenon
<1> DEFINE p == [k \in 0..n |-> g[1..k]]
<1>9. ASSUME NEW k \in 1..n PROVE p[k] = p[k - 1] + ns[k]
  <2>1. /\ 1..k \in SUBSET (1..n) /\ 1..k # {} /\ Max(1..k) = k
        /\ (1..k) \ {Max(1..k)} = 1..(k - 1)
    BY <1>1, Prefix
  <2>2. g[1..k] = g[1..(k - 1)] + ns[k]
    BY <2>1, <1>8
  <2>3. k \in 0..n /\ k - 1 \in 0..n
    BY <1>1
  <2> QED
    BY <2>2, <2>3
<1>10. p[0] = 0
  <2>1. g[{}] = 0
    BY <1>8
  <2>2. 1..0 = {}
    OBVIOUS
  <2> QED
    BY <2>1, <2>2, <1>1
<1>11. p[n] = Total(ns)
  BY <1>1, <1>2
<1>12. p \in [0..n -> Int]
  <2> DEFINE T == {k \in Nat : k <= n => p[k] \in Int}
  <2>1. p = [k \in 0..n |-> p[k]]
    OBVIOUS
  <2> HIDE DEF p
  <2>2. 0 \in T
    BY <1>10
  <2>3. ASSUME NEW k \in Nat, k \in T PROVE k + 1 \in T
    <3>1. ASSUME k + 1 <= n PROVE p[k + 1] \in Int
      <4>1. k + 1 \in 1..n /\ (k + 1) - 1 = k /\ k <= n
        BY <3>1, <1>1
      <4>2. p[k + 1] = p[k] + ns[k + 1] /\ p[k] \in Int /\ ns[k + 1] \in Int
        BY <4>1, <1>1, <1>9, <2>3
      <4> QED
        BY <4>2
    <3> QED
      BY <3>1
  <2>4. \A k \in Nat : k \in T
    <3> HIDE DEF T
    <3> QED
      BY <2>2, <2>3, Induction
  <2>5. \A k \in 0..n : p[k] \in Int
    BY <2>4, <1>1
  <2> QED
    BY <2>1, <2>5
<1> HIDE DEF p
<1> QED
  BY <1>9, <1>10, <1>11, <1>12

LEMMA TotalTypes ==
  ASSUME NEW ns \in Seq(Int)
  PROVE  Total(ns) \in Int
BY TotalSteps, LenProperties

\* A sum is taken one after the other.
LEMMA TotalMore ==
  ASSUME NEW n \in Nat, NEW f \in [1..n + 1 -> Int]
  PROVE  Total(f) = Total([i \in 1..n |-> f[i]]) + f[n + 1]
<1> DEFINE g == [i \in 1..n |-> f[i]]
<1>1. f \in Seq(Int) /\ Len(f) = n + 1 /\ g \in Seq(Int) /\ Len(g) = n
  OBVIOUS
<1> HIDE DEF g
<1>2. PICK p \in [0..n + 1 -> Int] :
           /\ p[0] = 0 /\ Total(f) = p[n + 1]
           /\ \A k \in 1..n + 1 : p[k] = p[k - 1] + f[k]
  <2>1. \E p \in [0..Len(f) -> Int] :
           /\ p[0] = 0 /\ Total(f) = p[Len(f)]
           /\ \A k \in 1..Len(f) : p[k] = p[k - 1] + f[k]
    BY <1>1, TotalSteps
  <2> QED
    BY <2>1, <1>1
<1>3. PICK q \in [0..n -> Int] :
           /\ q[0] = 0 /\ Total(g) = q[n]
           /\ \A k \in 1..n : q[k] = q[k - 1] + g[k]
  BY <1>1, TotalSteps
<1> DEFINE T == {k \in Nat : k <= n => p[k] = q[k]}
<1>4. 0 \in T
  BY <1>2, <1>3
<1>5. ASSUME NEW k \in Nat, k \in T PROVE k + 1 \in T
  <2>1. ASSUME k + 1 <= n PROVE p[k + 1] = q[k + 1]
    <3>1. k + 1 \in 1..n /\ k + 1 \in 1..n + 1 /\ (k + 1) - 1 = k /\ k <= n
      BY <2>1
    <3>2. p[k + 1] = p[k] + f[k + 1] /\ q[k + 1] = q[k] + g[k + 1]
      BY <3>1, <1>2, <1>3
    <3> QED
      BY <3>1, <3>2, <1>5 DEF g
  <2> QED
    BY <2>1
<1>6. n \in T
  <2> HIDE DEF T
  <2> QED
    BY <1>4, <1>5, Induction
<1>7. p[n + 1] = p[n] + f[n + 1]
  <2>1. n + 1 \in 1..n + 1 /\ (n + 1) - 1 = n
    OBVIOUS
  <2> QED
    BY <2>1, <1>2
<1> QED
  BY <1>2, <1>3, <1>6, <1>7 DEF g

LEMMA TotalNothing ==
  ASSUME NEW f \in [1..0 -> Int]
  PROVE  Total(f) = 0
<1>1. f \in Seq(Int) /\ Len(f) = 0
  OBVIOUS
<1> QED
  BY <1>1, TotalSteps

\* The length of a list of chains is that of its text.
LEMMA LengthIs ==
  ASSUME NEW cs \in Seq(Chains)
  PROVE  LengthOf(cs) = Len(Text(cs))
<1> DEFINE L(es) == [i \in DOMAIN es |-> Off(es[i])]
           T == {n \in Nat : \A es \in Seq(Chains) : Len(es) = n => Total(L(es)) = Len(Text(es))}
<1>1. ASSUME NEW es \in Seq(Chains)
      PROVE  L(es) \in [1..Len(es) -> Int] /\ L(es) = [i \in 1..Len(es) |-> Len(es[i].data)]
  <2>1. DOMAIN es = 1..Len(es) /\ Len(es) \in Nat /\ \A i \in 1..Len(es) : es[i] \in Chains
    BY LenProperties
  <2>2. \A i \in 1..Len(es) : Len(es[i].data) \in Int
    BY <2>1, ChainIs
  <2> QED
    BY <2>1, <2>2 DEF Off
<1> HIDE DEF L
<1>2. 0 \in T
  <2>1. ASSUME NEW es \in Seq(Chains), Len(es) = 0 PROVE Total(L(es)) = Len(Text(es))
    <3>1. es = <<>>
      BY <2>1, EmptySeq
    <3>2. Text(es) = <<>> /\ L(es) \in [1..0 -> Int]
      BY <3>1, <2>1, <1>1, TextNothing
    <3>3. Total(L(es)) = 0
      BY <3>2, TotalNothing
    <3> QED
      BY <3>2, <3>3
  <2> QED
    BY <2>1
<1>3. ASSUME NEW n \in Nat, n \in T, NEW es \in Seq(Chains), Len(es) = n + 1
      PROVE  Total(L(es)) = Len(Text(es))
  <2>1. es # <<>>
    BY <1>3, EmptySeq
  <2>2. PICK fs \in Seq(Chains), c \in Chains : es = Append(fs, c)
    BY <2>1, SequenceEmptyOrAppend
  <2>3. /\ Len(es) = Len(fs) + 1 /\ Len(fs) \in Nat /\ es[Len(fs) + 1] = c
        /\ \A i \in 1..Len(fs) : es[i] = fs[i]
    BY <2>2, AppendProperties, LenProperties
  <2>4. Len(fs) = n
    BY <2>3, <1>3
  <2>5. Total(L(fs)) = Len(Text(fs))
    BY <2>4, <1>3
  <2>6. Text(es) = Text(fs) \o c.data
    BY <2>2, TextAppend
  <2>7. Len(Text(es)) = Len(Text(fs)) + Len(c.data)
    BY <2>6, TextTypes, ChainIs, ConcatProperties
  <2>8. L(es) \in [1..n + 1 -> Int] /\ L(es) = [i \in 1..n + 1 |-> Len(es[i].data)]
    BY <1>1, <1>3
  <2>9. L(fs) = [i \in 1..n |-> Len(fs[i].data)]
    BY <1>1, <2>4
  <2>10. L(es)[n + 1] = Len(c.data)
    BY <2>3, <2>4, <2>8
  <2>11. [i \in 1..n |-> L(es)[i]] = L(fs)
    BY <2>3, <2>4, <2>8, <2>9
  <2>12. Total(L(es)) = Total([i \in 1..n |-> L(es)[i]]) + L(es)[n + 1]
    BY <2>8, TotalMore
  <2> QED
    BY <2>5, <2>7, <2>10, <2>11, <2>12
<1>4. \A n \in Nat : n \in T
  <2>1. ASSUME NEW n \in Nat, n \in T PROVE n + 1 \in T
    <3>1. \A es \in Seq(Chains) : Len(es) = n + 1 => Total(L(es)) = Len(Text(es))
      BY <2>1, <1>3
    <3> QED
      BY <3>1
  <2> HIDE DEF T
  <2> QED
    BY <1>2, <2>1, Induction
<1>5. Len(cs) \in T
  <2> HIDE DEF T
  <2> QED
    BY <1>4, LenProperties
<1> QED
  BY <1>5 DEF LengthOf, L

-----------------------------------------------------------------------------
(* A chain in its list.                                                    *)

LEMMA TextAt ==
  ASSUME NEW cs \in Seq(Chains), NEW i \in 1..Len(cs)
  PROVE  /\ SubSeq(cs, 1, i - 1) \in Seq(Chains) /\ Drop(cs, i) \in Seq(Chains)
         /\ Text(SubSeq(cs, 1, i)) = Text(SubSeq(cs, 1, i - 1)) \o cs[i].data
         /\ Text(cs) = (Text(SubSeq(cs, 1, i - 1)) \o cs[i].data) \o Text(Drop(cs, i))
         /\ Text(cs) = Text(SubSeq(cs, 1, i)) \o Text(Drop(cs, i))
<1>1. Len(cs) \in Nat /\ i \in 0..Len(cs) /\ i - 1 \in 0..Len(cs) /\ cs[i] \in Chains
  BY LenProperties
<1>2. /\ SubSeq(cs, 1, i) \in Seq(Chains) /\ Drop(cs, i) \in Seq(Chains)
      /\ SubSeq(cs, 1, i) \o Drop(cs, i) = cs
  BY <1>1, CutAt
<1>3. SubSeq(cs, 1, i - 1) \in Seq(Chains)
  BY <1>1, CutAt
<1>4. SubSeq(cs, 1, i) = Append(SubSeq(cs, 1, i - 1), cs[i])
  <2>1. 1 \in 1..Len(cs) /\ i \in 1..Len(cs)
    BY <1>1
  <2>2. SubSeq(cs, 1, i) = SubSeq(cs, 1, i - 1) \o <<cs[i]>>
    BY <2>1, SubSeqRecursiveSecond
  <2> QED
    BY <2>2, <1>1, <1>3, AppendIsConcat
<1>5. Text(SubSeq(cs, 1, i)) = Text(SubSeq(cs, 1, i - 1)) \o cs[i].data
  BY <1>1, <1>3, <1>4, TextAppend
<1>6. Text(SubSeq(cs, 1, i) \o Drop(cs, i)) = Text(SubSeq(cs, 1, i)) \o Text(Drop(cs, i))
  BY <1>2, TextJoin
<1> QED
  BY <1>2, <1>3, <1>5, <1>6

\* Another chain takes the place of one.
LEMMA TextPut ==
  ASSUME NEW cs \in Seq(Chains), NEW i \in 1..Len(cs), NEW c \in Chains
  PROVE  /\ [cs EXCEPT ![i] = c] \in Seq(Chains)
         /\ Len([cs EXCEPT ![i] = c]) = Len(cs)
         /\ \A j \in 1..Len(cs) : [cs EXCEPT ![i] = c][j] = IF j = i THEN c ELSE cs[j]
         /\ Text([cs EXCEPT ![i] = c])
              = (Text(SubSeq(cs, 1, i - 1)) \o c.data) \o Text(Drop(cs, i))
<1> DEFINE ds == [cs EXCEPT ![i] = c]
<1>1. /\ ds \in Seq(Chains) /\ Len(ds) = Len(cs)
      /\ \A j \in 1..Len(cs) : ds[j] = IF j = i THEN c ELSE cs[j]
  BY ExceptSeq
<1>2. Len(cs) \in Nat /\ i \in 0..Len(cs) /\ i - 1 \in 0..Len(cs) /\ i \in 1..Len(cs)
  BY LenProperties
<1> HIDE DEF ds
<1>3. Text(ds) = (Text(SubSeq(ds, 1, i - 1)) \o ds[i].data) \o Text(Drop(ds, i))
  BY <1>1, <1>2, TextAt
<1>4. /\ SubSeq(cs, 1, i - 1) \in Seq(Chains) /\ Len(SubSeq(cs, 1, i - 1)) = i - 1
      /\ \A j \in 1..i - 1 : SubSeq(cs, 1, i - 1)[j] = cs[j]
  BY <1>2, CutAt
<1>5. /\ SubSeq(ds, 1, i - 1) \in Seq(Chains) /\ Len(SubSeq(ds, 1, i - 1)) = i - 1
      /\ \A j \in 1..i - 1 : SubSeq(ds, 1, i - 1)[j] = ds[j]
  BY <1>1, <1>2, CutAt
<1>6. /\ Drop(cs, i) \in Seq(Chains) /\ Len(Drop(cs, i)) = Len(cs) - i
      /\ \A j \in 1..Len(cs) - i : Drop(cs, i)[j] = cs[i + j]
  BY <1>2, CutAt
<1>7. /\ Drop(ds, i) \in Seq(Chains) /\ Len(Drop(ds, i)) = Len(ds) - i
      /\ \A j \in 1..Len(ds) - i : Drop(ds, i)[j] = ds[i + j]
  BY <1>1, <1>2, CutAt
<1>8. SubSeq(ds, 1, i - 1) = SubSeq(cs, 1, i - 1)
  <2>1. \A j \in 1..i - 1 : j \in 1..Len(cs) /\ j # i
    BY <1>2
  <2>2. \A j \in 1..i - 1 : SubSeq(ds, 1, i - 1)[j] = SubSeq(cs, 1, i - 1)[j]
    BY <2>1, <1>1, <1>4, <1>5
  <2> QED
    BY <2>2, <1>4, <1>5, SeqEqual
<1>9. Drop(ds, i) = Drop(cs, i)
  <2>1. \A j \in 1..Len(cs) - i : i + j \in 1..Len(cs) /\ i + j # i
    BY <1>2
  <2>2. \A j \in 1..Len(cs) - i : Drop(ds, i)[j] = Drop(cs, i)[j]
    BY <2>1, <1>1, <1>6, <1>7
  <2> QED
    BY <2>2, <1>1, <1>6, <1>7, SeqEqual
<1>10. ds[i] = c
  BY <1>1, <1>2
<1> QED
  BY <1>1, <1>3, <1>8, <1>9, <1>10 DEF ds

-----------------------------------------------------------------------------
(* The chains with data are the first k of the list.                       *)

Upto(cs, k) ==
  /\ k \in 0..Len(cs)
  /\ \A i \in 1..Len(cs) : cs[i].data # <<>> <=> i <= k

\* last_with_datap.
Mark(k) == IF k = 0 THEN 1 ELSE k

LEMMA TextUpto ==
  ASSUME NEW cs \in Seq(Chains), NEW k, Upto(cs, k), NEW j \in k..Len(cs)
  PROVE  /\ SubSeq(cs, 1, j) \in Seq(Chains) /\ Len(SubSeq(cs, 1, j)) = j
         /\ Upto(SubSeq(cs, 1, j), k)
         /\ Text(Drop(cs, j)) = <<>> /\ Text(SubSeq(cs, 1, j)) = Text(cs)
<1>1. Len(cs) \in Nat /\ k \in 0..Len(cs) /\ j \in 0..Len(cs) /\ k <= j
  BY LenProperties DEF Upto
<1>2. /\ SubSeq(cs, 1, j) \in Seq(Chains) /\ Len(SubSeq(cs, 1, j)) = j
      /\ \A i \in 1..j : SubSeq(cs, 1, j)[i] = cs[i]
      /\ Drop(cs, j) \in Seq(Chains) /\ Len(Drop(cs, j)) = Len(cs) - j
      /\ \A i \in 1..Len(cs) - j : Drop(cs, j)[i] = cs[j + i]
      /\ SubSeq(cs, 1, j) \o Drop(cs, j) = cs
  BY <1>1, CutAt
<1>3. \A i \in 1..Len(cs) - j : j + i \in 1..Len(cs) /\ ~(j + i <= k)
  BY <1>1
<1>4. \A i \in 1..Len(Drop(cs, j)) : Drop(cs, j)[i].data = <<>>
  BY <1>2, <1>3 DEF Upto
<1>5. Text(Drop(cs, j)) = <<>>
  BY <1>2, <1>4, TextNone
<1>6. Text(cs) = Text(SubSeq(cs, 1, j)) \o Text(Drop(cs, j))
  BY <1>2, TextJoin
<1>7. Text(SubSeq(cs, 1, j)) = Text(cs)
  BY <1>2, <1>5, <1>6, TextTypes, ConcatEmptySeq
<1>8. Upto(SubSeq(cs, 1, j), k)
  <2>1. k \in 0..Len(SubSeq(cs, 1, j)) /\ \A i \in 1..j : i \in 1..Len(cs)
    BY <1>1, <1>2
  <2> QED
    BY <2>1, <1>2 DEF Upto
<1> QED
  BY <1>2, <1>5, <1>7, <1>8

LEMMA TextMore ==
  ASSUME NEW cs \in Seq(Chains), NEW i \in 1..Len(cs)
  PROVE  Len(cs[i].data) <= Len(Text(cs))
<1>1. cs[i] \in Chains /\ SubSeq(cs, 1, i - 1) \in Seq(Chains) /\ Drop(cs, i) \in Seq(Chains)
  BY TextAt, LenProperties
<1>2. Text(cs) = (Text(SubSeq(cs, 1, i - 1)) \o cs[i].data) \o Text(Drop(cs, i))
  BY TextAt
<1> DEFINE t == Text(SubSeq(cs, 1, i - 1))
           u == cs[i].data
           v == Text(Drop(cs, i))
<1>3. t \in Seq(Int) /\ u \in Seq(Int) /\ v \in Seq(Int)
  BY <1>1, TextTypes, ChainIs
<1>4. Len((t \o u) \o v) = Len(t) + Len(u) + Len(v)
  <2> HIDE DEF t, u, v
  <2> QED
    BY <1>3, ConcatProperties
<1>5. Len(t) \in Nat /\ Len(u) \in Nat /\ Len(v) \in Nat
  <2> HIDE DEF t, u, v
  <2> QED
    BY <1>3, LenProperties
<1>6. Text(cs) = (t \o u) \o v
  BY <1>2
<1>7. Len(u) <= Len(Text(cs))
  <2> HIDE DEF t, u, v
  <2>1. Len(Text(cs)) = Len(t) + Len(u) + Len(v)
    BY <1>4, <1>6
  <2> QED
    BY <2>1, <1>5
<1> QED
  BY <1>7

LEMMA UptoNone ==
  ASSUME NEW cs \in Seq(Chains), NEW k, Upto(cs, k)
  PROVE  Len(Text(cs)) = 0 <=> k = 0
<1>1. Len(cs) \in Nat /\ k \in 0..Len(cs)
  BY LenProperties DEF Upto
<1>2. CASE k = 0
  <2>1. Text(cs) = <<>>
    BY <1>1, <1>2, TextNone DEF Upto
  <2> QED
    BY <2>1, <1>2
<1>3. CASE k # 0
  <2>1. k \in 1..Len(cs) /\ cs[k].data # <<>> /\ cs[k] \in Chains
    BY <1>1, <1>3, LenProperties DEF Upto
  <2>2. Len(cs[k].data) <= Len(Text(cs))
    BY <2>1, TextMore
  <2>3. Len(cs[k].data) # 0 /\ Len(cs[k].data) \in Nat
    BY <2>1, ChainIs, EmptySeq
  <2>4. Len(Text(cs)) \in Nat
    BY TextTypes
  <2> QED
    BY <2>2, <2>3, <2>4, <1>3
<1> QED
  BY <1>2, <1>3

-----------------------------------------------------------------------------
(* A buffer that holds s, and one whose callback knows of it.              *)

Buffer ==
  [chains : Seq(Chains), with : Int, total : Int, added : Int, deleted : Int, told : Int]

Sound(b, s) ==
  /\ b \in Buffer
  /\ \E k : Upto(b.chains, k) /\ b.with = Mark(k)
  /\ s \in Seq(Int) /\ Text(b.chains) = s /\ b.total = Len(s)
  /\ b.told + b.added - b.deleted = b.total

Settled(b, s) == Sound(b, s) /\ b.added = 0 /\ b.deleted = 0

LEMMA Invoked ==
  ASSUME NEW b, NEW s, Sound(b, s)
  PROVE  Settled(Invoke(b), s)
<1>1. /\ b.added \in Int /\ b.deleted \in Int /\ b.told \in Int /\ b.total \in Int
      /\ b \in Buffer /\ b.told + b.added - b.deleted = b.total
  BY DEF Sound, Buffer
<1> DEFINE t == b.told + b.added - b.deleted
           r == [b EXCEPT !.told = t, !.added = 0, !.deleted = 0]
<1>2. Invoke(b) = r
  BY DEF Invoke
<1>3. t \in Int /\ 0 \in Int
  BY <1>1
<1> HIDE DEF t
<1>4. r \in Buffer
  BY <1>1, <1>3 DEF Buffer
<1>5. /\ r.chains = b.chains /\ r.with = b.with /\ r.total = b.total
      /\ r.told = t /\ r.added = 0 /\ r.deleted = 0
  BY <1>1 DEF Buffer
<1> HIDE DEF r
<1>6. r.told + r.added - r.deleted = r.total
  BY <1>1, <1>5 DEF t
<1> QED
  BY <1>2, <1>4, <1>5, <1>6 DEF Settled, Sound

LEMMA SoundIs ==
  ASSUME NEW b, NEW s, Sound(b, s)
  PROVE  /\ b \in Buffer /\ b.chains \in Seq(Chains) /\ Len(b.chains) \in Nat
         /\ b.with \in Int /\ b.total \in Int
         /\ b.added \in Int /\ b.deleted \in Int /\ b.told \in Int
         /\ s \in Seq(Int) /\ Len(s) \in Nat /\ Text(b.chains) = s /\ b.total = Len(s)
         /\ b.told + b.added - b.deleted = b.total
         /\ \A i \in 1..Len(b.chains) : b.chains[i] \in Chains
         /\ \E k : Upto(b.chains, k) /\ b.with = Mark(k)
BY LenProperties DEF Sound, Buffer

\* A buffer whose list, and what goes with it, is another.
LEMMA UpdatedSound ==
  ASSUME NEW b \in Buffer, NEW cs \in Seq(Chains), NEW w \in Int, NEW n \in Int,
         NEW a \in Int, NEW d \in Int, NEW k, Upto(cs, k), w = Mark(k),
         n = Len(Text(cs)), b.told + a - d = n
  PROVE  Sound([b EXCEPT !.chains = cs, !.with = w, !.total = n, !.added = a, !.deleted = d],
               Text(cs))
<1> DEFINE r == [b EXCEPT !.chains = cs, !.with = w, !.total = n, !.added = a, !.deleted = d]
<1>1. r \in Buffer
  BY DEF Buffer
<1>2. /\ r.chains = cs /\ r.with = w /\ r.total = n /\ r.added = a /\ r.deleted = d
      /\ r.told = b.told
  BY DEF Buffer
<1> HIDE DEF r
<1>3. Text(cs) \in Seq(Int)
  BY TextTypes
<1>4. Sound(r, Text(cs))
  BY <1>1, <1>2, <1>3 DEF Sound
<1> QED
  BY <1>4 DEF r

-----------------------------------------------------------------------------
(* The memory of a new chain.                                              *)

\* malloc() is asked for at least MIN_BUFFER_SIZE and for what is needed.
LEMMA MemoryIs ==
  ASSUME NEW size \in Int
  PROVE  Memory(size) \in Nat /\ Memory(size) >= size /\ Memory(size) >= 1
<1> DEFINE Doubles(g) == g = [n \in Nat |-> IF n >= size THEN n ELSE g[2 * n]]
           f == CHOOSE g : Doubles(g)
           \* The numbers from which size is reached, m steps before it.
           T == {m \in Nat : \E g : /\ g \in [Nat -> Nat]
                                    /\ \A n \in Nat : n >= 1 /\ n + m >= size =>
                                         g[n] = IF n >= size THEN n ELSE g[2 * n]}
<1>1. Memory(size) = f[MinSize] /\ MinSize \in Nat /\ MinSize >= 1
  BY EvbufferAssumption DEF Memory
<1>2. 0 \in T
  <2> DEFINE h == [n \in Nat |-> n]
  <2>1. h \in [Nat -> Nat] /\ \A n \in Nat : n >= 1 /\ n + 0 >= size =>
                                         h[n] = IF n >= size THEN n ELSE h[2 * n]
    OBVIOUS
  <2> HIDE DEF h
  <2> QED
    BY <2>1
<1>3. ASSUME NEW m \in Nat, m \in T PROVE m + 1 \in T
  <2>1. PICK g \in [Nat -> Nat] :
             \A n \in Nat : n >= 1 /\ n + m >= size =>
               g[n] = IF n >= size THEN n ELSE g[2 * n]
    BY <1>3
  <2> DEFINE h == [n \in Nat |-> IF n + m >= size THEN g[n] ELSE g[2 * n]]
  <2>2. h \in [Nat -> Nat]
    OBVIOUS
  <2>3. ASSUME NEW n \in Nat, n >= 1, n + (m + 1) >= size
        PROVE  h[n] = IF n >= size THEN n ELSE h[2 * n]
    <3>1. 2 * n \in Nat /\ 2 * n >= n + 1 /\ 2 * n + m >= size
      BY <2>3
    <3>2. h[2 * n] = g[2 * n]
      BY <3>1
    <3>3. CASE n + m >= size
      <4>1. h[n] = g[n] /\ g[n] = IF n >= size THEN n ELSE g[2 * n]
        BY <3>3, <2>1, <2>3
      <4> QED
        BY <4>1, <3>2
    <3>4. CASE ~(n + m >= size)
      <4>1. h[n] = g[2 * n] /\ ~(n >= size)
        BY <3>4
      <4> QED
        BY <4>1, <3>2
    <3> QED
      BY <3>3, <3>4
  <2> HIDE DEF h
  <2> QED
    BY <2>2, <2>3
<1>4. \A m \in Nat : m \in T
  <2> HIDE DEF T
  <2> QED
    BY <1>2, <1>3, Induction
<1>5. \E h : Doubles(h)
  <2>1. PICK m \in Nat : m >= size
    BY size \in Nat \/ 0 >= size, 0 \in Nat
  <2>2. m \in T
    BY <1>4
  <2>3. PICK g \in [Nat -> Nat] :
             \A n \in Nat : n >= 1 /\ n + m >= size =>
               g[n] = IF n >= size THEN n ELSE g[2 * n]
    BY <2>2
  <2>4. \A n \in Nat : n >= 1 => g[n] = IF n >= size THEN n ELSE g[2 * n]
    BY <2>1, <2>3
  <2> DEFINE h == [n \in Nat |-> IF n = 0 THEN 0 ELSE g[n]]
  <2>5. ASSUME NEW n \in Nat PROVE h[n] = IF n >= size THEN n ELSE h[2 * n]
    <3>1. CASE n = 0
      BY <3>1
    <3>2. CASE n # 0
      <4>1. n >= 1 /\ 2 * n \in Nat /\ 2 * n # 0
        BY <3>2
      <4> QED
        BY <4>1, <3>2, <2>4
    <3> QED
      BY <3>1, <3>2
  <2>6. h = [n \in Nat |-> h[n]]
    OBVIOUS
  <2> HIDE DEF h
  <2>7. Doubles(h)
    BY <2>5, <2>6, Zenon
  <2> QED
    BY <2>7
<1>6. Doubles(f)
  <2> HIDE DEF Doubles
  <2> QED
    BY <1>5, Zenon
<1> HIDE DEF f
<1>7. \A n \in Nat : f[n] = IF n >= size THEN n ELSE f[2 * n]
  BY <1>6, Zenon
<1> DEFINE U == {m \in Nat : \A n \in Nat : n >= 1 /\ n + m >= size =>
                               f[n] \in Nat /\ f[n] >= size /\ f[n] >= 1}
<1>8. 0 \in U
  BY <1>7
<1>9. ASSUME NEW m \in Nat, m \in U PROVE m + 1 \in U
  <2>1. ASSUME NEW n \in Nat, n >= 1, n + (m + 1) >= size
        PROVE  f[n] \in Nat /\ f[n] >= size /\ f[n] >= 1
    <3>1. CASE n >= size
      BY <3>1, <2>1, <1>7
    <3>2. CASE ~(n >= size)
      <4>1. 2 * n \in Nat /\ 2 * n >= 1 /\ 2 * n + m >= size
        BY <2>1
      <4>2. f[2 * n] \in Nat /\ f[2 * n] >= size /\ f[2 * n] >= 1
        BY <4>1, <1>9
      <4> QED
        BY <3>2, <4>2, <1>7
    <3> QED
      BY <3>1, <3>2
  <2> QED
    BY <2>1
<1>10. \A m \in Nat : m \in U
  <2> HIDE DEF U
  <2> QED
    BY <1>8, <1>9, Induction
<1>11. PICK m \in Nat : m >= size
  BY size \in Nat \/ 0 >= size, 0 \in Nat
<1>12. m \in U
  BY <1>10
<1>13. MinSize + m >= size
  BY <1>1, <1>11
<1> QED
  BY <1>1, <1>12, <1>13

LEMMA NewChain ==
  ASSUME NEW size \in Int
  PROVE  /\ ChainNew(size) \in Chains
         /\ ChainNew(size).cap >= size /\ ChainNew(size).cap >= 1
         /\ ChainNew(size).skip = 0 /\ ChainNew(size).data = <<>>
<1>1. Memory(size) \in Nat /\ Memory(size) >= size /\ Memory(size) >= 1
  BY MemoryIs
<1>2. <<>> \in Seq(Int) /\ Len(<<>>) = 0
  BY EmptySeq
<1> DEFINE m == Memory(size)
<1> HIDE DEF m
<1>3. [cap |-> m, skip |-> 0, data |-> <<>>] \in Chains
  BY <1>1, <1>2 DEF Chains, m
<1> QED
  BY <1>1, <1>3 DEF ChainNew, m

\* Data is put behind that of a chain with space for it.
LEMMA FilledIs ==
  ASSUME NEW c \in Chains, NEW data \in Seq(Int), Len(data) <= Space(c)
  PROVE  /\ Filled(c, data) \in Chains
         /\ Filled(c, data).data = c.data \o data
         /\ Filled(c, data).cap = c.cap /\ Filled(c, data).skip = c.skip
         /\ Filled(c, data).data = <<>> <=> c.data = <<>> /\ data = <<>>
<1> DEFINE d == c.data \o data
           r == [c EXCEPT !.data = d]
<1>1. /\ c \in [cap : Nat, skip : Nat, data : Seq(Int)]
      /\ c.cap \in Nat /\ c.skip \in Nat /\ c.data \in Seq(Int) /\ Len(c.data) \in Nat
      /\ c.cap >= 1 /\ c.skip + Len(c.data) <= c.cap /\ (c.data = <<>> => c.skip = 0)
  BY ChainIs
<1>2. /\ d \in Seq(Int) /\ Len(d) = Len(c.data) + Len(data) /\ Len(data) \in Nat
      /\ d = <<>> <=> c.data = <<>> /\ data = <<>>
  BY <1>1, ConcatProperties, ConcatEqualIffEmpty, LenProperties
<1> HIDE DEF d
<1>3. r \in [cap : Nat, skip : Nat, data : Seq(Int)]
  BY <1>1, <1>2
<1>4. r.data = d /\ r.cap = c.cap /\ r.skip = c.skip
  BY <1>1
<1>5. c.skip + Len(d) <= c.cap
  BY <1>1, <1>2 DEF Space, Off
<1> HIDE DEF r
<1>6. r \in Chains
  BY <1>1, <1>2, <1>3, <1>4, <1>5 DEF Chains
<1>7. r = Filled(c, data)
  BY DEF Filled, r, d
<1> QED
  BY <1>2, <1>4, <1>6, <1>7 DEF d

LEMMA AlignIs ==
  ASSUME NEW c \in Chains
  PROVE  /\ Align(c) \in Chains /\ Align(c).data = c.data /\ Align(c).cap = c.cap
         /\ Align(c).skip = 0 /\ (c.data = <<>> => Align(c) = c)
<1>1. /\ c \in [cap : Nat, skip : Nat, data : Seq(Int)]
      /\ c.cap \in Nat /\ c.skip \in Nat /\ c.data \in Seq(Int) /\ Len(c.data) \in Nat
      /\ c.cap >= 1 /\ c.skip + Len(c.data) <= c.cap /\ (c.data = <<>> => c.skip = 0)
  BY ChainIs
<1>2. Align(c) \in [cap : Nat, skip : Nat, data : Seq(Int)]
  BY <1>1 DEF Align
<1>3. Align(c).data = c.data /\ Align(c).cap = c.cap /\ Align(c).skip = 0
  BY <1>1 DEF Align
<1>4. c.skip = 0 => Align(c) = c
  BY <1>1 DEF Align
<1> QED
  BY <1>1, <1>2, <1>3, <1>4 DEF Chains

\* Data is taken from the start of a chain, some of which stays.
LEMMA ShortenedIs ==
  ASSUME NEW c \in Chains, NEW n \in Nat, n < Len(c.data)
  PROVE  /\ Shortened(c, n) \in Chains /\ Shortened(c, n).data = Drop(c.data, n)
         /\ Shortened(c, n).data # <<>>
<1>1. /\ c \in [cap : Nat, skip : Nat, data : Seq(Int)]
      /\ c.cap \in Nat /\ c.skip \in Nat /\ c.data \in Seq(Int) /\ Len(c.data) \in Nat
      /\ c.cap >= 1 /\ c.skip + Len(c.data) <= c.cap
  BY ChainIs
<1> DEFINE d == Drop(c.data, n)
           r == [c EXCEPT !.skip = c.skip + n, !.data = d]
<1>2. d \in Seq(Int) /\ Len(d) = Len(c.data) - n
  BY <1>1, CutAt
<1>3. r = Shortened(c, n)
  BY DEF Shortened, Drop
<1> HIDE DEF d
<1>4. r \in [cap : Nat, skip : Nat, data : Seq(Int)]
  <2> DEFINE k == c.skip + n
  <2>1. k \in Nat
    BY <1>1
  <2> HIDE DEF k
  <2>2. [c EXCEPT !.skip = k, !.data = d] \in [cap : Nat, skip : Nat, data : Seq(Int)]
    BY <2>1, <1>1, <1>2
  <2> QED
    BY <2>2 DEF k
<1>5. r.data = d /\ r.cap = c.cap /\ r.skip = c.skip + n
  BY <1>1
<1> HIDE DEF r
<1>6. d # <<>>
  BY <1>1, <1>2, EmptySeq
<1>7. r.skip + Len(d) <= r.cap
  BY <1>1, <1>2, <1>5
<1>8. r \in Chains
  BY <1>1, <1>4, <1>5, <1>6, <1>7 DEF Chains
<1> QED
  BY <1>3, <1>5, <1>6, <1>8 DEF d

-----------------------------------------------------------------------------
(* Adding.                                                                 *)

LEMMA LeastIs ==
  ASSUME NEW S, NEW m \in S, \A i \in S : i \in Int /\ m <= i
  PROVE  Min(S) = m
<1>1. \A x \in S : (\A y \in S : x =< y) => x = m
  OBVIOUS
<1> QED
  BY <1>1, Zenon DEF Min

LEMMA FreeTrailingIs ==
  ASSUME NEW b \in Buffer, NEW k, Upto(b.chains, k), b.with = Mark(k)
  PROVE  FreeTrailing(b) = SubSeq(b.chains, 1, k)
<1> DEFINE cs == b.chains
           empty == {i \in b.with..Len(cs) : IsEmpty(cs[i])}
<1>1. cs \in Seq(Chains) /\ Len(cs) \in Nat /\ k \in 0..Len(cs)
  BY LenProperties DEF Buffer, Upto
<1>2. \A i \in 1..Len(cs) : cs[i].data # <<>> <=> i <= k
  BY DEF Upto
<1>3. CASE k = Len(cs)
  <2>1. empty = {}
    <3>1. ASSUME NEW i \in b.with..Len(cs) PROVE ~IsEmpty(cs[i])
      <4>1. i \in 1..Len(cs) /\ i <= k
        BY <3>1, <1>1, <1>3 DEF Mark
      <4> QED
        BY <4>1, <1>2 DEF IsEmpty
    <3> QED
      BY <3>1
  <2>2. FreeTrailing(b) = cs
    BY <2>1 DEF FreeTrailing
  <2> QED
    BY <2>2, <1>1, <1>3, SubSeqFull
<1>4. CASE k # Len(cs)
  <2>1. k + 1 \in 1..Len(cs) /\ k + 1 \in b.with..Len(cs)
    BY <1>1, <1>4 DEF Mark
  <2>2. k + 1 \in empty
    BY <2>1, <1>1, <1>2 DEF IsEmpty
  <2>3. ASSUME NEW i \in empty PROVE i \in Int /\ k + 1 <= i
    <3>1. i \in 1..Len(cs) /\ cs[i].data = <<>>
      BY <1>1 DEF Mark, IsEmpty
    <3> QED
      BY <3>1, <1>1, <1>2
  <2>4. Min(empty) = k + 1
    <3> HIDE DEF empty
    <3> QED
      BY <2>2, <2>3, LeastIs
  <2>5. FreeTrailing(b) = SubSeq(cs, 1, (k + 1) - 1)
    BY <2>2, <2>4 DEF FreeTrailing
  <2> QED
    BY <2>5, <1>1
<1> QED
  BY <1>3, <1>4

\* A chain behind those with data.
LEMMA UptoAppend ==
  ASSUME NEW cs \in Seq(Chains), NEW k, Upto(cs, k), NEW c \in Chains
  PROVE  /\ Append(SubSeq(cs, 1, k), c) \in Seq(Chains)
         /\ Len(Append(SubSeq(cs, 1, k), c)) = k + 1
         /\ Upto(Append(SubSeq(cs, 1, k), c), IF c.data = <<>> THEN k ELSE k + 1)
         /\ Text(Append(SubSeq(cs, 1, k), c)) = Text(cs) \o c.data
<1> DEFINE f == SubSeq(cs, 1, k)
           r == Append(f, c)
<1>1. k \in Nat /\ k \in k..Len(cs) /\ k \in 0..Len(cs)
  BY LenProperties DEF Upto
<1>2. f \in Seq(Chains) /\ Len(f) = k /\ Upto(f, k) /\ Text(f) = Text(cs)
  BY <1>1, TextUpto
<1> HIDE DEF f
<1>3. /\ r \in Seq(Chains) /\ Len(r) = k + 1
      /\ \A i \in 1..k : r[i] = f[i]
      /\ r[k + 1] = c
  BY <1>2, AppendProperties
<1>4. Text(r) = Text(f) \o c.data
  BY <1>2, TextAppend
<1> DEFINE j == IF c.data = <<>> THEN k ELSE k + 1
<1>5. ASSUME NEW i \in 1..k + 1 PROVE r[i].data # <<>> <=> i <= j
  <2>1. CASE i = k + 1
    BY <2>1, <1>1, <1>3
  <2>2. CASE i # k + 1
    <3>1. i \in 1..k
      BY <2>2, <1>1
    <3>2. f[i].data # <<>>
      BY <3>1, <1>2 DEF Upto
    <3> QED
      BY <3>1, <3>2, <1>1, <1>3
  <2> QED
    BY <2>1, <2>2
<1>6. j \in 0..k + 1
  BY <1>1
<1> HIDE DEF r, j
<1>7. Upto(r, j)
  BY <1>3, <1>5, <1>6 DEF Upto
<1> QED
  BY <1>2, <1>3, <1>4, <1>7 DEF r, j, f

\* evbuffer_chain_insert(): the bytes of the chain are yet to be counted.
LEMMA Inserted ==
  ASSUME NEW b, NEW s, Sound(b, s), NEW c \in Chains
  PROVE  /\ Sound([ChainInsert(b, c) EXCEPT !.added = @ + Off(c)], s \o c.data)
         /\ c.data = <<>> => Sound(ChainInsert(b, c), s)
         /\ ChainInsert(b, c).added = b.added /\ ChainInsert(b, c).deleted = b.deleted
         /\ b.chains = <<>> => ChainInsert(b, c).chains = <<c>>
         /\ b.chains = <<>> => ChainInsert(b, c).with = 1
<1> DEFINE cs == b.chains
<1>1. /\ b \in Buffer /\ cs \in Seq(Chains) /\ Len(cs) \in Nat
      /\ b.with \in Int /\ b.total \in Int
      /\ b.added \in Int /\ b.deleted \in Int /\ b.told \in Int
      /\ s \in Seq(Int) /\ Len(s) \in Nat /\ Text(cs) = s /\ b.total = Len(s)
      /\ b.told + b.added - b.deleted = b.total
  BY SoundIs
<1>2. PICK k : Upto(cs, k) /\ b.with = Mark(k)
  BY SoundIs
<1> DEFINE kept == SubSeq(cs, 1, k)
           ds == Append(kept, c)
           j == IF c.data = <<>> THEN k ELSE k + 1
           w == IF cs # <<>> /\ ~IsEmpty(c) THEN k + 1 ELSE b.with
           n == b.total + Off(c)
<1>3. FreeTrailing(b) = kept
  BY <1>1, <1>2, FreeTrailingIs
<1>4. ds \in Seq(Chains) /\ Len(ds) = k + 1 /\ Upto(ds, j) /\ Text(ds) = s \o c.data
  BY <1>1, <1>2, UptoAppend
<1>5. k \in Nat /\ k \in 0..Len(cs) /\ Len(kept) = k /\ (cs = <<>> => k = 0 /\ kept = <<>>)
  <2>1. k \in 0..Len(cs) /\ k \in k..Len(cs)
    BY <1>1, <1>2 DEF Upto
  <2>2. Len(kept) = k /\ kept \in Seq(Chains)
    BY <2>1, <1>1, CutAt
  <2>3. cs = <<>> => k = 0
    BY <2>1
  <2> HIDE DEF kept
  <2>4. k = 0 => kept = <<>>
    BY <2>2, EmptySeq
  <2> QED
    BY <2>1, <2>2, <2>3, <2>4
<1>6. w = Mark(j) /\ w \in Int
  BY <1>1, <1>2, <1>5 DEF Mark, IsEmpty
<1>7. Off(c) = Len(c.data) /\ Len(c.data) \in Nat /\ c.data \in Seq(Int)
  BY ChainIs DEF Off
<1>8. n = Len(Text(ds)) /\ n \in Int
  BY <1>1, <1>4, <1>7, ConcatProperties
<1>9. ChainInsert(b, c) = [b EXCEPT !.chains = ds, !.with = w, !.total = n]
  <2> HIDE DEF kept
  <2> QED
    BY <1>3, <1>5 DEF ChainInsert
<1> HIDE DEF kept, ds, j, w, n
<1>10. [b EXCEPT !.chains = ds, !.with = w, !.total = n]
         = [b EXCEPT !.chains = ds, !.with = w, !.total = n, !.added = b.added,
                     !.deleted = b.deleted]
  BY <1>1 DEF Buffer
<1>11. [[b EXCEPT !.chains = ds, !.with = w, !.total = n] EXCEPT !.added = @ + Off(c)]
         = [b EXCEPT !.chains = ds, !.with = w, !.total = n, !.added = b.added + Off(c),
                     !.deleted = b.deleted]
  BY <1>1 DEF Buffer
<1>12. /\ b.told + (b.added + Off(c)) - b.deleted = n
       /\ b.added + Off(c) \in Int
  <2>1. /\ b.added \in Int /\ b.deleted \in Int /\ b.told \in Int /\ b.total \in Int
        /\ b.told + b.added - b.deleted = b.total /\ Off(c) \in Int
    BY <1>1, <1>7
  <2> QED
    BY <2>1 DEF n
<1>13. Sound([ChainInsert(b, c) EXCEPT !.added = @ + Off(c)], s \o c.data)
  <2>1. Sound([b EXCEPT !.chains = ds, !.with = w, !.total = n, !.added = b.added + Off(c),
                     !.deleted = b.deleted], Text(ds))
    BY <1>1, <1>4, <1>6, <1>8, <1>12, UpdatedSound
  <2> QED
    BY <2>1, <1>4, <1>9, <1>11
<1>14. ASSUME c.data = <<>> PROVE Sound(ChainInsert(b, c), s)
  <2>1. b.told + b.added - b.deleted = n
    BY <1>1, <1>7, <1>14 DEF n
  <2>2. Sound([b EXCEPT !.chains = ds, !.with = w, !.total = n, !.added = b.added,
                     !.deleted = b.deleted], Text(ds))
    BY <2>1, <1>1, <1>4, <1>6, <1>8, UpdatedSound
  <2>3. Text(ds) = s
    BY <1>1, <1>4, <1>14, ConcatEmptySeq
  <2> QED
    BY <2>2, <2>3, <1>9, <1>10
<1>15. /\ ChainInsert(b, c).added = b.added /\ ChainInsert(b, c).deleted = b.deleted
       /\ ChainInsert(b, c).chains = ds /\ ChainInsert(b, c).with = w
  BY <1>1, <1>9 DEF Buffer
<1>16. cs = <<>> => ds = <<c>> /\ w = 1
  BY <1>2, <1>5 DEF ds, w, Mark
<1> QED
  BY <1>13, <1>14, <1>15, <1>16

\* The last chain with data gets more, or another list of bytes of its length.
LEMMA AddedAt ==
  ASSUME NEW b, NEW s, Sound(b, s), b.with \in 1..Len(b.chains), NEW c \in Chains,
         NEW part \in Seq(Int), c.data = b.chains[b.with].data \o part
  PROVE  Sound(Counted([b EXCEPT !.chains[b.with] = c], Len(part)), s \o part)
<1> DEFINE cs == b.chains
           i == b.with
           ds == [cs EXCEPT ![i] = c]
           t == Text(SubSeq(cs, 1, i - 1))
           u == cs[i].data
           n == Len(part)
<1>1. /\ b \in Buffer /\ cs \in Seq(Chains) /\ Len(cs) \in Nat
      /\ b.with \in Int /\ b.total \in Int
      /\ b.added \in Int /\ b.deleted \in Int /\ b.told \in Int
      /\ s \in Seq(Int) /\ Len(s) \in Nat /\ Text(cs) = s /\ b.total = Len(s)
      /\ b.told + b.added - b.deleted = b.total
      /\ cs[i] \in Chains
  BY SoundIs
<1>2. PICK k : Upto(cs, k) /\ i = Mark(k)
  BY SoundIs
<1>3. n \in Nat /\ k \in 0..Len(cs) /\ i \in k..Len(cs)
  BY <1>1, <1>2, LenProperties DEF Upto, Mark
<1>4. /\ ds \in Seq(Chains) /\ Len(ds) = Len(cs)
      /\ \A j \in 1..Len(cs) : ds[j] = IF j = i THEN c ELSE cs[j]
      /\ Text(ds) = (t \o c.data) \o Text(Drop(cs, i))
  <2>1. i \in 1..Len(cs) /\ cs \in Seq(Chains)
    BY <1>1
  <2> HIDE DEF i, cs
  <2>2. /\ [cs EXCEPT ![i] = c] \in Seq(Chains)
        /\ Len([cs EXCEPT ![i] = c]) = Len(cs)
        /\ \A j \in 1..Len(cs) : [cs EXCEPT ![i] = c][j] = IF j = i THEN c ELSE cs[j]
        /\ Text([cs EXCEPT ![i] = c])
              = (Text(SubSeq(cs, 1, i - 1)) \o c.data) \o Text(Drop(cs, i))
    BY <2>1, TextPut
  <2> QED
    BY <2>2
<1>5. Text(Drop(cs, i)) = <<>>
  BY <1>1, <1>2, <1>3, TextUpto
<1>6. /\ SubSeq(cs, 1, i - 1) \in Seq(Chains)
      /\ s = (t \o u) \o Text(Drop(cs, i))
  BY <1>1, TextAt
<1>7. t \in Seq(Int) /\ u \in Seq(Int)
  BY <1>1, <1>6, TextTypes, ChainIs
<1>8. c.data = u \o part
  OBVIOUS
<1>9. Text(ds) = s \o part
  <2> HIDE DEF t, u, ds
  <2>1. s = t \o u /\ Text(ds) = t \o (u \o part)
    BY <1>4, <1>5, <1>6, <1>7, <1>8
  <2>2. (t \o u) \o part = t \o (u \o part)
    BY <1>7, Associates
  <2> QED
    BY <2>1, <2>2
<1> DEFINE l == IF k = 0 /\ part # <<>> THEN 1 ELSE k
<1>10. Upto(ds, l) /\ i = Mark(l)
  <2>1. l \in 0..Len(ds) /\ i = Mark(l)
    BY <1>1, <1>2, <1>3, <1>4 DEF Mark
  <2>2. ASSUME NEW j \in 1..Len(cs) PROVE ds[j].data # <<>> <=> j <= l
    <3>1. cs[j].data # <<>> <=> j <= k
      BY <1>2 DEF Upto
    <3>2. CASE j # i
      <4>1. j <= k <=> j <= l
        BY <3>2, <1>2, <1>3 DEF Mark
      <4> QED
        BY <3>1, <3>2, <4>1, <1>4
    <3>3. CASE j = i
      <4>1. c.data = <<>> <=> u = <<>> /\ part = <<>>
        <5> HIDE DEF u
        <5> QED
          BY <1>7, <1>8, ConcatEqualIffEmpty
      <4>2. u = <<>> <=> k = 0
        BY <3>1, <3>3, <1>2, <1>3 DEF Mark
      <4>3. ds[j] = c
        BY <3>3, <1>4
      <4>4. j <= l <=> ~(k = 0 /\ part = <<>>)
        BY <3>3, <1>2, <1>3 DEF Mark
      <4> QED
        BY <4>1, <4>2, <4>3, <4>4
    <3> QED
      BY <3>2, <3>3
  <2> QED
    BY <2>1, <2>2, <1>4 DEF Upto
<1>11. Len(Text(ds)) = b.total + n
  BY <1>1, <1>9, ConcatProperties
<1> HIDE DEF ds, l
<1>12. Counted([b EXCEPT !.chains[i] = c], n)
         = [b EXCEPT !.chains = ds, !.with = i, !.total = b.total + n,
                     !.added = b.added + n, !.deleted = b.deleted]
  <2>1. [b EXCEPT !.chains[i] = c] = [b EXCEPT !.chains = ds]
    BY DEF ds
  <2>2. Counted([b EXCEPT !.chains = ds], n)
         = [b EXCEPT !.chains = ds, !.with = i, !.total = b.total + n,
                     !.added = b.added + n, !.deleted = b.deleted]
    BY <1>1 DEF Counted, Buffer
  <2> QED
    BY <2>1, <2>2
<1>13. /\ b.told + (b.added + n) - b.deleted = b.total + n
       /\ b.total + n \in Int /\ b.added + n \in Int
  <2>1. /\ b.added \in Int /\ b.deleted \in Int /\ b.told \in Int /\ b.total \in Int
        /\ b.told + b.added - b.deleted = b.total /\ n \in Int
    BY <1>1, <1>3
  <2> HIDE DEF n
  <2> QED
    BY <2>1
<1>14. Sound([b EXCEPT !.chains = ds, !.with = i, !.total = b.total + n,
                     !.added = b.added + n, !.deleted = b.deleted], Text(ds))
  <2>1. i \in Int /\ b \in Buffer /\ ds \in Seq(Chains) /\ b.deleted \in Int
    BY <1>1, <1>4
  <2> HIDE DEF i, n
  <2> QED
    BY <2>1, <1>10, <1>11, <1>13, UpdatedSound
<1> QED
  BY <1>9, <1>12, <1>14

LEMMA BegunIs ==
  ASSUME NEW b, NEW s, Sound(b, s), NEW size \in Int
  PROVE  /\ Sound(Begun(b, size), s)
         /\ Len(Begun(b, size).chains) \in Nat /\ Len(Begun(b, size).chains) >= 1
         /\ Begun(b, size).with \in 1..Len(Begun(b, size).chains)
         /\ Begun(b, size).added = b.added /\ Begun(b, size).deleted = b.deleted
         /\ b.chains # <<>> => Begun(b, size) = b
         /\ b.chains = <<>> => /\ Begun(b, size).chains = <<ChainNew(size)>>
                               /\ Begun(b, size).with = 1
<1>1. CASE b.chains = <<>>
  <2>1. Begun(b, size) = ChainInsert(b, ChainNew(size))
    BY <1>1 DEF Begun
  <2>2. ChainNew(size) \in Chains /\ ChainNew(size).data = <<>>
    BY NewChain
  <2>3. /\ Sound(ChainInsert(b, ChainNew(size)), s)
        /\ ChainInsert(b, ChainNew(size)).added = b.added
        /\ ChainInsert(b, ChainNew(size)).deleted = b.deleted
        /\ ChainInsert(b, ChainNew(size)).chains = <<ChainNew(size)>>
        /\ ChainInsert(b, ChainNew(size)).with = 1
    BY <1>1, <2>2, Inserted
  <2>4. Len(<<ChainNew(size)>>) = 1
    BY <2>2, TextOne
  <2> QED
    BY <1>1, <2>1, <2>3, <2>4
<1>2. CASE b.chains # <<>>
  <2>1. Begun(b, size) = b
    BY <1>2 DEF Begun
  <2>2. b.chains \in Seq(Chains) /\ Len(b.chains) \in Nat
    BY SoundIs
  <2>3. Len(b.chains) >= 1
    BY <1>2, <2>2, EmptySeq
  <2>4. PICK k : Upto(b.chains, k) /\ b.with = Mark(k)
    BY SoundIs
  <2>5. b.with \in 1..Len(b.chains)
    BY <2>2, <2>3, <2>4 DEF Upto, Mark
  <2> QED
    BY <1>2, <2>1, <2>2, <2>3, <2>5
<1> QED
  BY <1>1, <1>2

LEMMA LargerOf ==
  ASSUME NEW m \in Int, NEW n \in Int
  PROVE  /\ Max({m, n}) = IF m >= n THEN m ELSE n
         /\ Min({m, n}) = IF m <= n THEN m ELSE n
<1>1. \A x \in {m, n} : (\A y \in {m, n} : x >= y) => x = IF m >= n THEN m ELSE n
  OBVIOUS
<1>2. \E x \in {m, n} : \A y \in {m, n} : x >= y
  OBVIOUS
<1>3. \A x \in {m, n} : (\A y \in {m, n} : x =< y) => x = IF m <= n THEN m ELSE n
  OBVIOUS
<1>4. \E x \in {m, n} : \A y \in {m, n} : x =< y
  OBVIOUS
<1> QED
  BY <1>1, <1>2, <1>3, <1>4, Zenon DEF Max, Min

\* evbuffer_add(): in place, after realigning, or with a new chain for what does
\* not fit.
LEMMA AddWorks ==
  ASSUME NEW b, NEW s, Sound(b, s), NEW data \in Seq(Int), NEW mem \in BOOLEAN
  PROVE  /\ AddFails(b, Len(data), mem) => Add(b, data, mem) = b
         /\ ~AddFails(b, Len(data), mem) => Settled(Add(b, data, mem), s \o data)
<1> DEFINE n == Len(data)
           begun == Begun(b, n)
           c == begun.chains[begun.with]
           InPlace(d) == Counted([begun EXCEPT !.chains[begun.with] = Filled(d, data)], n)
           remain == Space(c)
           larger == IF c.cap <= MaxAuto \div 2 THEN 2 * c.cap ELSE c.cap
           size == Max({n, larger})
           first == SubSeq(data, 1, remain)
           rest == Drop(data, remain)
           tmp == Filled(ChainNew(size), rest)
           Split == Counted([begun EXCEPT !.chains[begun.with] = Filled(c, first)], remain)
<1>1. AddFails(b, n, mem) => Add(b, data, mem) = b
  BY DEF Add
<1>2. n \in Nat
  BY LenProperties
<1>3. /\ Sound(begun, s) /\ begun.with \in 1..Len(begun.chains)
      /\ begun.chains \in Seq(Chains) /\ c \in Chains
  <2>1. n \in Int
    BY <1>2
  <2> HIDE DEF n
  <2>2. Sound(Begun(b, n), s) /\ Begun(b, n).with \in 1..Len(Begun(b, n).chains)
    BY <2>1, BegunIs
  <2>3. Sound(begun, s) /\ begun.with \in 1..Len(begun.chains)
    BY <2>2
  <2> HIDE DEF begun
  <2> QED
    BY <2>3, SoundIs
<1>4. ASSUME NEW d \in Chains, d.data = c.data, n <= Space(d)
      PROVE  Settled(Invoke(InPlace(d)), s \o data)
  <2>1. Filled(d, data) \in Chains /\ Filled(d, data).data = c.data \o data
    BY <1>4, FilledIs
  <2>2. Sound(InPlace(d), s \o data)
    <3> DEFINE e == Filled(d, data)
    <3> HIDE DEF begun, e
    <3> QED
      BY <1>3, <2>1, AddedAt DEF e
  <2> QED
    BY <2>2, Invoked
<1>5. /\ c.cap \in Nat /\ c.skip \in Nat /\ c.data \in Seq(Int) /\ Len(c.data) \in Nat
      /\ c.cap >= 1 /\ c.skip + Len(c.data) <= c.cap
  BY <1>3, ChainIs
<1>6. remain \in Nat /\ larger \in Nat
  <2>1. Space(c) = c.cap - c.skip - Len(c.data)
    BY DEF Space, Off
  <2>2. MaxAuto \in Nat
    BY EvbufferAssumption
  <2> HIDE DEF c
  <2> QED
    BY <1>5, <2>1
<1>7. ASSUME remain < n
      PROVE  Settled(Invoke([ChainInsert(Split, tmp) EXCEPT !.added = @ + Off(tmp)]), s \o data)
  <2>1. remain \in 0..Len(data)
    BY <1>2, <1>6, <1>7
  <2>2. /\ first \in Seq(Int) /\ Len(first) = remain /\ rest \in Seq(Int)
        /\ Len(rest) = n - remain /\ first \o rest = data
    <3> HIDE DEF remain
    <3> QED
      BY <2>1, CutAt
  <2>3. Len(first) <= Space(c)
    <3>1. Len(first) = remain /\ remain \in Nat
      BY <2>2, <1>6
    <3>2. Len(first) <= remain
      BY ONLY <3>1
    <3> QED
      BY <3>2
  <2>4. Filled(c, first) \in Chains /\ Filled(c, first).data = c.data \o first
    <3> HIDE DEF c, first
    <3> QED
      BY <1>3, <2>2, <2>3, FilledIs
  <2>5. Sound(Split, s \o first)
    <3> DEFINE e == Filled(c, first)
    <3>1. e \in Chains /\ e.data = c.data \o first /\ first \in Seq(Int) /\ Len(first) = remain
      BY <2>2, <2>4
    <3> HIDE DEF begun, e, first, remain
    <3>2. Sound(Counted([begun EXCEPT !.chains[begun.with] = e], Len(first)), s \o first)
      BY <1>3, <3>1, AddedAt
    <3> QED
      BY <3>1, <3>2 DEF e
  <2>6. size \in Int /\ size >= n
    <3> HIDE DEF n, larger
    <3>1. size = IF n >= larger THEN n ELSE larger
      BY <1>2, <1>6, LargerOf
    <3> QED
      BY <3>1, <1>2, <1>6
  <2>7. /\ ChainNew(size) \in Chains /\ ChainNew(size).cap >= size
        /\ ChainNew(size).skip = 0 /\ ChainNew(size).data = <<>>
    <3> HIDE DEF size
    <3> QED
      BY <2>6, NewChain
  <2>8. tmp \in Chains /\ tmp.data = rest
    <3> DEFINE e == ChainNew(size)
    <3> HIDE DEF rest, remain, e, n
    <3>1. /\ e \in Chains /\ e.cap >= size /\ e.skip = 0 /\ e.data = <<>>
          /\ e.cap \in Nat
      BY <2>7, ChainIs DEF e
    <3>2. Space(e) = e.cap
      BY <3>1 DEF Space, Off
    <3>3. Len(rest) <= Space(e)
      <4> HIDE DEF size
      <4> QED
        BY <3>1, <3>2, <2>2, <2>6, <1>2, <1>6
    <3>4. Filled(e, rest) \in Chains /\ Filled(e, rest).data = e.data \o rest
      BY <3>1, <3>3, <2>2, FilledIs
    <3>5. e.data \o rest = rest
      BY <3>1, <2>2, ConcatEmptySeq
    <3> QED
      BY <3>4, <3>5 DEF e
  <2>9. Sound([ChainInsert(Split, tmp) EXCEPT !.added = @ + Off(tmp)], (s \o first) \o rest)
    <3> HIDE DEF Split, tmp, rest, first
    <3> QED
      BY <2>5, <2>8, Inserted
  <2>10. (s \o first) \o rest = s \o data
    <3>1. s \in Seq(Int) /\ first \in Seq(Int) /\ rest \in Seq(Int) /\ first \o rest = data
      BY <2>2, SoundIs
    <3> HIDE DEF first, rest
    <3> QED
      <4>1. (s \o first) \o rest = s \o (first \o rest)
        <5>1. Regroups(s, first, rest)
          BY ONLY <3>1, Regrouped
        <5> QED
          BY ONLY <5>1 DEF Regroups
      <4> QED
        BY ONLY <3>1, <4>1, Zenon
  <2> QED
    BY <2>9, <2>10, Invoked
<1>8. ASSUME ~AddFails(b, n, mem) PROVE Settled(Add(b, data, mem), s \o data)
  <2>1. CASE remain >= n
    <3>1. Add(b, data, mem) = Invoke(InPlace(c))
      BY <2>1, <1>8 DEF Add
    <3>2. n <= Space(c)
      BY <2>1, <1>2, <1>6
    <3> QED
      BY <3>1, <3>2, <1>3, <1>4
  <2>2. CASE ~(remain >= n) /\ ShouldRealign(c, n)
    <3>1. Add(b, data, mem) = Invoke(InPlace(Align(c)))
      BY <2>2, <1>8 DEF Add
    <3>2. /\ Align(c) \in Chains /\ Align(c).data = c.data /\ Align(c).cap = c.cap
          /\ Align(c).skip = 0
      BY <1>3, AlignIs
    <3>3. n <= Space(Align(c))
      BY <3>2, <2>2, <1>2, <1>5 DEF Space, Off, ShouldRealign
    <3> QED
      BY <3>1, <3>2, <3>3, <1>4
  <2>3. CASE ~(remain >= n) /\ ~ShouldRealign(c, n)
    <3>1. Add(b, data, mem)
            = Invoke([ChainInsert(Split, tmp) EXCEPT !.added = @ + Off(tmp)])
      BY <2>3, <1>8 DEF Add
    <3>2. remain < n
      BY <2>3, <1>2, <1>6
    <3> QED
      BY <3>1, <3>2, <1>7
  <2> QED
    BY <2>1, <2>2, <2>3
<1> QED
  BY <1>1, <1>8

-----------------------------------------------------------------------------
(* The first bytes of a list, taken from it.                               *)

LEMMA HighestIs ==
  ASSUME NEW n \in Nat, NEW t, t \subseteq 0..n, 0 \in t
  PROVE  Max(t) \in t /\ \A k \in t : k <= Max(t)
<1> DEFINE u == t \ {0}
<1>1. \E m \in t : \A k \in t : m >= k
  <2>1. CASE u = {}
    <3>1. t = {0}
      BY <2>1
    <3> QED
      BY <3>1
  <2>2. CASE u # {}
    <3>1. u \subseteq 1..n
      OBVIOUS
    <3>2. Max(u) \in u /\ \A k \in u : k <= Max(u)
      BY <2>2, <3>1, Greatest
    <3>3. Max(u) \in t /\ Max(u) \in 1..n
      BY <3>1, <3>2
    <3>4. ASSUME NEW k \in t PROVE Max(u) >= k
      <4>1. CASE k = 0
        BY <4>1, <3>3
      <4>2. CASE k # 0
        <5>1. k \in u /\ k \in 1..n
          BY <4>2, <3>1
        <5>2. k <= Max(u)
          BY <5>1, <3>2
        <5> QED
          BY <5>1, <5>2, <3>3
      <4> QED
        BY <4>1, <4>2
    <3> QED
      BY <3>3, <3>4
  <2> QED
    BY <2>1, <2>2
<1>2. Max(t) \in t /\ \A k \in t : Max(t) >= k
  BY <1>1, Zenon DEF Max
<1> QED
  BY <1>2

LEMMA CoveredIs ==
  ASSUME NEW cs \in Seq(Chains), NEW n \in Nat
  PROVE  /\ Covered(cs, n) \in 0..Len(cs)
         /\ LengthOf(SubSeq(cs, 1, Covered(cs, n))) <= n
         /\ \A k \in 0..Len(cs) : LengthOf(SubSeq(cs, 1, k)) <= n => k <= Covered(cs, n)
<1> DEFINE t == {k \in 0..Len(cs) : LengthOf(SubSeq(cs, 1, k)) <= n}
<1>1. Len(cs) \in Nat
  BY LenProperties
<1>2. 0 \in t
  <2>1. SubSeq(cs, 1, 0) \in Seq(Chains) /\ Len(SubSeq(cs, 1, 0)) = 0
    BY <1>1, CutAt
  <2>2. SubSeq(cs, 1, 0) = <<>>
    BY <2>1, EmptySeq
  <2>3. Text(SubSeq(cs, 1, 0)) = <<>>
    BY <2>2, TextNothing
  <2>4. LengthOf(SubSeq(cs, 1, 0)) = Len(Text(SubSeq(cs, 1, 0)))
    BY <2>1, LengthIs
  <2>5. Len(<<>>) = 0
    OBVIOUS
  <2> QED
    BY <2>3, <2>4, <2>5, <1>1
<1>3. t \subseteq 0..Len(cs)
  OBVIOUS
<1>4. Covered(cs, n) = Max(t)
  BY DEF Covered
<1>5. Max(t) \in t /\ \A k \in t : k <= Max(t)
  <2> HIDE DEF t
  <2> QED
    BY <1>1, <1>2, <1>3, HighestIs
<1> QED
  BY <1>4, <1>5

\* What is left when n bytes have been taken, fewer than there are.
Left(cs, n) ==
  LET g == Covered(cs, n)
  IN <<Shortened(Head(Drop(cs, g)), n - LengthOf(SubSeq(cs, 1, g)))>> \o Tail(Drop(cs, g))

\* The chain where the cut is.
LEMMA CutIn ==
  ASSUME NEW cs \in Seq(Chains), NEW k, Upto(cs, k), NEW n \in Nat, n < Len(Text(cs))
  PROVE  /\ Covered(cs, n) \in 0..k - 1 /\ Covered(cs, n) + 1 \in 1..Len(cs)
         /\ LengthOf(SubSeq(cs, 1, Covered(cs, n))) \in 0..n
         /\ LengthOf(SubSeq(cs, 1, Covered(cs, n))) = Len(Text(SubSeq(cs, 1, Covered(cs, n))))
         /\ n - LengthOf(SubSeq(cs, 1, Covered(cs, n))) < Len(cs[Covered(cs, n) + 1].data)
<1> DEFINE g == Covered(cs, n)
           at(j) == LengthOf(SubSeq(cs, 1, j))
<1>1. /\ g \in 0..Len(cs) /\ at(g) <= n
      /\ \A j \in 0..Len(cs) : at(j) <= n => j <= g
  BY CoveredIs
<1>2. Len(cs) \in Nat /\ k \in 0..Len(cs)
  BY LenProperties DEF Upto
<1>3. \A j \in 0..Len(cs) : SubSeq(cs, 1, j) \in Seq(Chains)
  BY CutAt
<1>4. \A j \in 0..Len(cs) : at(j) = Len(Text(SubSeq(cs, 1, j))) /\ at(j) \in Nat
  BY <1>3, LengthIs, TextTypes
<1>5. g # Len(cs)
  <2>1. SubSeq(cs, 1, Len(cs)) = cs
    BY SubSeqFull
  <2>2. at(Len(cs)) = Len(Text(cs))
    <3>1. Len(cs) \in 0..Len(cs)
      BY <1>2
    <3>2. at(Len(cs)) = Len(Text(SubSeq(cs, 1, Len(cs))))
      BY <3>1, <1>4
    <3> QED
      BY <2>1, <3>2
  <2>3. Len(Text(cs)) \in Nat
    BY TextTypes
  <2>4. ~(at(Len(cs)) <= n)
    BY <2>2, <2>3
  <2> QED
    BY <2>4, <1>1
<1>6. g + 1 \in 1..Len(cs) /\ g + 1 \in 0..Len(cs) /\ ~(g + 1 <= g) /\ (g + 1) - 1 = g
  BY <1>1, <1>2, <1>5
<1>7. ~(at(g + 1) <= n)
  BY <1>1, <1>6
<1> DEFINE c == cs[g + 1]
<1>8. c \in Chains /\ c.data \in Seq(Int) /\ Len(c.data) \in Nat
  BY <1>6, LenProperties, ChainIs
<1>9. at(g + 1) = at(g) + Len(c.data)
  <2> HIDE DEF g
  <2>1. Text(SubSeq(cs, 1, g + 1)) = Text(SubSeq(cs, 1, (g + 1) - 1)) \o cs[g + 1].data
    BY <1>6, TextAt
  <2>2. Text(SubSeq(cs, 1, g)) \in Seq(Int)
    BY <1>1, <1>3, TextTypes
  <2>3. Text(SubSeq(cs, 1, g + 1)) = Text(SubSeq(cs, 1, g)) \o c.data
    BY <2>1, <1>6
  <2>4. Len(Text(SubSeq(cs, 1, g + 1))) = Len(Text(SubSeq(cs, 1, g))) + Len(c.data)
    <3> HIDE DEF c
    <3> QED
      BY <2>2, <2>3, <1>8, ConcatProperties
  <2> QED
    BY <2>4, <1>1, <1>4, <1>6
<1>10. at(g) \in Nat /\ at(g) = Len(Text(SubSeq(cs, 1, g)))
  BY <1>1, <1>4
<1>11. n - at(g) < Len(c.data) /\ at(g) \in 0..n
  <2> DEFINE l == Len(c.data)
             a == at(g)
  <2>1. l \in Nat /\ a \in Nat /\ ~(a + l <= n) /\ a <= n
    BY <1>1, <1>7, <1>8, <1>9, <1>10
  <2> HIDE DEF l, a
  <2>2. n - a < l /\ a \in 0..n
    BY <2>1
  <2> QED
    BY <2>2 DEF l, a
<1>12. g \in 0..k - 1
  <2>1. Len(c.data) # 0
    <3> HIDE DEF at, g, c
    <3> QED
      BY <1>11
  <2>2. c.data # <<>>
    BY <2>1
  <2>3. g + 1 <= k
    BY <2>2, <1>6 DEF Upto
  <2> QED
    BY <2>3, <1>1, <1>2
<1> QED
  BY <1>6, <1>10, <1>11, <1>12

LEMMA LeftIs ==
  ASSUME NEW cs \in Seq(Chains), NEW k, Upto(cs, k), NEW n \in Nat, n < Len(Text(cs))
  PROVE  /\ Left(cs, n) \in Seq(Chains)
         /\ Upto(Left(cs, n), k - Covered(cs, n))
         /\ Text(Left(cs, n)) = Drop(Text(cs), n)
         /\ SubSeq(Text(cs), 1, n)
              = Text(SubSeq(cs, 1, Covered(cs, n)))
                  \o SubSeq(Head(Drop(cs, Covered(cs, n))).data, 1,
                            n - LengthOf(SubSeq(cs, 1, Covered(cs, n))))
<1> DEFINE g == Covered(cs, n)
           p == SubSeq(cs, 1, g)
           at == LengthOf(p)
           ds == Drop(cs, g)
           c == Head(ds)
           ts == Tail(ds)
           rest == n - at
           e == Shortened(c, rest)
           r == <<e>> \o ts
<1>1. /\ g \in 0..k - 1 /\ g + 1 \in 1..Len(cs) /\ at \in 0..n /\ at = Len(Text(p))
      /\ rest < Len(cs[g + 1].data)
  BY CutIn
<1>2. Len(cs) \in Nat /\ k \in 0..Len(cs) /\ g \in 0..Len(cs)
  <2> HIDE DEF g
  <2> QED
    BY <1>1, LenProperties DEF Upto
<1>3. /\ p \in Seq(Chains) /\ ds \in Seq(Chains) /\ Len(ds) = Len(cs) - g
      /\ \A i \in 1..Len(cs) - g : ds[i] = cs[g + i]
      /\ p \o ds = cs
  <2> HIDE DEF g
  <2> QED
    BY <1>2, CutAt
<1>4. Len(ds) \in Nat /\ Len(ds) >= 1 /\ 1 \in 1..Len(cs) - g
  <2> HIDE DEF g, ds
  <2> QED
    BY <1>1, <1>2, <1>3
<1>5. /\ c \in Chains /\ c = cs[g + 1]
      /\ ts \in Seq(Chains) /\ Len(ts) = Len(ds) - 1
      /\ \A i \in 1..Len(ts) : ts[i] = ds[i + 1]
      /\ <<c>> \o ts = ds
  <2> HIDE DEF ds, g
  <2>1. ds # <<>>
    BY <1>4, EmptySeq
  <2>2. /\ Head(ds) \in Chains /\ Tail(ds) \in Seq(Chains) /\ Len(Tail(ds)) = Len(ds) - 1
        /\ \A i \in 1..Len(Tail(ds)) : Tail(ds)[i] = ds[i + 1]
    BY <1>3, <2>1, HeadTailProperties
  <2>3. Head(ds) = ds[1]
    BY <1>3, <1>4
  <2>4. <<Head(ds)>> \o Tail(ds) = ds
    BY <1>3, <2>1
  <2> QED
    BY <1>3, <1>4, <2>2, <2>3, <2>4
<1>6. /\ rest \in Nat /\ rest < Len(c.data) /\ rest \in 0..Len(c.data)
      /\ c.data \in Seq(Int) /\ Len(c.data) \in Nat
  <2>1. c.data \in Seq(Int) /\ Len(c.data) \in Nat
    BY <1>5, ChainIs
  <2>2. rest < Len(c.data)
    BY <1>1, <1>5
  <2>3. at \in 0..n
    BY <1>1
  <2>4. rest \in Nat
    <3> HIDE DEF at
    <3> QED
      BY <2>3
  <2> HIDE DEF rest, c
  <2> QED
    BY <2>1, <2>2, <2>4
<1>7. e \in Chains /\ e.data = Drop(c.data, rest) /\ e.data # <<>>
  <2> HIDE DEF c, rest
  <2> QED
    BY <1>5, <1>6, ShortenedIs
<1>8. Left(cs, n) = r
  BY DEF Left
<1> HIDE DEF e, c, ts, rest, at, ds, p, g
<1>9. /\ <<e>> \in Seq(Chains) /\ Text(<<e>>) = e.data
      /\ <<c>> \in Seq(Chains) /\ Text(<<c>>) = c.data /\ Len(<<e>>) = 1
  BY <1>5, <1>7, TextOne
<1>10. /\ r \in Seq(Chains) /\ Len(r) = Len(ds)
       /\ \A i \in 1..Len(ds) : r[i] = IF i = 1 THEN e ELSE ds[i]
  <2>1. /\ r \in Seq(Chains) /\ Len(r) = 1 + (Len(ds) - 1)
        /\ \A i \in 1..1 + (Len(ds) - 1) : r[i] = IF i <= 1 THEN <<e>>[i] ELSE ts[i - 1]
    BY <1>5, <1>9, ConcatProperties
  <2>2. 1 + (Len(ds) - 1) = Len(ds)
    BY <1>4
  <2>3. ASSUME NEW i \in 1..Len(ds) PROVE r[i] = IF i = 1 THEN e ELSE ds[i]
    <3>1. CASE i = 1
      BY <3>1, <2>1, <2>2, <1>4
    <3>2. CASE i # 1
      <4>1. i - 1 \in 1..Len(ts) /\ (i - 1) + 1 = i /\ ~(i <= 1)
        BY <3>2, <1>4, <1>5
      <4>2. r[i] = ts[i - 1]
        BY <4>1, <2>1, <2>2
      <4>3. ts[i - 1] = ds[(i - 1) + 1]
        BY <4>1, <1>5
      <4> QED
        BY <4>1, <4>2, <4>3, <3>2
    <3> QED
      BY <3>1, <3>2
  <2> HIDE DEF r
  <2> QED
    BY <2>1, <2>2, <2>3
<1>11. Upto(r, k - g)
  <2>1. k - g \in 0..Len(r)
    BY <1>1, <1>2, <1>3, <1>10
  <2>2. ASSUME NEW i \in 1..Len(r) PROVE r[i].data # <<>> <=> i <= k - g
    <3>1. CASE i = 1
      <4>1. i <= k - g
        BY <3>1, <1>1, <1>2
      <4>2. r[i].data # <<>>
        BY <3>1, <1>4, <1>7, <1>10
      <4> QED
        BY <4>1, <4>2
    <3>2. CASE i # 1
      <4>1. i \in 1..Len(ds) /\ i \in 1..Len(cs) - g /\ g + i \in 1..Len(cs)
        <5> DEFINE l == Len(cs)
                   h == Len(ds)
        <5>1. l \in Nat /\ g \in 0..l /\ h = l - g /\ i \in 1..h
          BY <1>2, <1>3, <1>10
        <5>2. i \in 1..l - g /\ g + i \in 1..l
          BY ONLY <5>1
        <5> QED
          BY <5>1, <5>2
      <4>2. r[i] = cs[g + i]
        BY <4>1, <3>2, <1>3, <1>10
      <4>3. g + i <= k <=> i <= k - g
        BY <4>1, <1>2
      <4>4. cs[g + i].data # <<>> <=> g + i <= k
        BY <4>1 DEF Upto
      <4> QED
        BY <4>2, <4>3, <4>4
    <3> QED
      BY <3>1, <3>2
  <2> HIDE DEF r
  <2> QED
    BY <2>1, <2>2 DEF Upto
<1> DEFINE v == Text(ts)
           u == c.data
           w == Text(ds)
           q == Text(p)
<1>12. v \in Seq(Int) /\ u \in Seq(Int) /\ w \in Seq(Int) /\ q \in Seq(Int)
  BY <1>3, <1>5, <1>6, TextTypes
<1>13. Text(r) = Drop(u, rest) \o v /\ w = u \o v /\ Text(cs) = q \o w
  <2>1. Text(<<e>> \o ts) = Text(<<e>>) \o Text(ts)
    BY <1>5, <1>9, TextJoin
  <2>2. Text(<<c>> \o ts) = Text(<<c>>) \o Text(ts)
    BY <1>5, <1>9, TextJoin
  <2>3. Text(p \o ds) = Text(p) \o Text(ds)
    BY <1>3, TextJoin
  <2> QED
    BY <2>1, <2>2, <2>3, <1>3, <1>5, <1>7, <1>9
<1>14. /\ rest \in 0..Len(u) + Len(v) /\ n \in 0..Len(q) + Len(w)
       /\ rest <= Len(u) /\ n >= Len(q) /\ n - Len(q) = rest
  <2>1. /\ at = Len(q) /\ at \in 0..n /\ rest = n - at /\ rest \in Nat
        /\ rest < Len(u) /\ Len(u) \in Nat /\ Len(v) \in Nat /\ Len(w) \in Nat
    BY <1>1, <1>6, <1>12, LenProperties DEF rest
  <2>2. Len(w) = Len(u) + Len(v)
    <3> HIDE DEF u, v, w
    <3> QED
      BY <1>12, <1>13, ConcatProperties
  <2> HIDE DEF u, v, w, q
  <2> QED
    BY <2>1, <2>2
<1> HIDE DEF u, v, w, q, r
<1>15. Drop(w, rest) = Drop(u, rest) \o v /\ SubSeq(w, 1, rest) = SubSeq(u, 1, rest)
  BY <1>12, <1>13, <1>14, CutJoined
<1>16. /\ SubSeq(q \o w, 1, n) = q \o SubSeq(w, 1, n - Len(q))
       /\ Drop(q \o w, n) = Drop(w, n - Len(q))
  BY <1>12, <1>14, CutJoined
<1>17. Text(r) = Drop(Text(cs), n) /\ SubSeq(Text(cs), 1, n) = q \o SubSeq(u, 1, rest)
  BY <1>13, <1>14, <1>15, <1>16
<1>18. /\ Left(cs, n) = r /\ Upto(r, k - Covered(cs, n))
       /\ q = Text(SubSeq(cs, 1, Covered(cs, n)))
       /\ u = Head(Drop(cs, Covered(cs, n))).data
       /\ rest = n - LengthOf(SubSeq(cs, 1, Covered(cs, n)))
  BY <1>8, <1>11 DEF q, p, g, u, c, ds, rest, at
<1> QED
  BY <1>10, <1>17, <1>18

LEMMA DropAll ==
  ASSUME NEW s \in Seq(Int), NEW n \in Nat, n >= Len(s)
  PROVE  Drop(s, n) = <<>> /\ SubSeq(s, 1, Len(s)) = s
<1>1. Len(s) \in Nat
  BY LenProperties
<1>2. \A i \in n + 1..Len(s) : s[i] \in Int
  BY <1>1
<1>3. n + 1 \in Int /\ Len(s) \in Int /\ ~(n + 1 <= Len(s))
  BY <1>1
<1>4. /\ SubSeq(s, n + 1, Len(s)) \in Seq(Int)
      /\ Len(SubSeq(s, n + 1, Len(s))) = IF n + 1 <= Len(s) THEN Len(s) - (n + 1) + 1 ELSE 0
  BY <1>2, <1>3, SubSeqProperties
<1>5. SubSeq(s, n + 1, Len(s)) = <<>>
  BY <1>3, <1>4, EmptySeq
<1> QED
  BY <1>5, SubSeqFull DEF Drop

LEMMA ShortSound ==
  ASSUME NEW b, NEW s, Sound(b, s), NEW n \in Nat, n < Len(s), NEW w \in Int,
         LET g == Covered(b.chains, n)
         IN \/ w = IF b.with <= g + 1 THEN 1 ELSE b.with - g
            \/ w = IF b.with \in 2..g + 1 THEN 1 ELSE b.with - g
  PROVE  Sound([b EXCEPT !.chains = Left(b.chains, n), !.with = w, !.total = b.total - n,
                         !.added = b.added, !.deleted = b.deleted + n], Drop(s, n))
<1> DEFINE cs == b.chains
           g == Covered(cs, n)
<1>1. /\ b \in Buffer /\ cs \in Seq(Chains) /\ b.with \in Int /\ b.total \in Int
      /\ b.added \in Int /\ b.deleted \in Int /\ b.told \in Int
      /\ s \in Seq(Int) /\ Text(cs) = s /\ b.total = Len(s) /\ Len(s) \in Nat
      /\ b.told + b.added - b.deleted = b.total
      /\ \E k : Upto(cs, k) /\ b.with = Mark(k)
  BY SoundIs
<1>2. PICK k : Upto(cs, k) /\ b.with = Mark(k)
  BY <1>1
<1>3. g \in 0..k - 1 /\ k \in Nat
  <2>1. Covered(cs, n) \in 0..k - 1
    <3> HIDE DEF cs
    <3> QED
      BY <1>1, <1>2, CutIn
  <2>2. k \in 0..Len(cs) /\ Len(cs) \in Nat
    BY <1>1, <1>2, LenProperties DEF Upto
  <2> QED
    BY <2>1, <2>2
<1>4. /\ Left(cs, n) \in Seq(Chains) /\ Upto(Left(cs, n), k - g)
      /\ Text(Left(cs, n)) = Drop(s, n)
  <2>1. /\ Left(cs, n) \in Seq(Chains) /\ Upto(Left(cs, n), k - Covered(cs, n))
        /\ Text(Left(cs, n)) = Drop(Text(cs), n)
    <3> HIDE DEF cs
    <3> QED
      BY <1>1, <1>2, LeftIs
  <2> QED
    BY <2>1, <1>1
<1> HIDE DEF g
<1>5. w = Mark(k - g)
  <2>1. b.with = k
    BY <1>2, <1>3 DEF Mark
  <2>2. \/ w = IF k <= g + 1 THEN 1 ELSE k - g
        \/ w = IF k \in 2..g + 1 THEN 1 ELSE k - g
    BY <2>1 DEF g
  <2> QED
    BY <2>2, <1>3 DEF Mark
<1>6. Len(Text(Left(cs, n))) = b.total - n
  <2>1. n \in 0..Len(s)
    BY <1>1
  <2>2. Len(Drop(s, n)) = Len(s) - n
    BY <1>1, <2>1, CutAt
  <2> QED
    BY <2>2, <1>1, <1>4
<1>7. /\ b.told + b.added - (b.deleted + n) = b.total - n
      /\ b.total - n \in Int /\ b.deleted + n \in Int
  <2>1. /\ b.added \in Int /\ b.deleted \in Int /\ b.told \in Int /\ b.total \in Int
        /\ b.told + b.added - b.deleted = b.total
    BY <1>1
  <2> QED
    BY <2>1
<1> DEFINE ds == Left(cs, n)
<1> HIDE DEF ds
<1>8. Sound([b EXCEPT !.chains = ds, !.with = w, !.total = b.total - n,
                      !.added = b.added, !.deleted = b.deleted + n], Text(ds))
  <2>1. ds \in Seq(Chains) /\ Upto(ds, k - g) /\ Len(Text(ds)) = b.total - n
    BY <1>4, <1>6 DEF ds
  <2> QED
    BY <2>1, <1>1, <1>5, <1>7, UpdatedSound
<1> QED
  BY <1>4, <1>8 DEF ds

\* A buffer that loses all of its chains.
LEMMA ZeroedSound ==
  ASSUME NEW b, NEW s, Sound(b, s)
  PROVE  Sound([Zeroed(b) EXCEPT !.deleted = @ + b.total], <<>>)
<1>1. /\ b \in Buffer /\ b.with \in Int /\ b.total \in Int
      /\ b.added \in Int /\ b.deleted \in Int /\ b.told \in Int
      /\ b.told + b.added - b.deleted = b.total
  BY SoundIs
<1>2. <<>> \in Seq(Chains) /\ Upto(<<>>, 0) /\ 1 = Mark(0) /\ Len(Text(<<>>)) = 0
  BY TextNothing DEF Upto, Mark
<1>3. b.told + b.added - (b.deleted + b.total) = 0 /\ b.deleted + b.total \in Int
  BY <1>1
<1>4. Sound([b EXCEPT !.chains = <<>>, !.with = 1, !.total = 0, !.added = b.added,
                      !.deleted = b.deleted + b.total], Text(<<>>))
  <2> DEFINE e == <<>>
  <2>1. /\ e \in Seq(Chains) /\ Upto(e, 0) /\ 1 = Mark(0) /\ 0 = Len(Text(e))
        /\ 0 \in Int /\ 1 \in Int
    BY <1>2
  <2> HIDE DEF e
  <2>2. Sound([b EXCEPT !.chains = e, !.with = 1, !.total = 0, !.added = b.added,
                        !.deleted = b.deleted + b.total], Text(e))
    BY <2>1, <1>1, <1>3, UpdatedSound
  <2> QED
    BY <2>2 DEF e
<1>5. [Zeroed(b) EXCEPT !.deleted = @ + b.total]
        = [b EXCEPT !.chains = <<>>, !.with = 1, !.total = 0, !.added = b.added,
                    !.deleted = b.deleted + b.total]
  BY <1>1 DEF Zeroed, Buffer
<1> QED
  BY <1>4, <1>5, TextNothing

\* evbuffer_drain().
LEMMA DrainWorks ==
  ASSUME NEW b, NEW s, Settled(b, s), NEW len \in Nat
  PROVE  Settled(Drain(b, len), Drop(s, len))
<1> DEFINE n == Min({len, b.total})
           g == Covered(b.chains, n)
           w == IF b.with <= g + 1 THEN 1 ELSE b.with - g
<1>1. /\ Sound(b, s) /\ b \in Buffer /\ b.with \in Int /\ b.total \in Int
      /\ b.added \in Int /\ b.deleted \in Int /\ b.chains \in Seq(Chains)
      /\ s \in Seq(Int) /\ b.total = Len(s) /\ Len(s) \in Nat
  BY SoundIs DEF Settled
<1>2. n = IF len <= b.total THEN len ELSE b.total
  <2>1. len \in Int /\ b.total \in Int
    BY <1>1
  <2> QED
    BY <2>1, LargerOf
<1>3. CASE b.total = 0
  <2>1. s = <<>>
    BY <1>1, <1>3, EmptySeq
  <2>2. Drop(s, len) = <<>>
    <3>1. len >= Len(s)
      BY <1>1, <1>3
    <3> QED
      BY <3>1, <1>1, DropAll
  <2>3. Drain(b, len) = b
    BY <1>3 DEF Drain
  <2> QED
    BY <2>1, <2>2, <2>3
<1>4. CASE b.total # 0 /\ n = b.total
  <2>1. Drop(s, len) = <<>>
    <3>1. len >= Len(s)
      <4> HIDE DEF n
      <4> QED
        BY <1>1, <1>2, <1>4
    <3> QED
      BY <3>1, <1>1, DropAll
  <2>2. Drain(b, len) = Invoke([Zeroed(b) EXCEPT !.deleted = @ + b.total])
    BY <1>4 DEF Drain
  <2> QED
    BY <2>1, <2>2, <1>1, ZeroedSound, Invoked
<1>5. CASE b.total # 0 /\ n # b.total
  <2>1. n = len /\ n \in Nat /\ n < Len(s)
    <3> HIDE DEF n
    <3> QED
      BY <1>1, <1>2, <1>5
  <2> DEFINE short == [b EXCEPT !.chains = Left(b.chains, n), !.with = w, !.total = b.total - n]
             done == [b EXCEPT !.chains = Left(b.chains, n), !.with = w, !.total = b.total - n,
                               !.added = b.added, !.deleted = b.deleted + n]
  <2>2. Drain(b, len) = Invoke([short EXCEPT !.deleted = @ + n])
    BY <1>5 DEF Drain, Left
  <2>3. w \in Int
    <3>1. g \in Int
      <4>1. g \in 0..Len(b.chains)
        <5> HIDE DEF n
        <5> QED
          BY <1>1, <2>1, CoveredIs
      <4> HIDE DEF g
      <4> QED
        BY <4>1
    <3> HIDE DEF g
    <3> QED
      BY <3>1, <1>1
  <2>4. Sound(done, Drop(s, n))
    <3>1. w = IF b.with <= Covered(b.chains, n) + 1 THEN 1 ELSE b.with - Covered(b.chains, n)
      OBVIOUS
    <3> HIDE DEF n, w
    <3> QED
      BY <3>1, <2>1, <2>3, <1>1, ShortSound
  <2>5. [short EXCEPT !.deleted = @ + n] = done
    <3> HIDE DEF n, w
    <3> QED
      BY <1>1 DEF Buffer
  <2> HIDE DEF done, short
  <2>6. Settled(Invoke(done), Drop(s, n))
    BY <2>4, Invoked
  <2> QED
    BY <2>1, <2>2, <2>5, <2>6
<1> QED
  BY <1>3, <1>4, <1>5

-----------------------------------------------------------------------------
(* Room that is made: the text stays.                                      *)

\* A chain that takes the place of one and holds the same data.
LEMMA PutSame ==
  ASSUME NEW cs \in Seq(Chains), NEW k, Upto(cs, k), NEW i \in 1..Len(cs), NEW c \in Chains,
         c.data = cs[i].data
  PROVE  /\ [cs EXCEPT ![i] = c] \in Seq(Chains)
         /\ Upto([cs EXCEPT ![i] = c], k) /\ Text([cs EXCEPT ![i] = c]) = Text(cs)
<1> DEFINE ds == [cs EXCEPT ![i] = c]
<1>1. /\ ds \in Seq(Chains) /\ Len(ds) = Len(cs)
      /\ \A j \in 1..Len(cs) : ds[j] = IF j = i THEN c ELSE cs[j]
  BY TextPut
<1>2. \A j \in 1..Len(cs) : ds[j].data = cs[j].data
  BY <1>1
<1> HIDE DEF ds
<1>3. Text(cs) = Text(ds)
  BY <1>1, <1>2, TextSame
<1>4. Upto(ds, k)
  BY <1>1, <1>2 DEF Upto
<1> QED
  BY <1>1, <1>3, <1>4 DEF ds

LEMMA KeptSound ==
  ASSUME NEW b, NEW s, Settled(b, s), NEW cs \in Seq(Chains), Text(cs) = s,
         NEW k, Upto(cs, k), b.with = Mark(k)
  PROVE  Settled([b EXCEPT !.chains = cs], s)
<1>1. /\ b \in Buffer /\ s \in Seq(Int) /\ b.total = Len(s)
      /\ b.told + b.added - b.deleted = b.total /\ b.added = 0 /\ b.deleted = 0
  BY DEF Settled, Sound
<1> DEFINE r == [b EXCEPT !.chains = cs]
<1>2. /\ r \in Buffer /\ r.chains = cs /\ r.with = b.with /\ r.total = b.total
      /\ r.added = b.added /\ r.deleted = b.deleted /\ r.told = b.told
  BY <1>1 DEF Buffer
<1> HIDE DEF r
<1>3. Settled(r, s)
  BY <1>1, <1>2 DEF Settled, Sound
<1> QED
  BY <1>3 DEF r

LEMMA InsertedNew ==
  ASSUME NEW b, NEW s, Settled(b, s), NEW n \in Int
  PROVE  Settled(ChainInsert(b, ChainNew(n)), s)
<1>1. ChainNew(n) \in Chains /\ ChainNew(n).data = <<>>
  BY NewChain
<1> DEFINE c == ChainNew(n)
<1> HIDE DEF c
<1>2. Sound(b, s) /\ b.added = 0 /\ b.deleted = 0
  BY DEF Settled
<1>3. c \in Chains /\ c.data = <<>>
  BY <1>1 DEF c
<1>4. /\ Sound(ChainInsert(b, c), s)
      /\ ChainInsert(b, c).added = b.added /\ ChainInsert(b, c).deleted = b.deleted
  BY <1>2, <1>3, Inserted
<1>5. Settled(ChainInsert(b, c), s)
  BY <1>2, <1>4 DEF Settled
<1> QED
  BY <1>5 DEF c

\* evbuffer_expand_singlechain().
LEMMA ExpandSingleWorks ==
  ASSUME NEW b, NEW s, Settled(b, s), NEW n \in Nat, NEW mem \in BOOLEAN
  PROVE  Settled(ExpandSingle(b, n, mem), s)
<1> DEFINE at == IF b.chains # <<>> /\ Space(b.chains[b.with]) = 0 THEN b.with + 1 ELSE b.with
           c == b.chains[at]
           Insert == IF mem THEN ChainInsert(b, ChainNew(n)) ELSE b
           wide == Filled(ChainNew(Off(c) + n), c.data)
<1>1. /\ b \in Buffer /\ b.chains \in Seq(Chains) /\ Len(b.chains) \in Nat /\ b.with \in Int
      /\ Text(b.chains) = s
      /\ \A i \in 1..Len(b.chains) : b.chains[i] \in Chains
      /\ \E k : Upto(b.chains, k) /\ b.with = Mark(k)
  BY SoundIs DEF Settled
<1>2. PICK k : Upto(b.chains, k) /\ b.with = Mark(k)
  BY <1>1
<1>3. Settled(Insert, s)
  BY InsertedNew
<1>4. at \in Int /\ at >= 1
  <2>1. k \in 0..Len(b.chains)
    BY <1>2 DEF Upto
  <2> QED
    BY <2>1, <1>1, <1>2 DEF Mark
<1>5. ASSUME at \in 1..Len(b.chains), NEW d \in Chains, d.data = c.data
      PROVE  Settled([b EXCEPT !.chains[at] = d], s)
  <2> HIDE DEF at
  <2> DEFINE cs == [b.chains EXCEPT ![at] = d]
  <2>1. cs \in Seq(Chains) /\ Upto(cs, k) /\ Text(cs) = Text(b.chains)
    BY <1>1, <1>2, <1>5, PutSame
  <2>2. [b EXCEPT !.chains[at] = d] = [b EXCEPT !.chains = cs]
    OBVIOUS
  <2> HIDE DEF cs
  <2>3. Settled([b EXCEPT !.chains = cs], s)
    BY <2>1, <1>1, <1>2, KeptSound
  <2> QED
    BY <2>2, <2>3
<1>6. ASSUME at \in 1..Len(b.chains)
      PROVE  /\ Align(c) \in Chains /\ Align(c).data = c.data
             /\ wide \in Chains /\ wide.data = c.data
  <2>1. c \in Chains
    BY <1>1, <1>6
  <2> HIDE DEF c
  <2>2. c.data \in Seq(Int) /\ Len(c.data) \in Nat /\ Off(c) = Len(c.data)
    BY <2>1, ChainIs DEF Off
  <2> DEFINE size == Off(c) + n
             e == ChainNew(size)
  <2>3. size \in Int /\ size >= Len(c.data)
    BY <2>2
  <2>4. e \in Chains /\ e.cap >= size /\ e.skip = 0 /\ e.data = <<>>
    <3> HIDE DEF size
    <3> QED
      BY <2>3, NewChain
  <2>5. Len(c.data) <= Space(e)
    <3> HIDE DEF size, e
    <3>1. e.cap \in Nat /\ Len(e.data) = 0
      BY <2>4, ChainIs
    <3> QED
      BY <3>1, <2>2, <2>3, <2>4 DEF Space, Off
  <2>6. Filled(e, c.data) \in Chains /\ Filled(e, c.data).data = e.data \o c.data
    <3> HIDE DEF e
    <3> QED
      BY <2>2, <2>4, <2>5, FilledIs
  <2>7. e.data \o c.data = c.data
    BY <2>2, <2>4, ConcatEmptySeq
  <2> QED
    BY <2>1, <2>6, <2>7, AlignIs
<1>7. CASE at > Len(b.chains)
  <2>1. ExpandSingle(b, n, mem) = Insert
    BY <1>7 DEF ExpandSingle
  <2> QED
    BY <2>1, <1>3
<1>8. CASE ~(at > Len(b.chains))
  <2>1. at \in 1..Len(b.chains)
    <3> HIDE DEF at
    <3> QED
      BY <1>1, <1>4, <1>8
  <2>2. /\ Settled([b EXCEPT !.chains[at] = Align(c)], s)
        /\ Settled([b EXCEPT !.chains[at] = wide], s)
    <3> HIDE DEF at, c, wide
    <3> QED
      BY <2>1, <1>5, <1>6
  <2>3. \/ ExpandSingle(b, n, mem) = Insert
        \/ ExpandSingle(b, n, mem) = b
        \/ ExpandSingle(b, n, mem) = [b EXCEPT !.chains[at] = Align(c)]
        \/ ExpandSingle(b, n, mem) = [b EXCEPT !.chains[at] = wide]
    BY Zenon DEF ExpandSingle
  <2> QED
    BY <2>2, <2>3, <1>3
<1> QED
  BY <1>7, <1>8

-----------------------------------------------------------------------------
(* Lists that are joined.                                                  *)

\* One of which every chain has data, and another.
LEMMA UptoJoin ==
  ASSUME NEW cs \in Seq(Chains), NEW ds \in Seq(Chains), NEW k,
         Upto(cs, Len(cs)), Upto(ds, k)
  PROVE  /\ cs \o ds \in Seq(Chains) /\ Upto(cs \o ds, Len(cs) + k)
         /\ Text(cs \o ds) = Text(cs) \o Text(ds)
<1> DEFINE m == Len(cs)
           n == Len(ds)
           es == cs \o ds
<1>1. /\ es \in Seq(Chains) /\ Len(es) = m + n /\ m \in Nat /\ n \in Nat
      /\ \A i \in 1..m + n : es[i] = IF i <= m THEN cs[i] ELSE ds[i - m]
  BY ConcatProperties, LenProperties
<1>2. k \in 0..n
  BY DEF Upto
<1> HIDE DEF es
<1>3. ASSUME NEW i \in 1..m + n PROVE es[i].data # <<>> <=> i <= m + k
  <2>1. CASE i <= m
    <3>1. i \in 1..m /\ i <= m + k
      BY <2>1, <1>1, <1>2
    <3>2. cs[i].data # <<>>
      BY <3>1, <2>1 DEF Upto
    <3> QED
      BY <3>1, <3>2, <2>1, <1>1
  <2>2. CASE ~(i <= m)
    <3>1. i - m \in 1..n /\ (i <= m + k <=> i - m <= k)
      BY <2>2, <1>1, <1>2
    <3>2. ds[i - m].data # <<>> <=> i - m <= k
      BY <3>1 DEF Upto
    <3> QED
      BY <3>1, <3>2, <2>2, <1>1
  <2> QED
    BY <2>1, <2>2
<1>4. m + k \in 0..m + n
  BY <1>1, <1>2
<1>5. Upto(es, m + k)
  BY <1>1, <1>3, <1>4 DEF Upto
<1> QED
  BY <1>1, <1>5, TextJoin DEF es

LEMMA UptoOne ==
  ASSUME NEW c \in Chains, c.data # <<>>, NEW ds \in Seq(Chains), NEW k, Upto(ds, k)
  PROVE  /\ <<c>> \o ds \in Seq(Chains) /\ Upto(<<c>> \o ds, 1 + k)
         /\ Text(<<c>> \o ds) = c.data \o Text(ds)
<1>1. <<c>> \in Seq(Chains) /\ Len(<<c>>) = 1 /\ Text(<<c>>) = c.data /\ <<c>>[1] = c
  BY TextOne
<1> DEFINE cs == <<c>>
<1> HIDE DEF cs
<1>2. cs \in Seq(Chains) /\ Len(cs) = 1 /\ Text(cs) = c.data /\ cs[1] = c
  BY <1>1 DEF cs
<1>3. Upto(cs, Len(cs))
  BY <1>2 DEF Upto
<1>4. cs \o ds \in Seq(Chains) /\ Upto(cs \o ds, Len(cs) + k) /\ Text(cs \o ds) = Text(cs) \o Text(ds)
  BY <1>2, <1>3, UptoJoin
<1> QED
  BY <1>2, <1>4 DEF cs

\* Bytes before those of the first chain.
LEMMA FirstPut ==
  ASSUME NEW cs \in Seq(Chains), NEW k, Upto(cs, k), NEW i \in 1..Len(cs), i = 1, NEW part \in Seq(Int),
         NEW c \in Chains, c.data = part \o cs[i].data, c.data # <<>>
  PROVE  /\ [cs EXCEPT ![i] = c] \in Seq(Chains)
         /\ Upto([cs EXCEPT ![i] = c], Mark(k))
         /\ Text([cs EXCEPT ![i] = c]) = part \o Text(cs)
<1> DEFINE ds == [cs EXCEPT ![i] = c]
           t == Text(SubSeq(cs, 1, i - 1))
           u == cs[i].data
           v == Text(Drop(cs, i))
<1>1. /\ ds \in Seq(Chains) /\ Len(ds) = Len(cs)
      /\ \A j \in 1..Len(cs) : ds[j] = IF j = i THEN c ELSE cs[j]
      /\ Text(ds) = (t \o c.data) \o v
  <2>1. /\ ds \in Seq(Chains) /\ Len(ds) = Len(cs)
        /\ \A j \in 1..Len(cs) : ds[j] = IF j = i THEN c ELSE cs[j]
    BY TextPut
  <2>2. Text(ds) = (t \o c.data) \o v
    BY TextPut, Zenon
  <2> QED
    BY <2>1, <2>2
<1>2. SubSeq(cs, 1, i - 1) \in Seq(Chains) /\ Drop(cs, i) \in Seq(Chains) /\ Text(cs) = (t \o u) \o v
  BY TextAt
<1>3. u \in Seq(Int) /\ v \in Seq(Int) /\ c.data = part \o u
  BY <1>2, LenProperties, ChainIs, TextTypes
<1>4. t = <<>>
  <2>1. Len(SubSeq(cs, 1, 0)) = 0 /\ SubSeq(cs, 1, 0) \in Seq(Chains)
    BY LenProperties, CutAt
  <2>2. SubSeq(cs, 1, 0) = <<>> /\ i - 1 = 0
    BY <2>1, EmptySeq
  <2>3. SubSeq(cs, 1, i - 1) = <<>>
    BY <2>2
  <2> QED
    BY <2>3, TextNothing
<1> HIDE DEF t, u, v, ds
<1>5. Text(cs) = u \o v /\ Text(ds) = (part \o u) \o v
  <2>1. t \o u = u /\ part \o u \in Seq(Int)
    BY <1>3, <1>4, ConcatEmptySeq, ConcatProperties
  <2>2. t \o c.data = c.data
    BY <2>1, <1>3, <1>4, ConcatEmptySeq
  <2> QED
    BY <2>1, <2>2, <1>1, <1>2, <1>3
<1>6. Text(ds) = part \o Text(cs)
  <2>1. (part \o u) \o v = part \o (u \o v)
    BY <1>3, Associates
  <2> QED
    BY <2>1, <1>5
<1>7. Upto(ds, Mark(k))
  <2>1. k \in 0..Len(cs) /\ Len(cs) \in Nat
    BY LenProperties DEF Upto
  <2>2. Mark(k) \in 0..Len(ds) /\ 1 <= Mark(k)
    BY <2>1, <1>1 DEF Mark
  <2>3. ASSUME NEW j \in 1..Len(ds) PROVE ds[j].data # <<>> <=> j <= Mark(k)
    <3>1. CASE j = 1
      BY <3>1, <2>2, <1>1
    <3>2. CASE j # 1
      <4>1. ds[j] = cs[j] /\ j \in 1..Len(cs)
        BY <3>2, <1>1
      <4>2. cs[j].data # <<>> <=> j <= k
        BY <4>1 DEF Upto
      <4>3. j <= k <=> j <= Mark(k)
        BY <3>2, <2>1 DEF Mark
      <4> QED
        BY <4>1, <4>2, <4>3
    <3> QED
      BY <3>1, <3>2
  <2> QED
    BY <2>2, <2>3 DEF Upto
<1> QED
  BY <1>1, <1>6, <1>7 DEF ds

\* evbuffer_prepend(), when there is memory.
LEMMA PrependWorks ==
  ASSUME NEW b, NEW s, Settled(b, s), NEW data \in Seq(Int), data # <<>>
  PROVE  Settled(Prepend(b, data, TRUE), data \o s)
<1> DEFINE n == Len(data)
           begun == Begun(b, n)
           cs == begun.chains
           h == Head(cs)
           room == Room(h)
           fits == Min({n, room})
           part == Drop(data, n - fits)
           first == [h EXCEPT !.skip = room - fits, !.data = part \o @]
           some == Counted([begun EXCEPT !.chains[1] = first], fits)
           rest == n - fits
           new == ChainNew(rest)
           front == SubSeq(data, 1, rest)
           tmp == [new EXCEPT !.skip = new.cap - rest, !.data = front]
           all == Counted([some EXCEPT !.chains = <<tmp>> \o @, !.with = @ + 1], rest)
<1>1. n \in Nat /\ n >= 1 /\ n \in Int
  <2>1. n \in Nat /\ n # 0
    BY LenProperties, EmptySeq
  <2> HIDE DEF n
  <2> QED
    BY <2>1
<1>2. Sound(b, s)
  BY DEF Settled
<1>3. /\ Sound(begun, s) /\ begun.with \in 1..Len(cs)
      /\ begun \in Buffer /\ cs \in Seq(Chains) /\ Len(cs) \in Nat
      /\ begun.with \in Int /\ begun.total \in Int
      /\ begun.added \in Int /\ begun.deleted \in Int /\ begun.told \in Int
      /\ s \in Seq(Int) /\ Text(cs) = s /\ begun.total = Len(s) /\ Len(s) \in Nat
      /\ begun.told + begun.added - begun.deleted = begun.total
      /\ \E k : Upto(cs, k) /\ begun.with = Mark(k)
  <2> HIDE DEF n
  <2>1. Sound(Begun(b, n), s) /\ Begun(b, n).with \in 1..Len(Begun(b, n).chains)
    BY <1>1, <1>2, BegunIs
  <2>2. Sound(begun, s) /\ begun.with \in 1..Len(begun.chains)
    BY <2>1
  <2> HIDE DEF begun
  <2> QED
    BY <2>2, SoundIs
<1> HIDE DEF begun
<1>4. PICK k : Upto(cs, k) /\ begun.with = Mark(k)
  BY <1>3
<1>5. 1 \in 1..Len(cs) /\ h = cs[1] /\ h \in Chains
  <2>1. 1 \in 1..Len(cs)
    BY <1>3
  <2> HIDE DEF cs
  <2>2. cs # <<>>
    BY <2>1, EmptySeq
  <2> QED
    BY <2>1, <2>2, <1>3, HeadTailProperties
<1> HIDE DEF h, cs
<1>6. /\ h \in [cap : Nat, skip : Nat, data : Seq(Int)]
      /\ h.cap \in Nat /\ h.skip \in Nat /\ h.data \in Seq(Int) /\ Len(h.data) \in Nat
      /\ h.cap >= 1 /\ h.skip + Len(h.data) <= h.cap /\ (h.data = <<>> => h.skip = 0)
  BY <1>5, ChainIs
<1>7. /\ room \in Int /\ room >= 0
      /\ h.data = <<>> => room = h.cap
      /\ h.data # <<>> => room = h.skip
  BY <1>6 DEF Room, IsEmpty
<1> HIDE DEF room
<1>8. /\ fits \in 0..n /\ fits <= room /\ rest \in 0..n /\ rest = n - fits /\ n - rest = fits
      /\ room >= 1 => fits >= 1
  <2>1. fits = IF n <= room THEN n ELSE room
    BY <1>1, <1>7, LargerOf
  <2> HIDE DEF n, fits
  <2> QED
    BY <2>1, <1>1, <1>7
<1> HIDE DEF fits
<1>9. /\ part \in Seq(Int) /\ Len(part) = fits
      /\ front \in Seq(Int) /\ Len(front) = rest /\ front \o part = data
  <2>1. rest \in 0..Len(data)
    BY <1>8
  <2>2. part = Drop(data, rest)
    OBVIOUS
  <2> HIDE DEF rest, part
  <2>3. /\ Drop(data, rest) \in Seq(Int) /\ Len(Drop(data, rest)) = Len(data) - rest
        /\ SubSeq(data, 1, rest) \in Seq(Int) /\ Len(SubSeq(data, 1, rest)) = rest
        /\ SubSeq(data, 1, rest) \o Drop(data, rest) = data
    BY <2>1, CutAt
  <2> QED
    BY <2>2, <2>3, <1>8
<1> HIDE DEF part, front, rest
<1>10. first \in Chains /\ first.data = part \o h.data /\ first.data # <<>>
  <2> DEFINE u == part \o h.data
             v == room - fits
  <2>1. u \in Seq(Int) /\ Len(u) = fits + Len(h.data)
    BY <1>6, <1>9, ConcatProperties
  <2>2. v \in Nat /\ v + fits = room
    <3> HIDE DEF n
    <3> QED
      BY <1>1, <1>7, <1>8
  <2>3. first = [h EXCEPT !.skip = v, !.data = u]
    BY <1>6
  <2> HIDE DEF first, u, v
  <2>4. /\ first \in [cap : Nat, skip : Nat, data : Seq(Int)]
        /\ first.cap = h.cap /\ first.skip = v /\ first.data = u
    BY <2>1, <2>2, <2>3, <1>6
  <2>5. u # <<>> /\ v + Len(u) <= h.cap
    <3>1. CASE h.data = <<>>
      <4>1. Len(h.data) = 0 /\ room = h.cap /\ fits >= 1
        BY <3>1, <1>6, <1>7, <1>8
      <4>2. Len(u) # 0
        BY <4>1, <2>1, <1>8
      <4> QED
        BY <4>1, <4>2, <2>1, <2>2, <1>6, <1>8
    <3>2. CASE h.data # <<>>
      <4>1. Len(h.data) # 0 /\ room = h.skip
        BY <3>2, <1>6, <1>7, EmptySeq
      <4>2. Len(u) # 0
        BY <4>1, <2>1, <1>6, <1>8
      <4> QED
        BY <4>1, <4>2, <2>1, <2>2, <1>6, <1>8
    <3> QED
      BY <3>1, <3>2
  <2> QED
    BY <2>4, <2>5, <1>6 DEF Chains, u
<1> DEFINE ds == [cs EXCEPT ![1] = first]
           t == part \o s
           l == Mark(k)
<1>11. ds \in Seq(Chains) /\ Upto(ds, l) /\ Text(ds) = t
  <2> DEFINE i == 1
  <2>1. i \in 1..Len(cs) /\ i = 1 /\ first.data = part \o cs[i].data
    BY <1>5, <1>10
  <2> HIDE DEF i, first
  <2>2. /\ [cs EXCEPT ![i] = first] \in Seq(Chains)
        /\ Upto([cs EXCEPT ![i] = first], Mark(k))
        /\ Text([cs EXCEPT ![i] = first]) = part \o Text(cs)
    BY <2>1, <1>3, <1>4, <1>9, <1>10, FirstPut
  <2> QED
    BY <2>1, <2>2, <1>3
<1>12. t \in Seq(Int) /\ Len(t) = begun.total + fits
  <2>1. t \in Seq(Int) /\ Len(t) = fits + Len(s)
    BY <1>3, <1>9, ConcatProperties
  <2> QED
    BY <2>1, <1>3, <1>8
<1>13. l \in Nat /\ l >= 1 /\ Mark(l) = l /\ begun.with = l /\ Mark(1 + l) = l + 1
  <2>1. k \in Nat
    BY <1>3, <1>4 DEF Upto
  <2>2. l \in Nat /\ l >= 1 /\ Mark(l) = l
    BY <2>1 DEF Mark
  <2>3. begun.with = l
    BY <1>4
  <2> HIDE DEF l
  <2>4. Mark(1 + l) = l + 1
    BY <2>2 DEF Mark
  <2> QED
    BY <2>2, <2>3, <2>4
<1>14. some = [begun EXCEPT !.chains = ds, !.with = l, !.total = begun.total + fits,
                            !.added = begun.added + fits, !.deleted = begun.deleted]
  <2>1. [begun EXCEPT !.chains[1] = first] = [begun EXCEPT !.chains = ds]
    BY DEF cs
  <2> HIDE DEF ds, l
  <2>2. Counted([begun EXCEPT !.chains = ds], fits)
          = [begun EXCEPT !.chains = ds, !.with = l, !.total = begun.total + fits,
                          !.added = begun.added + fits, !.deleted = begun.deleted]
    BY <1>3, <1>13 DEF Counted, Buffer
  <2> QED
    BY <2>1, <2>2
<1>15. /\ fits \in Int /\ rest \in Int /\ fits + rest = n
  BY <1>1, <1>8
<1> HIDE DEF some, ds, t, l, first
<1>16. Sound(some, t)
  <2>1. /\ begun.told + (begun.added + fits) - begun.deleted = begun.total + fits
        /\ begun.total + fits \in Int /\ begun.added + fits \in Int
    <3>1. /\ begun.added \in Int /\ begun.deleted \in Int /\ begun.told \in Int
          /\ begun.total \in Int /\ fits \in Int
          /\ begun.told + begun.added - begun.deleted = begun.total
      BY <1>3, <1>15
    <3> QED
      BY ONLY <3>1
  <2>2. Len(Text(ds)) = begun.total + fits /\ l \in Int /\ l = Mark(l)
    BY <1>11, <1>12, <1>13
  <2>3. Sound([begun EXCEPT !.chains = ds, !.with = l, !.total = begun.total + fits,
                            !.added = begun.added + fits, !.deleted = begun.deleted], Text(ds))
    BY <2>1, <2>2, <1>3, <1>11, UpdatedSound
  <2> QED
    BY <2>3, <1>11, <1>14
<1>17. CASE rest = 0
  <2>1. Prepend(b, data, TRUE) = Invoke(some)
    BY <1>17 DEF Prepend, some, first, part, rest, fits, room, h, cs, begun
  <2>2. part = data
    <3>1. front = <<>>
      BY <1>9, <1>17, EmptySeq
    <3> QED
      BY <3>1, <1>9, ConcatEmptySeq
  <2> QED
    BY <2>1, <2>2, <1>16, Invoked DEF t
<1>18. CASE rest # 0
  <2>1. Prepend(b, data, TRUE) = Invoke(all)
    BY <1>18 DEF Prepend, some, first, part, rest, fits, room, h, cs, begun, front
  <2>2. new \in Chains /\ new.cap >= rest /\ new.skip = 0 /\ new.data = <<>>
    BY <1>15, NewChain
  <2>3. new \in [cap : Nat, skip : Nat, data : Seq(Int)] /\ new.cap \in Nat
    BY <2>2, ChainIs
  <2> DEFINE v == new.cap - rest
  <2>4. v \in Nat /\ v + rest = new.cap
    <3> HIDE DEF new
    <3> QED
      BY <2>2, <2>3, <1>8
  <2>5. tmp = [new EXCEPT !.skip = v, !.data = front]
    OBVIOUS
  <2> HIDE DEF tmp, v, new
  <2>6. tmp \in Chains /\ tmp.data = front /\ front # <<>>
    <3>1. /\ tmp \in [cap : Nat, skip : Nat, data : Seq(Int)]
          /\ tmp.cap = new.cap /\ tmp.skip = v /\ tmp.data = front
      BY <2>3, <2>4, <2>5, <1>9
    <3>2. front # <<>>
      <4>1. Len(front) # 0
        BY <1>9, <1>18
      <4> QED
        BY <4>1
    <3>3. tmp.skip + Len(tmp.data) <= tmp.cap /\ tmp.cap >= 1
      <4>1. tmp.skip = v /\ Len(tmp.data) = rest /\ tmp.cap = new.cap
        BY <3>1, <1>9
      <4>2. /\ v \in Nat /\ v + rest = new.cap /\ new.cap >= rest /\ new.cap \in Nat
            /\ rest \in Nat /\ rest # 0
        BY <2>2, <2>3, <2>4, <1>1, <1>8, <1>18
      <4> HIDE DEF rest
      <4>3. new.cap >= 1
        BY <4>2
      <4> QED
        BY <4>1, <4>2, <4>3
    <3> QED
      BY <3>1, <3>2, <3>3 DEF Chains
  <2> DEFINE es == <<tmp>> \o ds
  <2>7. es \in Seq(Chains) /\ Upto(es, 1 + l) /\ Text(es) = front \o t
    BY <2>6, <1>11, UptoOne
  <2>8. front \o t = data \o s
    <3>1. (front \o part) \o s = front \o (part \o s)
      BY <1>3, <1>9, Associates
    <3> QED
      BY <3>1, <1>9 DEF t
  <2>9. /\ some \in Buffer /\ some.total \in Int /\ some.added \in Int /\ some.deleted \in Int
        /\ some.told \in Int /\ some.told + some.added - some.deleted = some.total
        /\ some.total = Len(t)
    BY <1>16, SoundIs
  <2>10. some.chains = ds /\ some.with = l
    BY <1>3, <1>14 DEF Buffer
  <2> HIDE DEF es
  <2> DEFINE done == [some EXCEPT !.chains = es, !.with = l + 1, !.total = some.total + rest,
                                  !.added = some.added + rest, !.deleted = some.deleted]
  <2>11. all = done
    <3>1. [some EXCEPT !.chains = <<tmp>> \o @, !.with = @ + 1]
            = [some EXCEPT !.chains = es, !.with = l + 1]
      BY <2>9, <2>10 DEF Buffer, es
    <3>2. Counted([some EXCEPT !.chains = es, !.with = l + 1], rest) = done
      BY <2>9 DEF Counted, Buffer
    <3> QED
      BY <3>1, <3>2
  <2>12. /\ some.told + (some.added + rest) - some.deleted = some.total + rest
         /\ some.total + rest \in Int /\ some.added + rest \in Int
    <3>1. /\ some.added \in Int /\ some.deleted \in Int /\ some.told \in Int /\ some.total \in Int
          /\ some.told + some.added - some.deleted = some.total /\ rest \in Int
      BY <2>9, <1>15
    <3> QED
      BY ONLY <3>1
  <2>13. Len(Text(es)) = some.total + rest
    <3>1. Len(front \o t) = Len(front) + Len(t)
      BY <1>9, <1>12, ConcatProperties
    <3> QED
      BY <3>1, <2>7, <2>9, <1>9, <1>15
  <2>14. Sound(done, Text(es))
    <3>1. l + 1 \in Int /\ l + 1 = Mark(1 + l)
      BY <1>13
    <3> QED
      BY <3>1, <2>7, <2>9, <2>12, <2>13, UpdatedSound
  <2> HIDE DEF done, all
  <2> QED
    BY <2>1, <2>7, <2>8, <2>11, <2>14, Invoked
<1> QED
  BY <1>17, <1>18

-----------------------------------------------------------------------------
(* evbuffer_pullup().                                                      *)

LEMMA UptoDrop ==
  ASSUME NEW cs \in Seq(Chains), NEW k, Upto(cs, k), NEW j \in 0..k
  PROVE  /\ Drop(cs, j) \in Seq(Chains) /\ Len(Drop(cs, j)) = Len(cs) - j
         /\ Upto(Drop(cs, j), k - j)
         /\ Text(cs) = Text(SubSeq(cs, 1, j)) \o Text(Drop(cs, j))
<1>1. Len(cs) \in Nat /\ k \in 0..Len(cs)
  BY LenProperties DEF Upto
<1>2. j \in 0..Len(cs) /\ j \in Nat
  BY <1>1
<1>3. /\ Drop(cs, j) \in Seq(Chains) /\ Len(Drop(cs, j)) = Len(cs) - j
      /\ \A i \in 1..Len(cs) - j : Drop(cs, j)[i] = cs[j + i]
      /\ SubSeq(cs, 1, j) \in Seq(Chains) /\ SubSeq(cs, 1, j) \o Drop(cs, j) = cs
  BY <1>2, CutAt
<1>4. ASSUME NEW i \in 1..Len(cs) - j PROVE Drop(cs, j)[i].data # <<>> <=> i <= k - j
  <2>1. j + i \in 1..Len(cs) /\ (j + i <= k <=> i <= k - j)
    BY <1>1, <1>2
  <2>2. cs[j + i].data # <<>> <=> j + i <= k
    BY <2>1 DEF Upto
  <2> QED
    BY <2>1, <2>2, <1>3
<1>5. k - j \in 0..Len(cs) - j
  BY <1>1, <1>2
<1>6. Upto(Drop(cs, j), k - j)
  BY <1>3, <1>4, <1>5 DEF Upto
<1>7. Text(SubSeq(cs, 1, j) \o Drop(cs, j)) = Text(SubSeq(cs, 1, j)) \o Text(Drop(cs, j))
  BY <1>3, TextJoin
<1> QED
  BY <1>3, <1>6, <1>7

\* What is left when all bytes, or fewer, have been taken.
Remains(cs, n) == IF Drop(cs, Covered(cs, n)) = <<>> THEN <<>> ELSE Left(cs, n)

LEMMA RemainsIs ==
  ASSUME NEW cs \in Seq(Chains), NEW k, Upto(cs, k), NEW n \in Nat, n <= Len(Text(cs))
  PROVE  /\ Remains(cs, n) \in Seq(Chains) /\ Text(Remains(cs, n)) = Drop(Text(cs), n)
         /\ \/ /\ n < Len(Text(cs)) /\ Covered(cs, n) \in 0..k - 1
               /\ Upto(Remains(cs, n), k - Covered(cs, n))
            \/ /\ n = Len(Text(cs)) /\ Covered(cs, n) = Len(cs) /\ Remains(cs, n) = <<>>
               /\ Upto(Remains(cs, n), 0)
<1> DEFINE g == Covered(cs, n)
<1>1. Len(cs) \in Nat /\ Text(cs) \in Seq(Int) /\ Len(Text(cs)) \in Nat /\ k \in 0..Len(cs)
  BY LenProperties, TextTypes DEF Upto
<1>2. CASE n < Len(Text(cs))
  <2>1. g \in 0..k - 1 /\ g + 1 \in 1..Len(cs)
    BY <1>2, CutIn
  <2>2. /\ Left(cs, n) \in Seq(Chains) /\ Upto(Left(cs, n), k - g)
        /\ Text(Left(cs, n)) = Drop(Text(cs), n)
    BY <1>2, LeftIs
  <2> HIDE DEF g
  <2>3. g \in 0..Len(cs)
    BY <2>1, <1>1
  <2>4. Drop(cs, g) \in Seq(Chains) /\ Len(Drop(cs, g)) = Len(cs) - g
    BY <2>3, CutAt
  <2>5. Drop(cs, g) # <<>>
    <3>1. Len(Drop(cs, g)) # 0
      BY <2>1, <2>3, <2>4, <1>1
    <3> QED
      BY <3>1
  <2>6. Remains(cs, n) = Left(cs, n)
    BY <2>5 DEF Remains, g
  <2> QED
    BY <2>1, <2>2, <2>6, <1>2 DEF g
<1>3. CASE n = Len(Text(cs))
  <2>1. g \in 0..Len(cs) /\ \A j \in 0..Len(cs) : LengthOf(SubSeq(cs, 1, j)) <= n => j <= g
    BY CoveredIs
  <2>2. LengthOf(SubSeq(cs, 1, Len(cs))) = n
    <3>1. SubSeq(cs, 1, Len(cs)) = cs
      BY SubSeqFull
    <3> QED
      BY <3>1, <1>3, LengthIs
  <2> HIDE DEF g
  <2>3. g = Len(cs)
    <3>1. Len(cs) \in 0..Len(cs) /\ n <= n
      BY <1>1
    <3>2. Len(cs) <= g
      BY <3>1, <2>1, <2>2
    <3> QED
      BY <3>2, <2>1, <1>1
  <2>4. Drop(cs, g) = <<>>
    <3>1. Drop(cs, g) \in Seq(Chains) /\ Len(Drop(cs, g)) = Len(cs) - g
      BY <2>1, CutAt
    <3>2. Len(Drop(cs, g)) = 0
      BY <3>1, <2>3, <1>1
    <3> QED
      BY <3>1, <3>2, EmptySeq
  <2>5. Remains(cs, n) = <<>>
    BY <2>4 DEF Remains, g
  <2>6. Drop(Text(cs), n) = <<>>
    BY <1>1, <1>3, DropAll
  <2>7. Upto(<<>>, 0) /\ <<>> \in Seq(Chains)
    BY DEF Upto
  <2> QED
    BY <2>3, <2>5, <2>6, <2>7, <1>3, TextNothing DEF g
<1> QED
  BY <1>1, <1>2, <1>3

\* s is t and then o.
Joined(s, t, o) == s = t \o o

\* What the first n bytes of s, past those of t, take of o.
TakesOf(s, t, o, n) ==
  /\ n - Len(t) \in Nat /\ n - Len(t) >= 1 /\ n - Len(t) <= Len(o)
  /\ n = (n - Len(t)) + Len(t) /\ Drop(s, n) = Drop(o, n - Len(t))
  /\ SubSeq(s, 1, n) \in Seq(Int) /\ Len(SubSeq(s, 1, n)) = n
  /\ SubSeq(s, 1, n) \o Drop(s, n) = s

LEMMA Parts ==
  ASSUME NEW t \in Seq(Int), NEW o \in Seq(Int), NEW s \in Seq(Int), Joined(s, t, o),
         NEW n \in Nat, n <= Len(s), Len(t) < n
  PROVE  TakesOf(s, t, o, n)
<1>1. s = t \o o /\ Len(s) = Len(t) + Len(o) /\ Len(t) \in Nat /\ Len(o) \in Nat
  BY ConcatProperties, LenProperties DEF Joined
<1>2. n \in 0..Len(t) + Len(o) /\ n \in 0..Len(s) /\ n >= Len(t)
  BY <1>1
<1>3. Drop(t \o o, n) = Drop(o, n - Len(t))
  BY <1>2, CutJoined
<1>4. n - Len(t) \in Nat /\ n - Len(t) >= 1 /\ n - Len(t) <= Len(o) /\ n = (n - Len(t)) + Len(t)
  BY <1>1
<1> QED
  <2>1. /\ SubSeq(s, 1, n) \in Seq(Int) /\ Len(SubSeq(s, 1, n)) = n
        /\ SubSeq(s, 1, n) \o Drop(s, n) = s
    BY ONLY <1>2, s \in Seq(Int), CutAt
  <2>2. Drop(s, n) = Drop(o, n - Len(t))
    BY <1>1, <1>3
  <2> QED
    BY ONLY <1>4, <2>1, <2>2 DEF TakesOf

\* A chain takes n bytes from where its data starts.
Takes(c, n) == c.cap - c.skip >= n

\* The buffer, when tmp has taken the place of the first chains, up to last.
PulledInto(b, s, n, tmp, from, left, last) ==
  [b EXCEPT
     !.chains = <<[tmp EXCEPT !.data = SubSeq(s, 1, n)]>> \o left,
     !.with = IF @ \in from + 1..last THEN 1
              ELSE IF @ = last + 1 THEN IF left # <<>> /\ ~IsEmpty(Head(left)) THEN 2 ELSE 1
              ELSE @ - last + 1]

\* tmp is to hold the first n bytes; some it has, the rest is in others.
LEMMA PulledUp ==
  ASSUME NEW b, NEW s, Settled(b, s), NEW n \in 1..Len(s),
         NEW k, Upto(b.chains, k), b.with = Mark(k), NEW from \in 0..k,
         NEW others \in Seq(Chains), Upto(others, k - from),
         Len(others) = Len(b.chains) - from,
         NEW t \in Seq(Int), NEW o \in Seq(Int), Joined(s, t, o), Text(others) = o,
         NEW tmp \in Chains, tmp.data = t, Takes(tmp, n), Len(t) < n,
         NEW need, need = n - Len(t),
         NEW left, left = Remains(others, need),
         NEW last, last = from + Covered(others, need)
  PROVE  Settled(PulledInto(b, s, n, tmp, from, left, last), s)
<1> DEFINE e == [tmp EXCEPT !.data = SubSeq(s, 1, n)]
           ds == <<e>> \o left
           w == IF b.with \in from + 1..last THEN 1
                ELSE IF b.with = last + 1 THEN IF left # <<>> /\ ~IsEmpty(Head(left)) THEN 2 ELSE 1
                ELSE b.with - last + 1
           g == Covered(others, need)
<1>1. /\ b \in Buffer /\ b.chains \in Seq(Chains) /\ Len(b.chains) \in Nat /\ b.with \in Int
      /\ s \in Seq(Int) /\ Len(s) \in Nat /\ b.total = Len(s)
      /\ b.told + b.added - b.deleted = b.total
      /\ b.total \in Int /\ b.added \in Int /\ b.deleted \in Int /\ b.told \in Int
  BY SoundIs DEF Settled
<1>2. /\ tmp \in [cap : Nat, skip : Nat, data : Seq(Int)]
      /\ tmp.cap \in Nat /\ tmp.skip \in Nat /\ t \in Seq(Int) /\ Len(t) \in Nat
  BY ChainIs
<1>3. o \in Seq(Int) /\ Len(o) \in Nat
  BY TextTypes
<1>5. n \in Nat /\ n >= 1 /\ n <= Len(s) /\ n \in 0..Len(s)
  BY <1>1
<1>6. /\ need \in Nat /\ need >= 1 /\ need <= Len(o) /\ need # 0
      /\ Drop(s, n) = Drop(o, need)
      /\ SubSeq(s, 1, n) \in Seq(Int) /\ Len(SubSeq(s, 1, n)) = n
      /\ SubSeq(s, 1, n) \o Drop(s, n) = s
  <2>1. need = n - Len(t) /\ Len(t) < n
    OBVIOUS
  <2>2. /\ n - Len(t) \in Nat /\ n - Len(t) >= 1 /\ n - Len(t) <= Len(o)
        /\ n = (n - Len(t)) + Len(t) /\ Drop(s, n) = Drop(o, n - Len(t))
        /\ SubSeq(s, 1, n) \in Seq(Int) /\ Len(SubSeq(s, 1, n)) = n
        /\ SubSeq(s, 1, n) \o Drop(s, n) = s
    <3>1. /\ t \in Seq(Int) /\ o \in Seq(Int) /\ s \in Seq(Int) /\ Joined(s, t, o)
          /\ n \in Nat /\ n <= Len(s) /\ Len(t) < n
      BY <1>1
    <3> QED
      <4>1. TakesOf(s, t, o, n)
        BY ONLY <3>1, Parts
      <4> QED
        BY ONLY <4>1 DEF TakesOf
  <2>3. need \in Nat /\ need >= 1
    BY <2>1, <2>2, Zenon
  <2>4. need # 0
    BY <2>3
  <2> QED
    BY <2>1, <2>2, <2>3, <2>4, Zenon
<1>7. k \in 0..Len(b.chains) /\ from \in Nat
  BY <1>1 DEF Upto
<1>8. /\ left \in Seq(Chains) /\ Text(left) = Drop(o, need)
      /\ \/ /\ need < Len(o) /\ g \in 0..k - from - 1 /\ Upto(left, k - from - g)
         \/ /\ need = Len(o) /\ g = Len(others) /\ left = <<>> /\ Upto(left, 0)
  <2>1. need \in Nat /\ need <= Len(Text(others))
    BY <1>6
  <2>2. /\ Remains(others, need) \in Seq(Chains)
        /\ Text(Remains(others, need)) = Drop(Text(others), need)
        /\ \/ /\ need < Len(Text(others)) /\ Covered(others, need) \in 0..(k - from) - 1
              /\ Upto(Remains(others, need), (k - from) - Covered(others, need))
           \/ /\ need = Len(Text(others)) /\ Covered(others, need) = Len(others)
              /\ Remains(others, need) = <<>> /\ Upto(Remains(others, need), 0)
    BY <2>1, RemainsIs
  <2> QED
    BY <2>2
<1> HIDE DEF g
<1>11. e \in Chains /\ e.data = SubSeq(s, 1, n) /\ e.data # <<>>
  <2> DEFINE u == SubSeq(s, 1, n)
  <2> HIDE DEF u
  <2>1. u \in Seq(Int) /\ Len(u) = n
    BY <1>6 DEF u
  <2> DEFINE f == [tmp EXCEPT !.data = u]
  <2>2. /\ f \in [cap : Nat, skip : Nat, data : Seq(Int)]
        /\ f.cap = tmp.cap /\ f.skip = tmp.skip /\ f.data = u
    BY <2>1, <1>2
  <2> HIDE DEF f
  <2>3. u # <<>>
    <3>1. Len(u) # 0
      BY <2>1, <1>5
    <3> QED
      BY <3>1
  <2>4. f.skip + Len(f.data) <= f.cap /\ f.cap >= 1
    <3>1. tmp.cap - tmp.skip >= n
      BY DEF Takes
    <3> QED
      BY <3>1, <2>1, <2>2, <1>2, <1>5
  <2>5. f \in Chains
    BY <2>2, <2>3, <2>4 DEF Chains
  <2> QED
    BY <2>2, <2>3, <2>5 DEF f, u
<1> HIDE DEF e
<1> DEFINE l == IF need < Len(o) THEN k - from - g ELSE 0
<1>12. Upto(left, l)
  <2>1. CASE need < Len(o)
    <3>1. need # Len(o)
      <4> DEFINE lo == Len(o)
      <4>1. lo \in Nat /\ need < lo
        BY <2>1, <1>3
      <4> HIDE DEF lo
      <4>2. need # lo
        BY <4>1, <1>6
      <4> QED
        BY <4>2 DEF lo
    <3>2. l = k - from - g
      BY <2>1
    <3> QED
      BY <3>1, <3>2, <1>8
  <2>2. CASE ~(need < Len(o))
    <3>1. l = 0
      BY <2>2
    <3> QED
      BY <2>2, <3>1, <1>8
  <2> QED
    BY <2>1, <2>2
<1>13. ds \in Seq(Chains) /\ Upto(ds, 1 + l) /\ Text(ds) = s
  <2> HIDE DEF l
  <2>1. ds \in Seq(Chains) /\ Upto(ds, 1 + l) /\ Text(ds) = e.data \o Text(left)
    BY <1>8, <1>11, <1>12, UptoOne
  <2> QED
    BY <2>1, <1>8, <1>6, <1>6, <1>11
<1>14. k >= 1 /\ b.with = k
  <2>1. k # 0
    <3>1. ASSUME k = 0 PROVE FALSE
      <4>1. from = 0 /\ Upto(others, 0)
        BY <3>1, <1>7
      <4>2. Len(o) = 0
        BY <4>1, UptoNone
      <4> QED
        BY <4>2, <1>6
    <3> QED
      BY <3>1
  <2> QED
    BY <2>1, <1>7 DEF Mark
<1>15. w = Mark(1 + l)
  <2>1. CASE need < Len(o)
    <3>1. /\ g \in 0..k - from - 1 /\ Upto(left, k - from - g) /\ left \in Seq(Chains)
          /\ l = k - from - g /\ last = from + g /\ b.with = k
      BY <2>1, <1>3, <1>8, <1>14 DEF g
    <3>2. g \in Nat /\ last \in Nat /\ k \in Nat /\ last + 1 <= k /\ l = k - last /\ l \in Nat /\ l >= 1
      <4>1. k \in Nat /\ from \in Nat
        BY <1>1, <1>7
      <4>2. g \in 0..k - from - 1 /\ l = k - from - g /\ last = from + g
        BY <3>1
      <4> HIDE DEF l
      <4>3. g \in Nat /\ g <= k - from - 1
        BY <4>1, <4>2
      <4> QED
        BY ONLY <4>1, <4>2, <4>3
    <3>3. left # <<>> /\ ~IsEmpty(Head(left))
      <4>1. l \in 0..Len(left) /\ Len(left) \in Nat
        BY <3>1, LenProperties, <1>12 DEF Upto
      <4>2. 1 \in 1..Len(left) /\ 1 <= l
        <5> HIDE DEF l
        <5> QED
          BY <4>1, <3>2
      <4>3. left[1].data # <<>>
        <5> HIDE DEF l
        <5> QED
          BY <4>2, <1>12 DEF Upto
      <4>4. left # <<>>
        BY <4>2, EmptySeq
      <4> QED
        BY <4>3, <4>4, <3>1, HeadTailProperties DEF IsEmpty
    <3>4. w = k - last + 1
      <4>1. ~(k \in from + 1..last)
        BY <3>2
      <4>2. CASE k = last + 1
        <5>1. w = 2
          BY <4>1, <4>2, <3>1, <3>3
        <5>2. k - last + 1 = 2
          <6>1. k = last + 1 /\ last \in Int
            BY <4>2, <3>2
          <6> QED
            BY ONLY <6>1
        <5> QED
          BY <5>1, <5>2
      <4>3. CASE k # last + 1
        BY <4>1, <4>3, <3>1
      <4> QED
        BY <4>2, <4>3
    <3> HIDE DEF w, l
    <3> QED
      BY <3>2, <3>4 DEF Mark
  <2>2. CASE ~(need < Len(o))
    <3>1. need = Len(o) /\ g = Len(others) /\ l = 0 /\ last = from + g /\ b.with = k
      BY <2>2, <1>3, <1>6, <1>8, <1>14 DEF g
    <3>2. last = Len(b.chains)
      <4>1. Len(others) = Len(b.chains) - from /\ last = from + Len(others)
        BY <3>1
      <4> QED
        <5> DEFINE m == Len(b.chains)
        <5>1. m \in Nat /\ from \in Nat /\ last = from + (m - from)
          BY <4>1, <1>1, <1>7
        <5>2. last = m
          BY ONLY <5>1
        <5> QED
          BY <5>2
    <3>3. k # from
      <4>1. ASSUME k = from PROVE FALSE
        <5>1. Upto(others, 0)
          <6>1. k - from = 0
            BY <4>1, <1>7
          <6> QED
            BY <6>1
        <5>2. Len(o) = 0
          BY <5>1, UptoNone
        <5> QED
          BY <5>2, <1>6
      <4> QED
        BY <4>1
    <3>4. k \in from + 1..last
      <4> DEFINE m == Len(b.chains)
      <4>1. m \in Nat /\ k \in 0..m /\ from \in 0..k /\ k # from /\ last = m
        BY <3>2, <3>3, <1>1, <1>7
      <4> QED
        BY ONLY <4>1
    <3>5. w = 1
      BY <3>1, <3>4
    <3> HIDE DEF w, l
    <3> QED
      BY <3>1, <3>5 DEF Mark
  <2> QED
    BY <2>1, <2>2
<1>16. PulledInto(b, s, n, tmp, from, left, last)
         = [b EXCEPT !.chains = ds, !.with = w, !.total = b.total,
                     !.added = b.added, !.deleted = b.deleted]
  <2>1. PulledInto(b, s, n, tmp, from, left, last)
         = [b EXCEPT !.chains = ds, !.with = w]
    BY <1>1 DEF Buffer, e, PulledInto
  <2> HIDE DEF ds, w
  <2> QED
    BY <2>1, <1>1 DEF Buffer
<1> HIDE DEF ds, w
<1> DEFINE r == [b EXCEPT !.chains = ds, !.with = w, !.total = b.total,
                          !.added = b.added, !.deleted = b.deleted]
<1>17. Sound(r, s)
  <2>1. w \in Int
    <3>1. l \in Int
      <4>1. l \in 0..Len(left)
        <5> HIDE DEF l
        <5> QED
          BY <1>12 DEF Upto
      <4> HIDE DEF l
      <4> QED
        BY <4>1
    <3> HIDE DEF l
    <3> QED
      BY <3>1, <1>15 DEF Mark
  <2> DEFINE m == 1 + l
  <2>2. Upto(ds, m) /\ w = Mark(m) /\ b.total = Len(Text(ds))
    BY <1>1, <1>13, <1>15
  <2> HIDE DEF m
  <2>3. Sound(r, Text(ds))
    BY <2>1, <2>2, <1>1, <1>13, UpdatedSound
  <2> QED
    BY <2>3, <1>13
<1>18. r.added = b.added /\ r.deleted = b.deleted
  BY <1>1 DEF Buffer
<1> HIDE DEF r
<1>19. Settled(r, s)
  BY <1>17, <1>18 DEF Settled
<1> QED
  BY <1>16, <1>19 DEF r

LEMMA PullupWorks ==
  ASSUME NEW b, NEW s, Settled(b, s), NEW n \in 1..Len(s), NEW mem \in BOOLEAN
  PROVE  Settled(Pullup(b, n, mem), s)
<1> DEFINE cs == b.chains
           first == Head(cs)
           inPlace == first.cap - first.skip >= n
           tmp == IF inPlace THEN first ELSE ChainNew(n)
           from == IF inPlace THEN 1 ELSE 0
           others == Drop(cs, from)
           need == n - Off(tmp)
           g == Covered(others, need)
           left == Remains(others, need)
           last == from + g
           stays == n = 0 \/ n > b.total \/ Off(first) >= n \/ (~inPlace /\ ~mem)
           r == PulledInto(b, s, n, tmp, from, left, last)
<1>1. /\ cs \in Seq(Chains) /\ Len(cs) \in Nat
      /\ s \in Seq(Int) /\ Len(s) \in Nat /\ Text(cs) = s /\ b.total = Len(s)
      /\ \E k : Upto(cs, k) /\ b.with = Mark(k)
  BY SoundIs DEF Settled
<1>2. PICK k : Upto(cs, k) /\ b.with = Mark(k)
  BY <1>1
<1>3. n \in Nat /\ n >= 1 /\ n <= Len(s) /\ n \in Int
  BY <1>1
<1>4. k \in 0..Len(cs) /\ k >= 1
  <2>1. k \in 0..Len(cs)
    BY <1>2 DEF Upto
  <2>2. Len(s) = 0 <=> k = 0
    BY <1>1, <1>2, UptoNone
  <2> QED
    BY <2>1, <2>2, <1>1, <1>3
<1>5. Content(b) = s
  BY <1>1 DEF Content, Text
<1>6. CASE stays
  <2>1. Pullup(b, n, mem) = b
    BY <1>6 DEF Pullup
  <2> QED
    BY <2>1
<1>7. CASE ~stays
  <2>1. Pullup(b, n, mem) = r
    BY <1>5, <1>7 DEF Pullup, Remains, Left, PulledInto
  <2>2. cs # <<>>
    BY <1>1, <1>4
  <2>3. first \in Chains /\ first = cs[1]
    <3> HIDE DEF cs
    <3> QED
      BY <2>2, <1>1, HeadTailProperties
  <2>4. ASSUME NEW f \in 0..k, from = f, NEW t \in Seq(Int), NEW c \in Chains, tmp = c,
               c.data = t, Takes(c, n), Len(t) < n, Joined(s, t, Text(others))
        PROVE  Settled(r, s)
    <3> DEFINE o == Text(others)
    <3>1. /\ others \in Seq(Chains) /\ Len(others) = Len(cs) - f /\ Upto(others, k - f)
      <4>1. others = Drop(cs, f)
        BY <2>4
      <4> HIDE DEF others, cs
      <4> QED
        BY <4>1, <1>1, <1>2, UptoDrop
    <3>2. o \in Seq(Int)
      <4> HIDE DEF others
      <4> QED
        BY <3>1, TextTypes
    <3>3. need = n - Len(t)
      BY <2>4 DEF Off
    <3>4. last = f + Covered(others, need)
      BY <2>4
    <3>5. left = Remains(others, need) /\ Joined(s, t, o) /\ Text(others) = o
      BY <2>4
    <3> HIDE DEF others, o, need, left, last
    <3>6. Settled(PulledInto(b, s, n, c, f, left, last), s)
      <4>1. /\ Settled(b, s) /\ n \in 1..Len(s) /\ Upto(b.chains, k) /\ b.with = Mark(k)
            /\ f \in 0..k /\ others \in Seq(Chains) /\ Upto(others, k - f)
            /\ Len(others) = Len(b.chains) - f
            /\ t \in Seq(Int) /\ o \in Seq(Int) /\ Joined(s, t, o) /\ Text(others) = o
            /\ c \in Chains /\ c.data = t /\ Takes(c, n) /\ Len(t) < n
            /\ need = n - Len(t) /\ left = Remains(others, need)
            /\ last = f + Covered(others, need)
        BY <2>4, <3>1, <3>2, <3>3, <3>4, <3>5, <1>2
      <4> QED
        BY ONLY <4>1, PulledUp
    <3>7. r = PulledInto(b, s, n, c, f, left, last)
      <4> HIDE DEF tmp, from
      <4> QED
        BY <2>4
    <3> QED
      BY <3>6, <3>7
  <2>5. CASE inPlace
    <3>1. from = 1 /\ 1 \in 0..k /\ tmp = first
      BY <2>5, <1>1, <1>4
    <3> DEFINE t == first.data
    <3>2. t \in Seq(Int)
      BY <2>3, ChainIs
    <3>3. Takes(first, n) /\ Len(t) < n
      <4>1. Len(t) \in Nat /\ ~(Len(t) >= n)
        BY <3>2, <1>7, LenProperties DEF Off
      <4> HIDE DEF t
      <4> QED
        BY <4>1, <2>5, <1>3 DEF Takes
    <3>4. Joined(s, t, Text(others))
      <4>1. 1 \in 0..k /\ others = Drop(cs, 1)
        BY <3>1
      <4> HIDE DEF others, cs
      <4>2. Text(cs) = Text(SubSeq(cs, 1, 1)) \o Text(others)
        BY <4>1, <1>1, <1>2, UptoDrop
      <4>3. SubSeq(cs, 1, 1) = <<cs[1]>>
        <5>1. 1 \in 1..Len(cs)
          BY <1>1, <1>4
        <5>2. /\ SubSeq(cs, 1, 1) \in Seq(Chains) /\ Len(SubSeq(cs, 1, 1)) = 1
              /\ SubSeq(cs, 1, 1)[1] = cs[1]
          <6>1. 1 \in 0..Len(cs) /\ 1 \in 1..1
            BY <5>1
          <6> QED
            BY <6>1, <1>1, CutAt
        <5> DEFINE d == SubSeq(cs, 1, 1)
        <5> HIDE DEF d
        <5>3. d \in Seq(Chains) /\ Len(d) = 1 /\ d[1] = cs[1]
          BY <5>2 DEF d
        <5>4. d = <<d[1]>>
          BY ONLY <5>3
        <5> QED
          BY <5>3, <5>4 DEF d
      <4>4. Text(<<first>>) = t
        BY <2>3, TextOne
      <4> QED
        BY <4>2, <4>3, <4>4, <2>3, <1>1 DEF Joined
    <3> HIDE DEF t, others, from, tmp, r, first
    <3> QED
      <4>1. first.data = t /\ first \in Chains
        BY <2>3 DEF t
      <4> QED
        BY <4>1, <3>1, <3>2, <3>3, <3>4, <2>1, <2>4, Zenon
  <2>6. CASE ~inPlace
    <3> DEFINE c == ChainNew(n)
    <3>1. from = 0 /\ 0 \in 0..k /\ tmp = c
      BY <2>6, <1>1, <1>4
    <3>2. c \in Chains /\ c.cap >= n /\ c.skip = 0 /\ c.data = <<>>
      BY <1>3, NewChain
    <3> HIDE DEF c
    <3>3. Takes(c, n)
      <4>1. c.cap \in Nat
        BY <3>2, ChainIs
      <4> QED
        BY <4>1, <3>2, <1>3 DEF Takes
    <3>4. <<>> \in Seq(Int) /\ Len(<<>>) < n
      BY <1>3
    <3>5. Joined(s, <<>>, Text(others))
      <4>1. others = cs
        <5>1. Drop(cs, 0) = cs
          <6> HIDE DEF cs
          <6>1. SubSeq(cs, 1, Len(cs)) = cs /\ 0 + 1 = 1
            BY <1>1, SubSeqFull
          <6> QED
            BY <6>1 DEF Drop
        <5> QED
          BY <5>1, <3>1
      <4> HIDE DEF others
      <4> QED
        BY <4>1, <1>1, ConcatEmptySeq DEF Joined
    <3> HIDE DEF others, from, tmp, r
    <3> QED
      BY <3>1, <3>2, <3>3, <3>4, <3>5, <2>1, <2>4, Zenon
  <2> HIDE DEF r, inPlace
  <2> QED
    BY <2>1, <2>5, <2>6
<1> QED
  BY <1>6, <1>7

-----------------------------------------------------------------------------
(* From one buffer to another.                                             *)

\* Another list, of which the callback is to hear.
LEMMA ListedSound ==
  ASSUME NEW b, NEW s, Sound(b, s), NEW cs \in Seq(Chains), NEW k, Upto(cs, k),
         NEW w \in Int, w = Mark(k), NEW n \in Int, Len(Text(cs)) = Len(s) + n
  PROVE  /\ Sound(Counted([b EXCEPT !.chains = cs, !.with = w], n), Text(cs))
         /\ Counted([b EXCEPT !.chains = cs, !.with = w], n).chains = cs
<1>1. /\ b \in Buffer /\ b.total = Len(s) /\ Len(s) \in Nat
      /\ b.told + b.added - b.deleted = b.total
      /\ b.total \in Int /\ b.added \in Int /\ b.deleted \in Int /\ b.told \in Int
  BY SoundIs
<1> DEFINE r == [b EXCEPT !.chains = cs, !.with = w, !.total = b.total + n,
                          !.added = b.added + n, !.deleted = b.deleted]
<1>2. Counted([b EXCEPT !.chains = cs, !.with = w], n) = r
  BY <1>1 DEF Counted, Buffer
<1>3. /\ b.told + (b.added + n) - b.deleted = b.total + n
      /\ b.total + n \in Int /\ b.added + n \in Int
  <2>1. /\ b.added \in Int /\ b.deleted \in Int /\ b.told \in Int /\ b.total \in Int
        /\ b.told + b.added - b.deleted = b.total /\ n \in Int
    BY <1>1
  <2> QED
    BY ONLY <2>1
<1>4. b.total + n = Len(Text(cs))
  BY <1>1
<1>5. Sound(r, Text(cs))
  BY <1>1, <1>3, <1>4, UpdatedSound
<1>6. r.chains = cs
  BY <1>1 DEF Buffer
<1> QED
  BY <1>2, <1>5, <1>6

\* The chains of a buffer that have data.
LEMMA KeptIs ==
  ASSUME NEW b, NEW s, Sound(b, s), NEW k, Upto(b.chains, k), b.with = Mark(k)
  PROVE  /\ FreeTrailing(b) \in Seq(Chains) /\ Len(FreeTrailing(b)) = k
         /\ Upto(FreeTrailing(b), Len(FreeTrailing(b))) /\ Text(FreeTrailing(b)) = s
         /\ k = 0 => FreeTrailing(b) = <<>>
         /\ b.total = 0 <=> k = 0
<1>1. /\ b \in Buffer /\ b.chains \in Seq(Chains) /\ Len(b.chains) \in Nat
      /\ Text(b.chains) = s /\ b.total = Len(s)
  BY SoundIs
<1>2. FreeTrailing(b) = SubSeq(b.chains, 1, k)
  BY <1>1, FreeTrailingIs
<1>3. k \in k..Len(b.chains)
  BY <1>1 DEF Upto
<1>4. /\ SubSeq(b.chains, 1, k) \in Seq(Chains) /\ Len(SubSeq(b.chains, 1, k)) = k
      /\ Upto(SubSeq(b.chains, 1, k), k) /\ Text(SubSeq(b.chains, 1, k)) = Text(b.chains)
  BY <1>1, <1>3, TextUpto
<1>5. b.total = 0 <=> k = 0
  BY <1>1, UptoNone
<1> QED
  BY <1>1, <1>2, <1>4, <1>5, EmptySeq

\* evbuffer_add_buffer(): what becomes of the two.
LEMMA AddBufferWorks ==
  ASSUME NEW o, NEW s, Settled(o, s), NEW i, NEW u, Settled(i, u), i.total # 0
  PROVE  LET kept == IF o.total = 0 THEN <<>> ELSE FreeTrailing(o)
         IN /\ Settled(Invoke([Zeroed(i) EXCEPT !.deleted = @ + i.total]), <<>>)
            /\ Settled(Invoke(Counted([o EXCEPT !.chains = kept \o i.chains,
                                                !.with = Len(kept) + i.with], i.total)), s \o u)
<1> DEFINE kept == IF o.total = 0 THEN <<>> ELSE FreeTrailing(o)
           cs == kept \o i.chains
           w == Len(kept) + i.with
<1>1. /\ Sound(o, s) /\ Sound(i, u) /\ s \in Seq(Int) /\ u \in Seq(Int)
      /\ i.chains \in Seq(Chains) /\ Text(i.chains) = u /\ i.total = Len(u) /\ i.total \in Int
      /\ Len(i.chains) \in Nat
      /\ (\E k : Upto(i.chains, k) /\ i.with = Mark(k))
      /\ (\E k : Upto(o.chains, k) /\ o.with = Mark(k))
  BY SoundIs DEF Settled
<1>2. PICK k : Upto(o.chains, k) /\ o.with = Mark(k)
  BY <1>1
<1>3. PICK j : Upto(i.chains, j) /\ i.with = Mark(j)
  BY <1>1
<1>4. /\ kept \in Seq(Chains) /\ Len(kept) = k /\ Upto(kept, Len(kept)) /\ Text(kept) = s
  BY <1>1, <1>2, KeptIs
<1>5. j # 0 /\ j \in Nat /\ k \in Nat
  <2>1. Len(Text(i.chains)) = 0 <=> j = 0
    BY <1>1, <1>3, UptoNone
  <2>2. j \in 0..Len(i.chains)
    BY <1>3 DEF Upto
  <2>3. k \in Nat
    BY <1>4, LenProperties
  <2> QED
    BY <2>1, <2>2, <2>3, <1>1
<1> HIDE DEF kept
<1>6. cs \in Seq(Chains) /\ Upto(cs, Len(kept) + j) /\ Text(cs) = s \o u
  BY <1>1, <1>3, <1>4, UptoJoin
<1>7. w \in Int /\ w = Mark(Len(kept) + j)
  BY <1>3, <1>4, <1>5 DEF Mark
<1>8. Len(Text(cs)) = Len(s) + i.total
  BY <1>1, <1>6, ConcatProperties
<1> HIDE DEF cs, w
<1>9. Sound(Counted([o EXCEPT !.chains = cs, !.with = w], i.total), Text(cs))
  BY <1>1, <1>6, <1>7, <1>8, ListedSound
<1>10. Settled(Invoke(Counted([o EXCEPT !.chains = cs, !.with = w], i.total)), s \o u)
  BY <1>6, <1>9, Invoked
<1>11. Settled(Invoke([Zeroed(i) EXCEPT !.deleted = @ + i.total]), <<>>)
  BY <1>1, ZeroedSound, Invoked
<1> QED
  BY <1>10, <1>11 DEF cs, w, kept

\* evbuffer_prepend_buffer(), of a buffer whose last chain has data.
LEMMA PrependBufferWorks ==
  ASSUME NEW o, NEW s, Settled(o, s), NEW i, NEW u, Settled(i, u), i.total # 0, ~EndsEmpty(i)
  PROVE  LET after == IF o.total = 0 THEN <<>> ELSE o.chains
         IN /\ Settled(Invoke([Zeroed(i) EXCEPT !.deleted = @ + i.total]), <<>>)
            /\ Settled(Invoke(Counted([o EXCEPT
                         !.chains = i.chains \o after,
                         !.with = IF after = <<>> THEN i.with ELSE Len(i.chains) + @],
                       i.total)), u \o s)
<1> DEFINE after == IF o.total = 0 THEN <<>> ELSE o.chains
           cs == i.chains \o after
           w == IF after = <<>> THEN i.with ELSE Len(i.chains) + o.with
<1>1. /\ Sound(o, s) /\ Sound(i, u) /\ s \in Seq(Int) /\ u \in Seq(Int) /\ o \in Buffer
      /\ i.chains \in Seq(Chains) /\ Text(i.chains) = u /\ i.total = Len(u) /\ i.total \in Int
      /\ Len(i.chains) \in Nat /\ Len(s) \in Nat /\ Len(u) \in Nat
      /\ o.chains \in Seq(Chains) /\ Text(o.chains) = s /\ o.total = Len(s) /\ Len(o.chains) \in Nat
      /\ (\E k : Upto(i.chains, k) /\ i.with = Mark(k))
      /\ (\E k : Upto(o.chains, k) /\ o.with = Mark(k))
  BY SoundIs DEF Settled
<1>2. PICK k : Upto(o.chains, k) /\ o.with = Mark(k)
  BY <1>1
<1>3. PICK j : Upto(i.chains, j) /\ i.with = Mark(j)
  BY <1>1
<1>4. j # 0 /\ j \in 0..Len(i.chains) /\ k \in 0..Len(o.chains) /\ (k = 0 <=> o.total = 0)
  BY <1>1, <1>2, <1>3, UptoNone DEF Upto
<1>5. j = Len(i.chains) /\ j >= 1
  <2>1. Len(i.chains) \in 1..Len(i.chains)
    BY <1>1, <1>4
  <2>2. i.chains # <<>>
    BY <2>1
  <2>3. i.chains[Len(i.chains)].data # <<>>
    BY <2>2 DEF EndsEmpty, IsEmpty, Last
  <2>4. Len(i.chains) <= j
    BY <2>1, <2>3, <1>3 DEF Upto
  <2> QED
    BY <2>1, <2>4, <1>1, <1>4
<1> DEFINE l == IF o.total = 0 THEN 0 ELSE k
<1>6. after \in Seq(Chains) /\ Upto(after, l) /\ Text(after) = s
  <2>1. CASE o.total = 0
    <3>1. s = <<>>
      BY <2>1, <1>1, EmptySeq
    <3> QED
      BY <2>1, <3>1, TextNothing DEF Upto
  <2>2. CASE o.total # 0
    BY <2>2, <1>1, <1>2
  <2> QED
    BY <2>1, <2>2
<1>7. w \in Int /\ w = Mark(Len(i.chains) + l)
  <2>1. CASE o.total = 0
    <3>1. w = i.with /\ l = 0
      BY <2>1
    <3> HIDE DEF w, l
    <3> QED
      BY <3>1, <1>3, <1>5, <1>1 DEF Mark
  <2>2. CASE o.total # 0
    <3>1. o.chains # <<>>
      <4>1. Len(o.chains) # 0
        BY <2>2, <1>1, <1>4
      <4> QED
        BY <4>1
    <3>2. w = Len(i.chains) + o.with /\ l = k /\ k # 0
      BY <2>2, <3>1, <1>4
    <3> HIDE DEF w, l
    <3> QED
      BY <3>2, <1>1, <1>2, <1>4 DEF Mark
  <2> QED
    BY <2>1, <2>2
<1> HIDE DEF after, l
<1>8. cs \in Seq(Chains) /\ Upto(cs, Len(i.chains) + l) /\ Text(cs) = u \o s
  <2>1. Upto(i.chains, Len(i.chains))
    BY <1>3, <1>5
  <2> QED
    BY <2>1, <1>1, <1>6, UptoJoin
<1>9. Len(Text(cs)) = Len(s) + i.total
  <2>1. Len(u \o s) = Len(u) + Len(s)
    BY <1>1, ConcatProperties
  <2> QED
    BY <2>1, <1>1, <1>8
<1>10. [o EXCEPT !.chains = i.chains \o after,
                 !.with = IF after = <<>> THEN i.with ELSE Len(i.chains) + @]
         = [o EXCEPT !.chains = cs, !.with = w]
  BY <1>1 DEF Buffer
<1> HIDE DEF cs, w
<1>11. Sound(Counted([o EXCEPT !.chains = cs, !.with = w], i.total), Text(cs))
  <2> DEFINE m == Len(i.chains) + l
  <2>1. /\ Sound(o, s) /\ cs \in Seq(Chains) /\ Upto(cs, m) /\ w \in Int /\ w = Mark(m)
        /\ i.total \in Int /\ Len(Text(cs)) = Len(s) + i.total
    BY <1>1, <1>7, <1>8, <1>9
  <2> HIDE DEF m
  <2> QED
    BY ONLY <2>1, ListedSound
<1>12. Settled(Invoke(Counted([o EXCEPT !.chains = cs, !.with = w], i.total)), u \o s)
  BY <1>8, <1>11, Invoked
<1>13. Settled(Invoke([Zeroed(i) EXCEPT !.deleted = @ + i.total]), <<>>)
  BY <1>1, ZeroedSound, Invoked
<1> QED
  BY <1>10, <1>12, <1>13 DEF after

\* advance_last_with_data(), where all chains have data.
LEMMA AdvanceIs ==
  ASSUME NEW b, b.chains \in Seq(Chains), Upto(b.chains, Len(b.chains)),
         b.with \in 1..Len(b.chains)
  PROVE  Advance(b) = [b EXCEPT !.with = Len(b.chains)]
<1> DEFINE n == Len(b.chains)
           stops == {i \in b.with..n : i = n \/ IsEmpty(b.chains[i + 1])}
<1>1. n \in Nat
  BY LenProperties
<1>2. n \in stops
  BY <1>1
<1>3. ASSUME NEW i \in stops PROVE i \in Int /\ n <= i
  <2>1. i \in b.with..n /\ (i = n \/ IsEmpty(b.chains[i + 1]))
    OBVIOUS
  <2>2. ASSUME i # n PROVE FALSE
    <3>1. i + 1 \in 1..n /\ i + 1 <= n
      BY <2>1, <2>2, <1>1
    <3>2. b.chains[i + 1].data # <<>>
      BY <3>1 DEF Upto
    <3> QED
      BY <3>2, <2>1, <2>2 DEF IsEmpty
  <2> QED
    BY <2>2, <1>1
<1>4. Min(stops) = n
  <2>1. \A i \in stops : i \in Int /\ n <= i
    BY <1>3
  <2> HIDE DEF stops
  <2> QED
    BY <2>1, <1>2, LeastIs
<1>5. stops # {}
  BY <1>2
<1>6. Advance(b) = IF stops = {} THEN b ELSE [b EXCEPT !.with = Min(stops)]
  BY DEF Advance
<1> HIDE DEF stops
<1> QED
  BY <1>4, <1>5, <1>6

\* Whole chains that are moved to the end of another buffer.
LEMMA MovedIs ==
  ASSUME NEW d, NEW u, Settled(d, u), NEW gs \in Seq(Chains), Upto(gs, Len(gs)), Len(gs) # 0,
         NEW m, m = Len(Text(gs))
  PROVE  Sound(Counted(Advance([d EXCEPT !.chains = FreeTrailing(d) \o gs]), m), u \o Text(gs))
<1>1. /\ Sound(d, u) /\ d \in Buffer /\ u \in Seq(Int) /\ Len(u) \in Nat
      /\ \E k : Upto(d.chains, k) /\ d.with = Mark(k)
  BY SoundIs DEF Settled
<1>2. PICK k : Upto(d.chains, k) /\ d.with = Mark(k)
  BY <1>1
<1> DEFINE kept == FreeTrailing(d)
           cs == kept \o gs
           e == [d EXCEPT !.chains = cs]
           w == Len(cs)
<1>3. kept \in Seq(Chains) /\ Len(kept) = k /\ Upto(kept, Len(kept)) /\ Text(kept) = u
  BY <1>1, <1>2, KeptIs
<1> HIDE DEF kept
<1>4. cs \in Seq(Chains) /\ Upto(cs, Len(kept) + Len(gs)) /\ Text(cs) = u \o Text(gs)
  BY <1>3, UptoJoin
<1>5. Len(cs) = k + Len(gs) /\ k \in Nat /\ Len(gs) \in Nat /\ Len(gs) >= 1
  <2>1. Len(cs) = Len(kept) + Len(gs)
    BY <1>3, ConcatProperties
  <2>2. Len(kept) \in Nat /\ Len(gs) \in Nat
    BY <1>3, LenProperties
  <2> QED
    BY <2>1, <2>2, <1>3
<1> HIDE DEF cs
<1>6. Upto(cs, w) /\ w \in Int /\ w = Mark(w) /\ d.with \in 1..Len(cs)
  <2>1. Len(kept) + Len(gs) = w
    BY <1>3, <1>5
  <2>2. w \in Nat /\ w >= 1
    BY ONLY <1>5
  <2>3. d.with \in 1..Len(cs)
    BY <1>2, <1>5 DEF Mark
  <2>4. Upto(cs, w)
    BY <2>1, <1>4
  <2> HIDE DEF w
  <2> QED
    BY <2>2, <2>3, <2>4 DEF Mark
<1>7. e.chains = cs /\ e.with = d.with
  BY <1>1 DEF Buffer
<1>8. Advance(e) = [d EXCEPT !.chains = cs, !.with = w]
  <2>1. Advance(e) = [e EXCEPT !.with = Len(cs)]
    <3> HIDE DEF e
    <3>1. Advance(e) = [e EXCEPT !.with = Len(e.chains)]
      BY <1>4, <1>6, <1>7, AdvanceIs
    <3> QED
      BY <3>1, <1>7
  <2>2. [e EXCEPT !.with = Len(cs)] = [d EXCEPT !.chains = cs, !.with = w]
    BY <1>1 DEF Buffer
  <2> QED
    BY <2>1, <2>2
<1>9. m \in Int /\ Len(Text(cs)) = Len(u) + m
  <2>1. Text(gs) \in Seq(Int) /\ Len(Text(gs)) \in Nat
    BY TextTypes
  <2>2. Len(u \o Text(gs)) = Len(u) + Len(Text(gs))
    BY <1>1, <2>1, ConcatProperties
  <2> QED
    BY <2>1, <2>2, <1>4
<1>10. Sound(Counted([d EXCEPT !.chains = cs, !.with = w], m), Text(cs))
  <2>1. Sound(d, u) /\ cs \in Seq(Chains)
    BY <1>1, <1>4
  <2> HIDE DEF w
  <2> QED
    BY ONLY <2>1, <1>6, <1>9, ListedSound
<1> QED
  BY <1>4, <1>8, <1>10 DEF cs, kept

\* The first chains of a list, all of them with data.
LEMMA FirstsAre ==
  ASSUME NEW cs \in Seq(Chains), NEW k, Upto(cs, k), NEW g \in 0..k
  PROVE  /\ SubSeq(cs, 1, g) \in Seq(Chains) /\ Len(SubSeq(cs, 1, g)) = g
         /\ Upto(SubSeq(cs, 1, g), g)
         /\ Len(Text(SubSeq(cs, 1, g))) = 0 <=> g = 0
<1>1. Len(cs) \in Nat /\ k \in 0..Len(cs)
  BY LenProperties DEF Upto
<1>2. g \in 0..Len(cs) /\ g \in Nat /\ g <= k
  BY <1>1
<1>3. /\ SubSeq(cs, 1, g) \in Seq(Chains) /\ Len(SubSeq(cs, 1, g)) = g
      /\ \A i \in 1..g : SubSeq(cs, 1, g)[i] = cs[i]
  BY <1>2, CutAt
<1>4. ASSUME NEW i \in 1..g PROVE SubSeq(cs, 1, g)[i].data # <<>> /\ i <= g
  <2>1. i \in 1..Len(cs) /\ i <= k /\ i <= g
    BY <1>1, <1>2
  <2>2. cs[i].data # <<>>
    BY <2>1 DEF Upto
  <2> QED
    BY <2>1, <2>2, <1>3
<1>5. g \in 0..g
  BY <1>2
<1>6. Upto(SubSeq(cs, 1, g), g)
  BY <1>3, <1>4, <1>5 DEF Upto
<1>7. Len(Text(SubSeq(cs, 1, g))) = 0 <=> g = 0
  <2> DEFINE q == SubSeq(cs, 1, g)
  <2>1. q \in Seq(Chains) /\ Upto(q, g)
    BY <1>3, <1>6
  <2> HIDE DEF q
  <2>2. Len(Text(q)) = 0 <=> g = 0
    BY <2>1, UptoNone
  <2> QED
    BY <2>2 DEF q
<1> QED
  BY <1>3, <1>6, <1>7

\* evbuffer_remove_buffer() of fewer bytes than there are, when there is memory.
LEMMA RemoveWorks ==
  ASSUME NEW b, NEW s, Settled(b, s), NEW d, NEW u, Settled(d, u), NEW n \in Nat, n < Len(s)
  PROVE  LET gone == Covered(b.chains, n)
             nread == LengthOf(SubSeq(b.chains, 1, gone))
             left == Drop(b.chains, gone)
             moved == Counted(Advance([d EXCEPT !.chains = FreeTrailing(d) \o SubSeq(b.chains, 1, gone)]), nread)
             copied == SubSeq(Head(left).data, 1, n - nread)
             to == Add(IF nread > 0 THEN moved ELSE d, copied, TRUE)
             short == [b EXCEPT !.chains = <<Shortened(Head(left), n - nread)>> \o Tail(left),
                                !.with = IF @ \in 2..gone + 1 THEN 1 ELSE @ - gone,
                                !.total = @ - n,
                                !.deleted = @ + n]
         IN /\ Settled(Invoke(short), Drop(s, n))
            /\ Settled(Invoke(to), u \o SubSeq(s, 1, n))
<1> DEFINE cs == b.chains
           gone == Covered(cs, n)
           gs == SubSeq(cs, 1, gone)
           nread == LengthOf(gs)
           left == Drop(cs, gone)
           moved == Counted(Advance([d EXCEPT !.chains = FreeTrailing(d) \o gs]), nread)
           copied == SubSeq(Head(left).data, 1, n - nread)
           from == IF nread > 0 THEN moved ELSE d
           to == Add(from, copied, TRUE)
           w == IF b.with \in 2..gone + 1 THEN 1 ELSE b.with - gone
           short == [b EXCEPT !.chains = <<Shortened(Head(left), n - nread)>> \o Tail(left),
                              !.with = IF @ \in 2..gone + 1 THEN 1 ELSE @ - gone,
                              !.total = @ - n,
                              !.deleted = @ + n]
           done == [b EXCEPT !.chains = Left(cs, n), !.with = w, !.total = b.total - n,
                             !.added = b.added, !.deleted = b.deleted + n]
<1>1. /\ Sound(b, s) /\ b \in Buffer /\ b.with \in Int /\ b.total \in Int
      /\ b.added \in Int /\ b.deleted \in Int /\ cs \in Seq(Chains) /\ Len(cs) \in Nat
      /\ s \in Seq(Int) /\ Text(cs) = s
      /\ \E k : Upto(cs, k) /\ b.with = Mark(k)
  BY SoundIs DEF Settled
<1>2. PICK k : Upto(cs, k) /\ b.with = Mark(k)
  BY <1>1
<1>3. /\ gone \in 0..k - 1 /\ gone + 1 \in 1..Len(cs) /\ nread \in 0..n /\ nread = Len(Text(gs))
      /\ n - nread < Len(cs[gone + 1].data)
  <2>1. n < Len(Text(cs))
    BY <1>1
  <2> HIDE DEF cs
  <2> QED
    BY <2>1, <1>1, <1>2, CutIn
<1>4. k \in 0..Len(cs) /\ gone \in 0..k /\ gone \in 0..Len(cs) /\ gone \in Int
  <2>1. k \in 0..Len(cs)
    BY <1>2 DEF Upto
  <2> HIDE DEF gone, cs
  <2> QED
    BY <2>1, <1>1, <1>3
<1>5. SubSeq(s, 1, n) = Text(gs) \o copied
  <2>1. n < Len(Text(cs))
    BY <1>1
  <2>2. SubSeq(Text(cs), 1, n)
          = Text(SubSeq(cs, 1, Covered(cs, n)))
              \o SubSeq(Head(Drop(cs, Covered(cs, n))).data, 1,
                        n - LengthOf(SubSeq(cs, 1, Covered(cs, n))))
    <3> HIDE DEF cs
    <3> QED
      BY <2>1, <1>1, <1>2, LeftIs
  <2> QED
    BY <2>2, <1>1
<1>6. Settled(Invoke(short), Drop(s, n))
  <2>1. w \in Int
    <3> HIDE DEF gone
    <3> QED
      BY <1>1, <1>4
  <2>2. short = done
    <3>1. <<Shortened(Head(left), n - nread)>> \o Tail(left) = Left(cs, n)
      BY DEF Left
    <3> HIDE DEF left, nread, gone
    <3> QED
      BY <3>1, <1>1 DEF Buffer
  <2>3. Sound(done, Drop(s, n))
    <3>1. w = IF b.with \in 2..Covered(b.chains, n) + 1 THEN 1 ELSE b.with - Covered(b.chains, n)
      OBVIOUS
    <3> HIDE DEF w
    <3> QED
      BY <3>1, <2>1, <1>1, ShortSound
  <2> HIDE DEF short, done
  <2> QED
    BY <2>2, <2>3, Invoked
<1>7. gs \in Seq(Chains) /\ Len(gs) = gone /\ Upto(gs, gone) /\ (nread = 0 <=> gone = 0)
  <2>1. gone \in 0..k /\ nread = Len(Text(gs))
    BY <1>3, <1>4
  <2> HIDE DEF gone, cs, nread
  <2> QED
    BY <2>1, <1>1, <1>2, FirstsAre
<1>8. Text(gs) \in Seq(Int) /\ copied \in Seq(Int) /\ u \in Seq(Int)
  <2>1. cs[gone + 1] \in Chains /\ left # <<>> /\ Head(left) = cs[gone + 1]
    <3> HIDE DEF gone, cs
    <3>1. /\ left \in Seq(Chains) /\ Len(left) = Len(cs) - gone
          /\ \A i \in 1..Len(cs) - gone : left[i] = cs[gone + i]
      BY <1>1, <1>4, CutAt
    <3>2. 1 \in 1..Len(cs) - gone
      BY <1>1, <1>3, <1>4
    <3>3. Len(left) # 0 /\ left[1] = cs[gone + 1]
      BY <3>1, <3>2
    <3> HIDE DEF left
    <3>4. left # <<>>
      BY <3>3
    <3> QED
      BY <3>1, <3>3, <3>4, <1>1, <1>3, HeadTailProperties
  <2> DEFINE t == Head(left).data
             m == n - nread
  <2>2. t \in Seq(Int) /\ Len(t) \in Nat /\ m < Len(t)
    BY <2>1, <1>3, ChainIs
  <2>3. m \in Nat
    <3> HIDE DEF nread
    <3> QED
      BY <1>3
  <2> HIDE DEF t, m
  <2>4. m \in 0..Len(t)
    BY <2>2, <2>3
  <2>5. SubSeq(t, 1, m) \in Seq(Int)
    BY <2>2, <2>4, CutAt
  <2>6. copied \in Seq(Int)
    BY <2>5 DEF t, m
  <2>7. u \in Seq(Int)
    BY DEF Settled, Sound
  <2> QED
    BY <2>6, <2>7, <1>7, TextTypes
<1> HIDE DEF copied, left
<1>9. Sound(from, u \o Text(gs))
  <2>1. CASE nread > 0
    <3>1. nread # 0 /\ from = moved
      BY <2>1
    <3>2. gone # 0 /\ Upto(gs, Len(gs)) /\ Len(gs) # 0
      BY <3>1, <1>7
    <3>3. nread = Len(Text(gs)) /\ gs \in Seq(Chains)
      BY <1>3, <1>7
    <3> HIDE DEF gs, nread, gone, from
    <3>4. Sound(Counted(Advance([d EXCEPT !.chains = FreeTrailing(d) \o gs]), nread), u \o Text(gs))
      BY <3>2, <3>3, MovedIs
    <3> QED
      BY <3>1, <3>4
  <2>2. CASE ~(nread > 0)
    <3>1. nread = 0 /\ from = d
      <4> HIDE DEF nread
      <4> QED
        BY <2>2, <1>3
    <3>2. Text(gs) = <<>>
      BY <3>1, <1>3, <1>8, EmptySeq
    <3>3. u \o Text(gs) = u
      BY <3>2, <1>8, ConcatEmptySeq
    <3> QED
      BY <3>1, <3>3 DEF Settled
  <2> QED
    BY <2>1, <2>2
<1>10. Settled(to, (u \o Text(gs)) \o copied)
  <2>1. ~AddFails(from, Len(copied), TRUE)
    BY DEF AddFails
  <2> HIDE DEF from, gs
  <2> QED
    BY <2>1, <1>8, <1>9, AddWorks
<1>11. (u \o Text(gs)) \o copied = u \o SubSeq(s, 1, n)
  <2> DEFINE t == Text(gs)
  <2> HIDE DEF gs
  <2>1. t \in Seq(Int) /\ copied \in Seq(Int) /\ u \in Seq(Int) /\ SubSeq(s, 1, n) = t \o copied
    BY <1>5, <1>8
  <2> HIDE DEF t
  <2>2. (u \o t) \o copied = u \o (t \o copied)
    BY <2>1, Associates
  <2> QED
    BY <2>1, <2>2 DEF t
<1>12. Settled(Invoke(to), u \o SubSeq(s, 1, n))
  <2> HIDE DEF to
  <2> QED
    BY <1>10, <1>11, Invoked DEF Settled
<1> QED
  BY <1>6, <1>12 DEF copied, left

-----------------------------------------------------------------------------
(* evbuffer_expand_fast_(), and what is read into the space it finds.      *)

LEMMA SpaceIs ==
  ASSUME NEW c \in Chains
  PROVE  Space(c) \in Nat /\ (c.data = <<>> => Space(c) >= 1)
<1>1. /\ c.cap \in Nat /\ c.skip \in Nat /\ c.data \in Seq(Int) /\ Len(c.data) \in Nat
      /\ c.cap >= 1 /\ c.skip + Len(c.data) <= c.cap /\ (c.data = <<>> => c.skip = 0)
  BY ChainIs
<1>2. Space(c) = c.cap - c.skip - Len(c.data)
  BY DEF Space, Off
<1>3. c.data = <<>> => Len(c.data) = 0
  OBVIOUS
<1> DEFINE l == Len(c.data)
<1>4. /\ c.cap \in Nat /\ c.skip \in Nat /\ l \in Nat /\ c.cap >= 1 /\ c.skip + l <= c.cap
      /\ (c.data = <<>> => c.skip = 0 /\ l = 0) /\ Space(c) = c.cap - c.skip - l
  BY <1>1, <1>2, <1>3
<1> HIDE DEF l
<1> QED
  BY ONLY <1>4

\* The space from the chain m to the one before i.
SpaceTo(cs, m, i) == Total([j \in 1..i - m |-> Space(cs[m + j - 1])])

LEMMA SpaceToSteps ==
  ASSUME NEW cs \in Seq(Chains), NEW m \in 1..Len(cs) + 1
  PROVE  /\ SpaceTo(cs, m, m) = 0
         /\ \A i \in m..Len(cs) : SpaceTo(cs, m, i + 1) = SpaceTo(cs, m, i) + Space(cs[i])
<1>1. Len(cs) \in Nat /\ m \in Nat /\ m >= 1 /\ \A i \in 1..Len(cs) : Space(cs[i]) \in Int
  BY LenProperties, SpaceIs
<1>2. SpaceTo(cs, m, m) = 0
  <2> DEFINE f == [j \in 1..0 |-> Space(cs[m + j - 1])]
  <2>1. m - m = 0
    BY <1>1
  <2>2. f \in [1..0 -> Int]
    OBVIOUS
  <2> HIDE DEF f
  <2>3. Total(f) = 0
    BY <2>2, TotalNothing
  <2> QED
    BY <2>1, <2>3 DEF SpaceTo, f
<1>3. ASSUME NEW i \in m..Len(cs)
      PROVE  SpaceTo(cs, m, i + 1) = SpaceTo(cs, m, i) + Space(cs[i])
  <2> DEFINE n == i - m
             f == [j \in 1..n + 1 |-> Space(cs[m + j - 1])]
             h == [j \in 1..n |-> f[j]]
  <2>1. n \in Nat /\ (i + 1) - m = n + 1 /\ m + (n + 1) - 1 = i /\ n + 1 \in 1..n + 1
    BY <1>1
  <2>2. f \in [1..n + 1 -> Int]
    <3>1. \A j \in 1..n + 1 : m + j - 1 \in 1..Len(cs)
      BY <1>1
    <3>2. \A j \in 1..n + 1 : Space(cs[m + j - 1]) \in Int
      BY <3>1, <1>1
    <3> QED
      BY <3>2
  <2>3. f[n + 1] = Space(cs[i])
    BY <2>1
  <2>4. SpaceTo(cs, m, i + 1) = Total(f)
    BY <2>1 DEF SpaceTo
  <2>5. SpaceTo(cs, m, i) = Total(h)
    <3>1. \A j \in 1..n : j \in 1..n + 1
      BY <2>1
    <3>2. h = [j \in 1..n |-> Space(cs[m + j - 1])]
      BY <3>1
    <3> QED
      BY <3>2 DEF SpaceTo
  <2> HIDE DEF f, n
  <2>6. Total(f) = Total([j \in 1..n |-> f[j]]) + f[n + 1]
    BY <2>1, <2>2, TotalMore
  <2> QED
    BY <2>3, <2>4, <2>5, <2>6
<1> QED
  BY <1>2, <1>3

LEMMA SpaceToTypes ==
  ASSUME NEW cs \in Seq(Chains), NEW m \in 1..Len(cs) + 1
  PROVE  \A i \in m..Len(cs) + 1 : SpaceTo(cs, m, i) \in Nat
<1> DEFINE T == {n \in Nat : m + n <= Len(cs) + 1 => SpaceTo(cs, m, m + n) \in Nat}
<1>1. Len(cs) \in Nat /\ m \in Nat /\ m >= 1
  BY LenProperties
<1>2. 0 \in T
  <2>1. SpaceTo(cs, m, m) = 0 /\ m + 0 = m
    BY <1>1, SpaceToSteps
  <2> QED
    BY <2>1
<1>3. ASSUME NEW n \in Nat, n \in T, m + (n + 1) <= Len(cs) + 1
      PROVE  SpaceTo(cs, m, m + (n + 1)) \in Nat
  <2>1. m + n \in m..Len(cs) /\ m + n \in 1..Len(cs) /\ (m + n) + 1 = m + (n + 1) /\ m + n <= Len(cs) + 1
    BY <1>1, <1>3
  <2>2. SpaceTo(cs, m, (m + n) + 1) = SpaceTo(cs, m, m + n) + Space(cs[m + n])
    BY <2>1, SpaceToSteps
  <2>3. SpaceTo(cs, m, m + n) \in Nat
    BY <2>1, <1>3
  <2>4. Space(cs[m + n]) \in Nat
    BY <2>1, LenProperties, SpaceIs
  <2> QED
    BY <2>1, <2>2, <2>3, <2>4
<1>4. \A n \in Nat : n \in T
  <2>1. ASSUME NEW n \in Nat, n \in T PROVE n + 1 \in T
    BY <2>1, <1>3
  <2> HIDE DEF T
  <2> QED
    BY <1>2, <2>1, Induction
<1>5. ASSUME NEW i \in m..Len(cs) + 1 PROVE SpaceTo(cs, m, i) \in Nat
  <2>1. i - m \in Nat /\ m + (i - m) = i /\ m + (i - m) <= Len(cs) + 1
    BY <1>1
  <2>2. i - m \in T
    <3> HIDE DEF T
    <3> QED
      BY <2>1, <1>4
  <2> QED
    BY <2>1, <2>2
<1> QED
  BY <1>5

\* A first chain that is full does not count.
LEMMA SpaceToSkips ==
  ASSUME NEW cs \in Seq(Chains), NEW m \in 1..Len(cs), Space(cs[m]) = 0
  PROVE  \A i \in m + 1..Len(cs) + 1 : SpaceTo(cs, m, i) = SpaceTo(cs, m + 1, i)
<1> DEFINE T == {n \in Nat : (m + 1) + n <= Len(cs) + 1 =>
                   SpaceTo(cs, m, (m + 1) + n) = SpaceTo(cs, m + 1, (m + 1) + n)}
<1>1. /\ Len(cs) \in Nat /\ m \in Nat /\ m >= 1 /\ m <= Len(cs)
      /\ m \in 1..Len(cs) + 1 /\ m + 1 \in 1..Len(cs) + 1 /\ m \in m..Len(cs)
  BY LenProperties
<1>2. /\ SpaceTo(cs, m, m) = 0
      /\ \A i \in m..Len(cs) : SpaceTo(cs, m, i + 1) = SpaceTo(cs, m, i) + Space(cs[i])
  BY <1>1, SpaceToSteps
<1>3. /\ SpaceTo(cs, m + 1, m + 1) = 0
      /\ \A i \in m + 1..Len(cs) : SpaceTo(cs, m + 1, i + 1) = SpaceTo(cs, m + 1, i) + Space(cs[i])
  BY <1>1, SpaceToSteps
<1>4. 0 \in T
  <2>1. SpaceTo(cs, m, m + 1) = 0 /\ (m + 1) + 0 = m + 1
    BY <1>1, <1>2
  <2> QED
    BY <2>1, <1>3
<1>5. ASSUME NEW n \in Nat, n \in T, (m + 1) + (n + 1) <= Len(cs) + 1
      PROVE  SpaceTo(cs, m, (m + 1) + (n + 1)) = SpaceTo(cs, m + 1, (m + 1) + (n + 1))
  <2> DEFINE i == (m + 1) + n
  <2>1. /\ i \in m..Len(cs) /\ i \in m + 1..Len(cs) /\ i + 1 = (m + 1) + (n + 1)
        /\ i <= Len(cs) + 1
    BY <1>1, <1>5
  <2>2. SpaceTo(cs, m, i) = SpaceTo(cs, m + 1, i)
    BY <2>1, <1>5
  <2> HIDE DEF i
  <2> QED
    BY <2>1, <2>2, <1>2, <1>3
<1>6. \A n \in Nat : n \in T
  <2>1. ASSUME NEW n \in Nat, n \in T PROVE n + 1 \in T
    BY <2>1, <1>5
  <2> HIDE DEF T
  <2> QED
    BY <1>4, <2>1, Induction
<1>7. ASSUME NEW i \in m + 1..Len(cs) + 1 PROVE SpaceTo(cs, m, i) = SpaceTo(cs, m + 1, i)
  <2>1. i - (m + 1) \in Nat /\ (m + 1) + (i - (m + 1)) = i /\ i <= Len(cs) + 1
    BY <1>1
  <2>2. i - (m + 1) \in T
    <3> HIDE DEF T
    <3> QED
      BY <2>1, <1>6
  <2> QED
    BY <2>1, <2>2
<1> QED
  BY <1>7

LEMMA EmptyAppended ==
  ASSUME NEW cs \in Seq(Chains), NEW k, Upto(cs, k), NEW c \in Chains, c.data = <<>>
  PROVE  /\ Append(cs, c) \in Seq(Chains) /\ Upto(Append(cs, c), k)
         /\ Text(Append(cs, c)) = Text(cs)
<1> DEFINE ds == Append(cs, c)
           n == Len(cs)
<1>1. /\ ds \in Seq(Chains) /\ Len(ds) = n + 1 /\ n \in Nat
      /\ \A i \in 1..n : ds[i] = cs[i]
      /\ ds[n + 1] = c
  BY AppendProperties, LenProperties
<1>2. Text(ds) = Text(cs)
  <2>1. Text(ds) = Text(cs) \o <<>>
    BY TextAppend
  <2> QED
    BY <2>1, TextTypes, ConcatEmptySeq
<1>3. k \in 0..n
  BY DEF Upto
<1> HIDE DEF ds
<1>4. ASSUME NEW i \in 1..n + 1 PROVE ds[i].data # <<>> <=> i <= k
  <2>1. CASE i = n + 1
    <3>1. ~(i <= k)
      BY <2>1, <1>1, <1>3
    <3> QED
      BY <2>1, <3>1, <1>1
  <2>2. CASE i # n + 1
    <3>1. i \in 1..n
      BY <2>2, <1>1
    <3>2. cs[i].data # <<>> <=> i <= k
      BY <3>1 DEF Upto
    <3> QED
      BY <3>1, <3>2, <1>1
  <2> QED
    BY <2>1, <2>2
<1>5. k \in 0..n + 1
  BY <1>1, <1>3
<1>6. Upto(ds, k)
  BY <1>1, <1>4, <1>5 DEF Upto
<1> QED
  BY <1>1, <1>2, <1>6 DEF ds

LEMMA LowestIs ==
  ASSUME NEW m \in Int, NEW n \in Int, NEW t, t \subseteq m..n, t # {}
  PROVE  Min(t) \in t /\ \A k \in t : Min(t) <= k
<1> DEFINE u == {i - m : i \in t}
<1>1. u \subseteq Nat /\ u # {}
  OBVIOUS
<1>2. PICK q \in u : \A k \in u : q <= k
  <2> HIDE DEF u
  <2> QED
    BY <1>1, Least
<1>3. PICK p \in t : q = p - m
  OBVIOUS
<1>4. ASSUME NEW k \in t PROVE p <= k
  <2>1. k - m \in u
    OBVIOUS
  <2>2. q <= k - m
    BY <2>1, <1>2
  <2>3. k \in Int /\ p \in Int
    OBVIOUS
  <2> QED
    BY <2>2, <2>3, <1>3
<1>5. \A i \in t : i \in Int /\ (i \in t => p <= i)
  BY <1>4
<1>6. Min(t) = p
  BY <1>5, LeastIs
<1> QED
  BY <1>4, <1>6

\* evbuffer_expand_fast_(): what it does to the list.
LEMMA ExpandFastWorks ==
  ASSUME NEW b, NEW s, Settled(b, s), NEW size \in Nat, NEW n \in Nat, NEW mem \in BOOLEAN
  PROVE  Settled(ExpandFast(b, size, n, mem), s)
<1> DEFINE cs == b.chains
           last == Len(cs)
           At(i) == IF IsEmpty(cs[i]) THEN Align(cs[i]) ELSE cs[i]
           Avail(i) == Total([j \in 1..i - b.with + 1 |-> Space(At(b.with + j - 1))])
           Took(i) == Cardinality({j \in b.with..i : Space(At(j)) > 0})
           end == {i \in b.with..last : Avail(i) >= size \/ Took(i) = n}
           stop == IF end = {} THEN last ELSE Min(end)
           walked == [b EXCEPT !.chains = [i \in 1..last |-> IF i \in b.with..stop THEN At(i) ELSE @[i]]]
           nuked == SubSeq(walked.chains, 1, IF IsEmpty(cs[b.with]) THEN 0 ELSE b.with)
           more == IF nuked = <<>> THEN size ELSE size - Space(walked.chains[b.with])
           lacks == size - Avail(stop)
<1>1. /\ Sound(b, s) /\ b \in Buffer /\ cs \in Seq(Chains) /\ last \in Nat /\ Text(cs) = s
      /\ \A i \in 1..last : cs[i] \in Chains
      /\ \E k : Upto(cs, k) /\ b.with = Mark(k)
  BY SoundIs DEF Settled
<1>2. PICK k : Upto(cs, k) /\ b.with = Mark(k)
  BY <1>1
<1>3. CASE cs = <<>>
  <2>1. ExpandFast(b, size, n, mem) = IF mem THEN ChainInsert(b, ChainNew(size)) ELSE b
    BY <1>3 DEF ExpandFast
  <2> QED
    BY <2>1, InsertedNew
<1>4. CASE cs # <<>>
  <2>1. last >= 1 /\ k \in 0..last /\ b.with \in 1..last /\ b.with \in Nat
    <3>1. k \in 0..last
      BY <1>2 DEF Upto
    <3>2. last # 0
      BY <1>1, <1>4, EmptySeq
    <3> HIDE DEF last
    <3> QED
      BY <3>1, <3>2, <1>1, <1>2 DEF Mark
  <2>2. \A i \in 1..last : At(i) = cs[i]
    BY <1>1, AlignIs DEF IsEmpty
  <2>3. walked = b
    <3> DEFINE ds == [i \in 1..last |-> IF i \in b.with..stop THEN At(i) ELSE cs[i]]
    <3>1. \A i \in 1..last : ds[i] = cs[i]
      <4> HIDE DEF At, stop
      <4> QED
        BY <2>2
    <3>2. cs = [i \in 1..last |-> cs[i]]
      BY <1>1, LenProperties
    <3>3. ds = cs
      <4>1. ds = [i \in 1..last |-> ds[i]]
        OBVIOUS
      <4> HIDE DEF ds, cs
      <4> QED
        BY <3>1, <3>2, <4>1
    <3>4. walked = [b EXCEPT !.chains = ds]
      OBVIOUS
    <3> HIDE DEF ds
    <3> QED
      BY <3>3, <3>4, <1>1 DEF Buffer
  <2>4. stop \in b.with..last
    <3>1. end \subseteq b.with..last
      OBVIOUS
    <3>2. b.with \in Int /\ last \in Int /\ last \in b.with..last
      <4> HIDE DEF last
      <4> QED
        BY <1>1, <2>1
    <3>3. CASE end = {}
      <4>1. stop = last
        <5> HIDE DEF end, last
        <5> QED
          BY <3>3
      <4> QED
        BY <4>1, <3>2
    <3>4. CASE end # {}
      <4>1. stop = Min(end)
        <5> HIDE DEF end, last
        <5> QED
          BY <3>4
      <4>2. Min(end) \in end
        <5> DEFINE lo == b.with
        <5>1. lo \in Int /\ last \in Int /\ end \subseteq lo..last /\ end # {}
          BY <3>1, <3>2, <3>4
        <5> HIDE DEF end, last, lo
        <5> QED
          BY ONLY <5>1, LowestIs
      <4> HIDE DEF end, last, stop
      <4> QED
        BY <3>1, <4>1, <4>2
    <3> QED
      BY <3>3, <3>4
  <2> HIDE DEF stop
  <2>5. lacks \in Int
    <3> DEFINE m == stop - b.with + 1
               f == [j \in 1..m |-> Space(At(b.with + j - 1))]
    <3>1. m \in Nat /\ \A j \in 1..m : b.with + j - 1 \in 1..last
      BY <2>1, <2>4
    <3>2. \A j \in 1..m : Space(At(b.with + j - 1)) \in Int
      <4> HIDE DEF At, m
      <4> QED
        BY <3>1, <2>2, <1>1, SpaceIs
    <3>3. f \in [1..m -> Int]
      BY <3>2
    <3>4. f \in Seq(Int)
      <4> HIDE DEF f, m
      <4> QED
        BY <3>1, <3>3, ArrayIs
    <3>5. Total(f) \in Int
      <4> HIDE DEF f
      <4> QED
        BY <3>4, TotalTypes
    <3>6. lacks = size - Total(f)
      OBVIOUS
    <3> HIDE DEF f, lacks
    <3> QED
      BY <3>5, <3>6
  <2>6. nuked = SubSeq(cs, 1, k)
    <3>1. cs[b.with].data # <<>> <=> b.with <= k
      BY <2>1, <1>2 DEF Upto
    <3>2. (IF IsEmpty(cs[b.with]) THEN 0 ELSE b.with) = k
      BY <3>1, <2>1, <1>2 DEF IsEmpty, Mark
    <3> HIDE DEF walked
    <3> QED
      BY <2>3, <3>2
  <2>7. more \in Int
    <3>1. Space(cs[b.with]) \in Nat
      BY <2>1, <1>1, SpaceIs
    <3> HIDE DEF nuked, walked
    <3> QED
      BY <3>1, <2>3
  <2>8. \/ ExpandFast(b, size, n, mem) = walked
        \/ ExpandFast(b, size, n, mem) = [walked EXCEPT !.chains = Append(@, ChainNew(lacks))]
        \/ ExpandFast(b, size, n, mem) = [walked EXCEPT !.chains = Append(nuked, ChainNew(more))]
        \/ ExpandFast(b, size, n, mem) = [walked EXCEPT !.chains = nuked]
    BY <1>4, Zenon DEF ExpandFast, stop
  <2> HIDE DEF walked, nuked, more, lacks
  <2>9. Settled([b EXCEPT !.chains = Append(cs, ChainNew(lacks))], s)
    <3> DEFINE c == ChainNew(lacks)
               ds == Append(cs, c)
    <3>1. c \in Chains /\ c.data = <<>>
      BY <2>5, NewChain
    <3> HIDE DEF c, cs
    <3>2. ds \in Seq(Chains) /\ Upto(ds, k) /\ Text(ds) = Text(cs)
      BY <3>1, <1>1, <1>2, EmptyAppended
    <3> HIDE DEF ds
    <3>3. Settled([b EXCEPT !.chains = ds], s)
      BY <3>2, <1>1, <1>2, KeptSound
    <3> QED
      BY <3>3 DEF ds, c
  <2>10. Settled([b EXCEPT !.chains = Append(nuked, ChainNew(more))], s)
    <3> DEFINE c == ChainNew(more)
               ds == Append(SubSeq(cs, 1, k), c)
    <3>1. c \in Chains /\ c.data = <<>>
      BY <2>7, NewChain
    <3> HIDE DEF c, cs
    <3>2. ds \in Seq(Chains) /\ Upto(ds, k) /\ Text(ds) = Text(cs) \o <<>>
      BY <3>1, <1>1, <1>2, UptoAppend
    <3>3. Text(ds) = s
      BY <3>2, <1>1, TextTypes, ConcatEmptySeq
    <3> HIDE DEF ds
    <3>4. Settled([b EXCEPT !.chains = ds], s)
      BY <3>2, <3>3, <1>1, <1>2, KeptSound
    <3> QED
      BY <3>4, <2>6 DEF ds, c
  <2>11. Settled([b EXCEPT !.chains = nuked], s)
    <3> HIDE DEF cs, last
    <3>1. k \in k..Len(cs)
      BY <2>1 DEF last
    <3>2. /\ SubSeq(cs, 1, k) \in Seq(Chains) /\ Upto(SubSeq(cs, 1, k), k)
          /\ Text(SubSeq(cs, 1, k)) = Text(cs)
      BY <3>1, <1>1, <1>2, TextUpto
    <3>3. nuked \in Seq(Chains) /\ Upto(nuked, k) /\ Text(nuked) = s
      BY <3>2, <2>6, <1>1
    <3> QED
      BY <3>3, <1>1, <1>2, KeptSound
  <2> QED
    BY <2>3, <2>8, <2>9, <2>10, <2>11
<1> QED
  BY <1>3, <1>4

\* Bytes that are spread over the chains from f to l, p[i] of them before i.
Spreads(cs, data, f, l, p) ==
  [i \in 1..Len(cs) |-> IF i \in f..l THEN Filled(cs[i], SubSeq(data, p[i] + 1, p[i + 1])) ELSE cs[i]]

LEMMA SpreadIs ==
  ASSUME NEW cs \in Seq(Chains), NEW k, Upto(cs, k), NEW data \in Seq(Int),
         NEW f \in 1..Len(cs), NEW l \in f..Len(cs), k <= f, f <= k + 1,
         NEW p \in [f..l + 1 -> 0..Len(data)], p[f] = 0, p[l + 1] = Len(data),
         \A i \in f..l : p[i] < p[i + 1] /\ p[i + 1] - p[i] <= Space(cs[i])
  PROVE  /\ Spreads(cs, data, f, l, p) \in Seq(Chains)
         /\ Upto(Spreads(cs, data, f, l, p), l)
         /\ Text(Spreads(cs, data, f, l, p)) = Text(cs) \o data
<1> DEFINE n == Len(cs)
           m == Len(data)
           ds == Spreads(cs, data, f, l, p)
           Part(i) == SubSeq(data, p[i] + 1, p[i + 1])
<1>1. /\ n \in Nat /\ m \in Nat /\ k \in 0..n /\ f \in Nat /\ f >= 1 /\ l \in Nat /\ f <= l /\ l <= n
      /\ \A i \in 1..n : cs[i] \in Chains /\ (cs[i].data # <<>> <=> i <= k)
  BY LenProperties DEF Upto
<1>2. ASSUME NEW i \in f..l
      PROVE  /\ i \in 1..n /\ i \in f..l + 1 /\ i + 1 \in f..l + 1 /\ p[i] \in 0..m /\ p[i + 1] \in 0..m
             /\ p[i] < p[i + 1] /\ p[i + 1] - p[i] <= Space(cs[i])
  <2>1. i \in 1..n /\ i \in f..l + 1 /\ i + 1 \in f..l + 1
    BY <1>1
  <2> QED
    BY <2>1
<1>3. ASSUME NEW i \in f..l
      PROVE  /\ Part(i) \in Seq(Int) /\ Part(i) # <<>> /\ Len(Part(i)) <= Space(cs[i])
             /\ SubSeq(data, 1, p[i]) \in Seq(Int)
             /\ SubSeq(data, 1, p[i]) \o Part(i) = SubSeq(data, 1, p[i + 1])
  <2> DEFINE u == p[i]
             v == p[i + 1]
  <2>1. u \in Nat /\ v \in Nat /\ u < v /\ v <= m /\ v - u <= Space(cs[i])
    BY <1>1, <1>2
  <2> HIDE DEF u, v, m
  <2>2. \A j \in 1..m : data[j] \in Int
    BY LenProperties DEF m
  <2>3. /\ SubSeq(data, u + 1, v) \in Seq(Int)
        /\ Len(SubSeq(data, u + 1, v)) = IF u + 1 <= v THEN v - (u + 1) + 1 ELSE 0
    <3>1. u + 1 \in Int /\ v \in Int /\ \A j \in u + 1..v : data[j] \in Int
      BY <2>1, <2>2, <1>1
    <3> QED
      BY <3>1, SubSeqProperties
  <2>4. Len(SubSeq(data, u + 1, v)) = v - u /\ v - u >= 1
    BY <2>1, <2>3
  <2>5. SubSeq(data, u + 1, v) # <<>>
    <3> DEFINE q == SubSeq(data, u + 1, v)
    <3>1. Len(q) = v - u /\ v - u >= 1
      BY <2>4
    <3> HIDE DEF q
    <3>2. q # <<>>
      BY <3>1, EmptySeq
    <3> QED
      BY <3>2 DEF q
  <2>6. SubSeq(data, 1, u) \in Seq(Int)
    <3>1. u \in 0..Len(data)
      BY <2>1, <1>1 DEF m
    <3> QED
      BY <3>1, CutAt
  <2>7. SubSeq(data, 1, u) \o SubSeq(data, u + 1, v) = SubSeq(data, 1, v)
    <3>1. m \in Nat /\ u \in Nat /\ v \in Nat /\ u < v /\ v <= m
      BY <1>1, <2>1
    <3>2. 1 \in 1..m + 1 /\ u \in 1 - 1..m /\ v \in u..m
      BY ONLY <3>1
    <3>3. 1 \in 1..Len(data) + 1 /\ u \in 1 - 1..Len(data) /\ v \in u..Len(data)
      BY <3>2 DEF m
    <3> QED
      BY <3>3, ConcatAdjacentSubSeq
  <2> QED
    BY <2>1, <2>3, <2>4, <2>5, <2>6, <2>7 DEF u, v
<1>4. ASSUME NEW i \in 1..n
      PROVE  /\ ds[i] \in Chains
             /\ i \in f..l => ds[i].data = cs[i].data \o Part(i) /\ ds[i].data # <<>>
             /\ ~(i \in f..l) => ds[i] = cs[i]
  <2>1. ds[i] = IF i \in f..l THEN Filled(cs[i], Part(i)) ELSE cs[i]
    BY DEF Spreads
  <2>2. CASE i \in f..l
    <3>1. Part(i) \in Seq(Int) /\ Part(i) # <<>> /\ Len(Part(i)) <= Space(cs[i]) /\ cs[i] \in Chains
      BY <2>2, <1>1, <1>3
    <3> HIDE DEF Part, ds
    <3>2. /\ Filled(cs[i], Part(i)) \in Chains
          /\ Filled(cs[i], Part(i)).data = cs[i].data \o Part(i)
          /\ Filled(cs[i], Part(i)).data = <<>> <=> cs[i].data = <<>> /\ Part(i) = <<>>
      BY <3>1, FilledIs
    <3> QED
      BY <2>1, <2>2, <3>1, <3>2
  <2>3. CASE ~(i \in f..l)
    <3> HIDE DEF ds
    <3> QED
      BY <2>1, <2>3, <1>1
  <2> QED
    BY <2>2, <2>3
<1>5. ds \in Seq(Chains) /\ Len(ds) = n
  <2>1. ds = [i \in 1..n |-> ds[i]]
    BY DEF Spreads
  <2> HIDE DEF ds
  <2>2. ds \in [1..n -> Chains]
    BY <2>1, <1>4
  <2> QED
    BY <2>2, <1>1, ArrayIs
<1> HIDE DEF ds, Part, m
<1>6. Upto(ds, l)
  <2>1. ASSUME NEW i \in 1..n PROVE ds[i].data # <<>> <=> i <= l
    <3>1. CASE i \in f..l
      <4>1. i <= l
        BY <3>1, <1>1
      <4>2. ds[i].data # <<>>
        BY <3>1, <1>4, Zenon
      <4> QED
        BY ONLY <4>1, <4>2
    <3>2. CASE ~(i \in f..l)
      <4>1. ds[i].data # <<>> <=> i <= k
        BY <3>2, <1>4, <1>1
      <4>2. i <= k <=> i <= l
        BY <3>2, <1>1
      <4> QED
        BY <4>1, <4>2
    <3> QED
      BY <3>1, <3>2
  <2>2. l \in 0..n
    BY <1>1
  <2> QED
    BY <2>1, <2>2, <1>5 DEF Upto
<1> DEFINE Same(i) == Text(SubSeq(ds, 1, i - 1)) = Text(SubSeq(cs, 1, i - 1)) \o SubSeq(data, 1, p[i])
           T == {j \in Nat : f + j <= l + 1 => Same(f + j)}
<1>7. Same(f)
  <2>1. f - 1 \in 0..n
    BY <1>1
  <2>2. /\ SubSeq(cs, 1, f - 1) \in Seq(Chains) /\ Len(SubSeq(cs, 1, f - 1)) = f - 1
        /\ \A j \in 1..f - 1 : SubSeq(cs, 1, f - 1)[j] = cs[j]
    <3>1. cs \in Seq(Chains) /\ f - 1 \in 0..Len(cs)
      BY <2>1
    <3> QED
      BY ONLY <3>1, CutAt, Zenon
  <2>3. /\ SubSeq(ds, 1, f - 1) \in Seq(Chains) /\ Len(SubSeq(ds, 1, f - 1)) = f - 1
        /\ \A j \in 1..f - 1 : SubSeq(ds, 1, f - 1)[j] = ds[j]
    BY <2>1, <1>5, CutAt
  <2>4. \A j \in 1..f - 1 : j \in 1..n /\ ~(j \in f..l)
    BY <1>1
  <2>5. \A j \in 1..f - 1 : SubSeq(ds, 1, f - 1)[j].data = SubSeq(cs, 1, f - 1)[j].data
    BY <2>2, <2>3, <2>4, <1>4
  <2>6. Text(SubSeq(ds, 1, f - 1)) = Text(SubSeq(cs, 1, f - 1))
    <3> DEFINE x == SubSeq(ds, 1, f - 1)
               y == SubSeq(cs, 1, f - 1)
    <3>1. /\ x \in Seq(Chains) /\ y \in Seq(Chains) /\ Len(x) = Len(y)
          /\ \A j \in 1..Len(x) : x[j].data = y[j].data
      BY <2>2, <2>3, <2>5
    <3> HIDE DEF x, y
    <3>2. Text(x) = Text(y)
      BY <3>1, TextSame
    <3> QED
      BY <3>2 DEF x, y
  <2>7. SubSeq(data, 1, p[f]) = <<>>
    <3>1. 0 \in 0..Len(data)
      BY <1>1 DEF m
    <3>2. SubSeq(data, 1, 0) \in Seq(Int) /\ Len(SubSeq(data, 1, 0)) = 0
      BY <3>1, CutAt
    <3> QED
      BY <3>2, EmptySeq
  <2>8. Text(SubSeq(cs, 1, f - 1)) \o <<>> = Text(SubSeq(cs, 1, f - 1))
    BY <2>2, TextTypes, ConcatEmptySeq
  <2> QED
    BY <2>6, <2>7, <2>8
<1>8. ASSUME NEW i \in f..l, Same(i) PROVE Same(i + 1)
  <2> DEFINE t == Text(SubSeq(cs, 1, i - 1))
             u == SubSeq(data, 1, p[i])
             v == cs[i].data
             w == Part(i)
  <2>1. /\ Text(SubSeq(ds, 1, i)) = Text(SubSeq(ds, 1, i - 1)) \o ds[i].data
        /\ Text(SubSeq(cs, 1, i)) = t \o v /\ SubSeq(cs, 1, i - 1) \in Seq(Chains)
    <3>1. i \in 1..Len(cs) /\ i \in 1..Len(ds)
      BY <1>2, <1>5
    <3> QED
      BY <3>1, <1>5, TextAt
  <2>2. Text(SubSeq(ds, 1, i)) = (t \o u) \o (v \o w)
    <3>1. ds[i].data = v \o w
      BY <1>2, <1>4
    <3> QED
      BY <3>1, <2>1, <1>8
  <2>3. t \in Seq(Int) /\ u \in Seq(Int) /\ v \in Seq(Int) /\ w \in Seq(Int)
    BY <2>1, <1>1, <1>2, <1>3, TextTypes, ChainIs
  <2>4. u \o w = SubSeq(data, 1, p[i + 1])
    BY <1>3
  <2>5. u = <<>> \/ v = <<>>
    <3>1. CASE i = f
      <4>1. 0 \in 0..Len(data)
        BY <1>1 DEF m
      <4>2. SubSeq(data, 1, 0) \in Seq(Int) /\ Len(SubSeq(data, 1, 0)) = 0
        BY <4>1, CutAt
      <4>3. u = SubSeq(data, 1, 0)
        BY <3>1
      <4> HIDE DEF u
      <4> QED
        BY <4>2, <4>3, EmptySeq
    <3>2. CASE i # f
      <4>1. i \in 1..n /\ ~(i <= k)
        <5>1. f \in Nat /\ k \in Nat /\ i \in 1..n /\ i \in f..l /\ i # f /\ k <= f
          BY <3>2, <1>1, <1>2
        <5> QED
          BY ONLY <5>1
      <4> QED
        BY <4>1, <1>1
    <3> QED
      BY <3>1, <3>2
  <2> HIDE DEF t, u, v, w, Part
  <2>6. (t \o u) \o (v \o w) = (t \o v) \o (u \o w)
    <3>1. CASE u = <<>>
      <4>1. t \o u = t /\ u \o w = w
        BY <3>1, <2>3, ConcatEmptySeq
      <4>2. t \o (v \o w) = (t \o v) \o w
        <5>1. Regroups(t, v, w)
          BY ONLY <2>3, Regrouped
        <5> QED
          BY <5>1 DEF Regroups
      <4> QED
        BY <4>1, <4>2
    <3>2. CASE v = <<>>
      <4>1. t \o v = t /\ v \o w = w
        BY <3>2, <2>3, ConcatEmptySeq
      <4>2. t \o (u \o w) = (t \o u) \o w
        <5>1. Regroups(t, u, w)
          BY ONLY <2>3, Regrouped
        <5> QED
          BY <5>1 DEF Regroups
      <4> QED
        BY <4>1, <4>2
    <3> QED
      BY <2>5, <3>1, <3>2
  <2>7. (i + 1) - 1 = i
    BY <1>1
  <2>8. Text(SubSeq(ds, 1, i)) = Text(SubSeq(cs, 1, i)) \o SubSeq(data, 1, p[i + 1])
    BY <2>1, <2>2, <2>4, <2>6
  <2> QED
    BY <2>7, <2>8
<1>9. \A j \in Nat : j \in T
  <2>1. 0 \in T
    <3>1. f + 0 = f
      BY <1>1
    <3> HIDE DEF Same
    <3> QED
      BY <3>1, <1>7
  <2>2. ASSUME NEW j \in Nat, j \in T PROVE j + 1 \in T
    <3> HIDE DEF Same
    <3>1. ASSUME f + (j + 1) <= l + 1 PROVE Same(f + (j + 1))
      <4>1. f + j \in f..l /\ f + (j + 1) = (f + j) + 1 /\ f + j <= l + 1
        BY <3>1, <1>1
      <4>2. Same(f + j)
        BY <4>1, <2>2
      <4> QED
        BY <4>1, <4>2, <1>8
    <3> QED
      BY <3>1
  <2> HIDE DEF T
  <2> QED
    BY <2>1, <2>2, Induction
<1>10. Same(l + 1)
  <2>1. (l + 1) - f \in Nat /\ f + ((l + 1) - f) = l + 1 /\ f + ((l + 1) - f) <= l + 1
    BY <1>1
  <2>2. (l + 1) - f \in T
    <3> HIDE DEF T
    <3> QED
      BY <2>1, <1>9
  <2> HIDE DEF Same
  <2> QED
    BY <2>1, <2>2
<1>11. /\ Text(SubSeq(ds, 1, l)) = Text(ds) /\ Text(SubSeq(cs, 1, l)) = Text(cs)
  <2>1. l \in l..Len(ds) /\ l \in k..Len(cs)
    BY <1>1, <1>5
  <2> QED
    BY <2>1, <1>5, <1>6, TextUpto
<1>12. SubSeq(data, 1, p[l + 1]) = data
  BY SubSeqFull DEF m
<1>13. (l + 1) - 1 = l
  BY <1>1
<1> QED
  BY <1>5, <1>6, <1>10, <1>11, <1>12, <1>13 DEF ds

\* Where the bytes end that are read into the space from f on.
LastOf(cs, f, n) == Min({i \in f..Len(cs) : SpaceTo(cs, f, i) + Space(cs[i]) >= n})

LEMMA LastIs ==
  ASSUME NEW cs \in Seq(Chains), NEW k, Upto(cs, k), NEW f \in 1..Len(cs), k <= f, f <= k + 1,
         k = f => Space(cs[f]) # 0, NEW n \in Nat, n >= 1, SpaceTo(cs, f, Len(cs) + 1) >= n
  PROVE  LET l == LastOf(cs, f, n)
         IN /\ l \in f..Len(cs)
            /\ \A i \in f..l : SpaceTo(cs, f, i) \in 0..n /\ SpaceTo(cs, f, i) < n /\ Space(cs[i]) >= 1
            /\ \A i \in f..l : i # l => SpaceTo(cs, f, i + 1) = SpaceTo(cs, f, i) + Space(cs[i])
            /\ \A i \in f..l : i # l => SpaceTo(cs, f, i) + Space(cs[i]) < n
            /\ SpaceTo(cs, f, l) + Space(cs[l]) >= n
<1> DEFINE B(i) == SpaceTo(cs, f, i)
           m == Len(cs)
           E == {i \in f..m : B(i) + Space(cs[i]) >= n}
           l == LastOf(cs, f, n)
<1>1. /\ m \in Nat /\ f \in Nat /\ f >= 1 /\ f <= m /\ f \in 1..m + 1 /\ k \in 0..m
      /\ \A i \in 1..m : cs[i] \in Chains /\ (cs[i].data # <<>> <=> i <= k)
  BY LenProperties DEF Upto
<1>2. /\ B(f) = 0 /\ \A i \in f..m : B(i + 1) = B(i) + Space(cs[i])
  BY <1>1, SpaceToSteps
<1>3. \A i \in f..m + 1 : B(i) \in Nat
  BY <1>1, SpaceToTypes
<1>4. \A i \in f..m : Space(cs[i]) \in Nat /\ Space(cs[i]) >= 1
  <2> SUFFICES ASSUME NEW i \in f..m PROVE Space(cs[i]) \in Nat /\ Space(cs[i]) >= 1
    OBVIOUS
  <2>1. i \in 1..m /\ cs[i] \in Chains
    BY <1>1
  <2>2. Space(cs[i]) \in Nat /\ (cs[i].data = <<>> => Space(cs[i]) >= 1)
    BY <2>1, SpaceIs
  <2>3. CASE i <= k
    <3>1. i = f /\ k = f
      BY <2>3, <1>1
    <3> QED
      BY <2>2, <3>1
  <2>4. CASE ~(i <= k)
    BY <2>1, <2>2, <2>4, <1>1
  <2> QED
    BY <2>3, <2>4
<1> HIDE DEF B, m
<1>5. m \in E
  <2>1. m \in f..m
    BY <1>1
  <2>2. B(m + 1) = B(m) + Space(cs[m])
    BY <2>1, <1>2
  <2>3. B(m + 1) >= n
    BY DEF B, m
  <2> QED
    BY <2>1, <2>2, <2>3
<1>6. l = Min(E)
  BY DEF LastOf, B, m
<1>7. l \in E /\ \A i \in E : l <= i
  <2>1. f \in Int /\ m \in Int /\ E \subseteq f..m /\ E # {}
    BY <1>1, <1>5
  <2> HIDE DEF E, l
  <2>2. Min(E) \in E /\ \A i \in E : Min(E) <= i
    BY ONLY <2>1, LowestIs
  <2> QED
    BY <2>2, <1>6
<1> HIDE DEF l
<1>8. l \in f..m /\ B(l) + Space(cs[l]) >= n
  BY <1>7
<1>9. ASSUME NEW i \in f..l, i # l
      PROVE  B(i + 1) = B(i) + Space(cs[i]) /\ B(i) + Space(cs[i]) < n
  <2>1. i \in f..m /\ ~(l <= i) /\ i \in f..m + 1
    BY <1>1, <1>8, <1>9
  <2>2. ~(B(i) + Space(cs[i]) >= n)
    BY <2>1, <1>7
  <2>3. B(i) \in Nat /\ Space(cs[i]) \in Nat
    BY <2>1, <1>3, <1>4
  <2> QED
    BY <2>1, <2>2, <2>3, <1>2
<1>10. ASSUME NEW i \in f..l PROVE B(i) \in 0..n /\ B(i) < n /\ Space(cs[i]) >= 1
  <2>1. i \in f..m /\ i \in f..m + 1
    BY <1>1, <1>8
  <2>2. B(i) \in Nat /\ Space(cs[i]) >= 1
    BY <2>1, <1>3, <1>4
  <2>3. B(i) < n
    <3>1. CASE i = f
      BY <3>1, <1>2
    <3>2. CASE i # f
      <4>1. i - 1 \in f..l /\ i - 1 # l /\ (i - 1) + 1 = i
        BY <3>2, <1>1, <1>8
      <4>2. B((i - 1) + 1) = B(i - 1) + Space(cs[i - 1]) /\ B(i - 1) + Space(cs[i - 1]) < n
        BY <4>1, <1>9
      <4> QED
        BY <4>1, <4>2
    <3> QED
      BY <3>1, <3>2
  <2> QED
    BY <2>2, <2>3
<1> QED
  BY <1>8, <1>9, <1>10 DEF B, m, l

\* What evbuffer_read() reads is added, if there is the space for it.
LEMMA ReadWorks ==
  ASSUME NEW b, NEW s, Settled(b, s), NEW data \in Seq(Int), Len(data) >= 1,
         NEW size \in Nat, Len(data) <= size, Expanded(b, size)
  PROVE  Settled(ReadInto(b, data), s \o data)
<1> DEFINE cs == b.chains
           m == Len(cs)
           n == Len(data)
           w == b.with
           f == FirstWithSpace(b)
           B(i) == SpaceTo(cs, f, i)
           l == LastOf(cs, f, n)
           p == [i \in f..l + 1 |-> IF i = l + 1 THEN n ELSE B(i)]
           ds == Spreads(cs, data, f, l, p)
<1>1. /\ Sound(b, s) /\ b \in Buffer /\ cs \in Seq(Chains) /\ m \in Nat /\ Text(cs) = s
      /\ s \in Seq(Int) /\ n \in Nat /\ w \in Int
      /\ \A i \in 1..m : cs[i] \in Chains
      /\ \E k : Upto(cs, k) /\ w = Mark(k)
  BY SoundIs, LenProperties DEF Settled
<1>2. PICK k : Upto(cs, k) /\ w = Mark(k)
  BY <1>1
<1>3. k \in 0..m
  BY <1>2 DEF Upto
<1>4. Expanded(b, size) <=> SpaceTo(cs, w, m + 1) >= size
  <2>1. m - w + 1 = (m + 1) - w
    BY <1>1
  <2>2. [i \in 1..m - w + 1 |-> Space(cs[w + i - 1])] = [i \in 1..(m + 1) - w |-> Space(cs[w + i - 1])]
    BY <2>1
  <2> QED
    BY <2>2 DEF Expanded, SpaceTo
<1>5. m >= 1
  <2>1. CASE m = 0
    <3>1. w = 1 /\ 0 + 1 - 1 = 0
      BY <2>1, <1>2, <1>3 DEF Mark
    <3>2. SpaceTo(cs, 1, 1) = 0
      <4>1. 1 \in 1..Len(cs) + 1
        BY <1>1
      <4> QED
        BY <4>1, <1>1, SpaceToSteps
    <3>3. SpaceTo(cs, w, m + 1) = 0
      BY <3>1, <3>2, <2>1
    <3> QED
      BY <3>3, <1>1, <1>4
  <2> QED
    BY <2>1, <1>1
<1>6. w \in 1..m /\ w \in Nat
  BY <1>2, <1>3, <1>5 DEF Mark
<1>7. f = IF Space(cs[w]) = 0 THEN w + 1 ELSE w
  BY DEF FirstWithSpace
<1> HIDE DEF cs, m, n, w, f
<1>8. /\ f \in 1..m /\ k <= f /\ f <= k + 1 /\ (k = f => Space(cs[f]) # 0)
      /\ SpaceTo(cs, f, m + 1) >= n
  <2>1. SpaceTo(cs, w, m + 1) >= size
    BY <1>4
  <2>2. SpaceTo(cs, w, m + 1) \in Nat /\ SpaceTo(cs, w, m + 1) >= n
    <3>1. w \in 1..Len(cs) + 1 /\ m + 1 \in w..Len(cs) + 1
      BY <1>1, <1>6 DEF m
    <3>2. SpaceTo(cs, w, m + 1) \in Nat
      BY <3>1, <1>1, SpaceToTypes
    <3>3. n <= size
      BY DEF n
    <3> QED
      BY <3>2, <3>3, <2>1, <1>1
  <2>3. CASE Space(cs[w]) # 0
    <3>1. f = w
      BY <2>3, <1>7
    <3>2. k <= w /\ w <= k + 1
      BY <1>2, <1>3 DEF Mark
    <3> QED
      BY <3>1, <3>2, <2>2, <2>3, <1>6
  <2>4. CASE Space(cs[w]) = 0
    <3>1. f = w + 1
      BY <2>4, <1>7
    <3>2. k = w
      <4>1. CASE k = 0
        <5>1. w = 1 /\ w \in 1..Len(cs) /\ ~(w <= k)
          BY <4>1, <1>2, <1>6 DEF Mark, m
        <5>2. cs[w].data = <<>> /\ cs[w] \in Chains
          BY <5>1, <1>1, <1>2, <1>6 DEF Upto
        <5> QED
          BY <5>2, <2>4, SpaceIs
      <4> QED
        BY <4>1, <1>2 DEF Mark
    <3>3. \A i \in w + 1..m + 1 : SpaceTo(cs, w, i) = SpaceTo(cs, w + 1, i)
      BY <2>4, <1>1, <1>6, SpaceToSkips DEF m
    <3>4. SpaceTo(cs, f, m + 1) = SpaceTo(cs, w, m + 1)
      <4>1. m + 1 \in w + 1..m + 1
        BY <1>1, <1>6
      <4> QED
        BY <3>1, <3>3, <4>1
    <3>5. w # m
      <4>1. CASE w = m
        <5>1. w + 1 \in 1..Len(cs) + 1
          BY <1>1, <1>6 DEF m
        <5>2. SpaceTo(cs, w + 1, w + 1) = 0
          BY <5>1, <1>1, SpaceToSteps
        <5>3. n >= 1
          BY DEF n
        <5> QED
          BY <5>2, <5>3, <4>1, <3>1, <3>4, <2>2, <1>1
      <4> QED
        BY <4>1
    <3> QED
      BY <3>1, <3>2, <3>4, <3>5, <2>2, <1>1, <1>6
  <2> QED
    BY <2>3, <2>4
<1>9. /\ l \in f..m
      /\ \A i \in f..l : B(i) \in 0..n /\ B(i) < n /\ Space(cs[i]) >= 1
      /\ \A i \in f..l : i # l => B(i + 1) = B(i) + Space(cs[i])
      /\ \A i \in f..l : i # l => B(i) + Space(cs[i]) < n
      /\ B(l) + Space(cs[l]) >= n
  <2>1. /\ cs \in Seq(Chains) /\ Upto(cs, k) /\ f \in 1..Len(cs) /\ k <= f /\ f <= k + 1
        /\ (k = f => Space(cs[f]) # 0) /\ n \in Nat /\ n >= 1 /\ SpaceTo(cs, f, Len(cs) + 1) >= n
    BY <1>1, <1>2, <1>8 DEF m, n
  <2> HIDE DEF l
  <2>2. LET q == LastOf(cs, f, n)
        IN /\ q \in f..Len(cs)
           /\ \A i \in f..q : SpaceTo(cs, f, i) \in 0..n /\ SpaceTo(cs, f, i) < n /\ Space(cs[i]) >= 1
           /\ \A i \in f..q : i # q => SpaceTo(cs, f, i + 1) = SpaceTo(cs, f, i) + Space(cs[i])
           /\ \A i \in f..q : i # q => SpaceTo(cs, f, i) + Space(cs[i]) < n
           /\ SpaceTo(cs, f, q) + Space(cs[q]) >= n
    BY ONLY <2>1, LastIs
  <2> QED
    BY <2>2 DEF l, m
<1>10. B(f) = 0
  <2>1. f \in 1..Len(cs) + 1
    BY <1>1, <1>8 DEF m
  <2> QED
    BY <2>1, <1>1, SpaceToSteps
<1>11. \A i \in f..l : Space(cs[i]) \in Nat /\ i \in 1..m
  <2>1. \A i \in f..l : i \in 1..m
    BY <1>1, <1>8, <1>9
  <2> QED
    BY <2>1, <1>1, SpaceIs
<1> HIDE DEF l, B
<1>12. f \in Nat /\ l \in Nat /\ f <= l
  BY <1>1, <1>8, <1>9
<1>13. /\ p \in [f..l + 1 -> 0..n] /\ p[f] = 0 /\ p[l + 1] = n
       /\ \A i \in f..l : p[i] = B(i)
       /\ \A i \in f..l : p[i + 1] = IF i = l THEN n ELSE B(i) + Space(cs[i])
  <2>1. \A i \in f..l + 1 : i = l + 1 \/ i \in f..l
    BY <1>12
  <2>2. p \in [f..l + 1 -> 0..n]
    BY <2>1, <1>1, <1>9
  <2>3. \A i \in f..l : i \in f..l + 1 /\ i # l + 1 /\ i + 1 \in f..l + 1 /\ (i + 1 = l + 1 <=> i = l)
    BY <1>12
  <2>4. f \in f..l /\ l + 1 \in f..l + 1
    BY <1>12
  <2> QED
    BY <2>2, <2>3, <2>4, <1>9, <1>10
<1> HIDE DEF p
<1>14. \A i \in f..l : p[i] < p[i + 1] /\ p[i + 1] - p[i] <= Space(cs[i])
  <2> SUFFICES ASSUME NEW i \in f..l PROVE p[i] < p[i + 1] /\ p[i + 1] - p[i] <= Space(cs[i])
    OBVIOUS
  <2> DEFINE x == B(i)
             y == Space(cs[i])
  <2>1. /\ x \in Nat /\ y \in Nat /\ x < n /\ y >= 1 /\ n \in Nat
        /\ p[i] = x /\ p[i + 1] = IF i = l THEN n ELSE x + y
        /\ i = l => x + y >= n
    BY <1>1, <1>9, <1>11, <1>13
  <2> HIDE DEF x, y
  <2>2. p[i] < p[i + 1] /\ p[i + 1] - p[i] <= y
    BY ONLY <2>1
  <2> QED
    BY <2>2 DEF y
<1>15. ds \in Seq(Chains) /\ Upto(ds, l) /\ Text(ds) = s \o data
  <2>1. /\ cs \in Seq(Chains) /\ Upto(cs, k) /\ data \in Seq(Int) /\ f \in 1..Len(cs)
        /\ l \in f..Len(cs) /\ k <= f /\ f <= k + 1 /\ p \in [f..l + 1 -> 0..Len(data)]
        /\ p[f] = 0 /\ p[l + 1] = Len(data)
        /\ \A i \in f..l : p[i] < p[i + 1] /\ p[i + 1] - p[i] <= Space(cs[i])
    BY <1>1, <1>2, <1>8, <1>9, <1>13, <1>14 DEF m, n
  <2>2. /\ Spreads(cs, data, f, l, p) \in Seq(Chains)
        /\ Upto(Spreads(cs, data, f, l, p), l)
        /\ Text(Spreads(cs, data, f, l, p)) = Text(cs) \o data
    BY ONLY <2>1, SpreadIs
  <2> QED
    BY <2>2, <1>1
<1>16. \A i \in f..l : SubSeq(data, p[i] + 1, p[i + 1])
                         = SubSeq(data, B(i) + 1, Min({B(i) + Space(cs[i]), n}))
  <2> SUFFICES ASSUME NEW i \in f..l PROVE p[i] = B(i) /\ p[i + 1] = Min({B(i) + Space(cs[i]), n})
    OBVIOUS
  <2> DEFINE x == B(i) + Space(cs[i])
  <2>1. x \in Int /\ n \in Int
    BY <1>1, <1>9, <1>11
  <2>2. p[i] = B(i) /\ p[i + 1] = (IF i = l THEN n ELSE x) /\ (i = l => x >= n) /\ (i # l => x < n)
    BY <1>9, <1>13
  <2> HIDE DEF x
  <2>3. Min({x, n}) = IF x <= n THEN x ELSE n
    BY <2>1, LargerOf
  <2>4. p[i + 1] = Min({x, n})
    BY ONLY <2>1, <2>2, <2>3
  <2> QED
    BY <2>2, <2>4 DEF x
<1>17. ReadInto(b, data) = Invoke(Counted([b EXCEPT !.chains = ds, !.with = l], n))
  <2> DEFINE es == [i \in DOMAIN cs |-> IF i \in f..l
                      THEN Filled(cs[i], SubSeq(data, B(i) + 1, Min({B(i) + Space(cs[i]), n})))
                      ELSE cs[i]]
  <2>1. es = ds
    <3>1. DOMAIN cs = 1..Len(cs)
      BY <1>1, LenProperties
    <3> QED
      BY <3>1, <1>16 DEF Spreads
  <2>2. ReadInto(b, data) = Invoke(Counted([b EXCEPT !.chains = es, !.with = l], n))
    BY DEF ReadInto, LastOf, SpaceTo, B, l, f, cs, n
  <2> HIDE DEF es, ds
  <2> QED
    BY <2>1, <2>2
<1> HIDE DEF ds
<1>18. Sound(Counted([b EXCEPT !.chains = ds, !.with = l], n), s \o data)
  <2>1. Len(Text(ds)) = Len(s) + n
    BY <1>1, <1>15, ConcatProperties DEF n
  <2>2. l = Mark(l) /\ l \in Int /\ n \in Int
    BY <1>8, <1>9, <1>12, <1>1 DEF Mark
  <2>3. Sound(Counted([b EXCEPT !.chains = ds, !.with = l], n), Text(ds))
    BY <2>1, <2>2, <1>1, <1>15, ListedSound
  <2> QED
    BY <2>3, <1>15
<1> QED
  BY <1>17, <1>18, Invoked

-----------------------------------------------------------------------------
(* The bytes that no buffer holds: there are as many as Sizes says.        *)

LEMMA Increasing ==
  ASSUME NEW m \in Nat
  PROVE  \A n \in Nat : \A t \in SUBSET (1..m) : Cardinality(t) >= n =>
           \E s \in [1..n -> t] : \A i \in 1..n - 1 : s[i] < s[i + 1]
<1> DEFINE Has(n, t) == \E s \in [1..n -> t] : \A i \in 1..n - 1 : s[i] < s[i + 1]
           T == {n \in Nat : \A t \in SUBSET (1..m) : Cardinality(t) >= n => Has(n, t)}
<1>1. \A t \in SUBSET (1..m) : IsFiniteSet(t) /\ Cardinality(t) \in Nat
  <2>1. 1 \in Int /\ m \in Int
    OBVIOUS
  <2>2. IsFiniteSet(1..m)
    BY <2>1, FS_Interval
  <2>3. ASSUME NEW t \in SUBSET (1..m) PROVE IsFiniteSet(t) /\ Cardinality(t) \in Nat
    <3>1. IsFiniteSet(t)
      BY <2>2, FS_Subset
    <3> QED
      BY <3>1, FS_CardinalityType
  <2> QED
    BY <2>3
<1>2. 0 \in T
  <2>1. ASSUME NEW t \in SUBSET (1..m) PROVE Has(0, t)
    <3>1. [i \in 1..0 |-> 0] \in [1..0 -> t] /\ 1..0 - 1 = {}
      OBVIOUS
    <3> QED
      BY <3>1
  <2> QED
    BY <2>1
<1>3. ASSUME NEW n \in Nat, n \in T, NEW t \in SUBSET (1..m), Cardinality(t) >= n + 1
      PROVE  Has(n + 1, t)
  <2>1. t # {}
    BY <1>1, <1>3, FS_EmptySet
  <2> DEFINE g == Max(t)
             r == t \ {g}
  <2>2. g \in t /\ \A k \in t : k <= g
    BY <2>1, Greatest
  <2> HIDE DEF g
  <2>3. Cardinality(r) = Cardinality(t) - 1
    BY <2>2, <1>1, FS_RemoveElement
  <2>4. Cardinality(r) >= n /\ r \in SUBSET (1..m)
    <3>1. r \in SUBSET (1..m)
      BY <1>3
    <3>2. Cardinality(t) \in Nat /\ Cardinality(t) >= n + 1
      BY <1>1, <1>3
    <3> HIDE DEF r
    <3> QED
      BY <3>1, <3>2, <2>3
  <2>5. Has(n, r)
    <3> HIDE DEF Has, r
    <3> QED
      BY <2>4, <1>3
  <2>6. PICK s \in [1..n -> r] : \A i \in 1..n - 1 : s[i] < s[i + 1]
    BY <2>5
  <2> DEFINE u == [i \in 1..n + 1 |-> IF i = n + 1 THEN g ELSE s[i]]
  <2>7. \A i \in 1..n : i \in 1..n + 1 /\ i # n + 1 /\ u[i] = s[i] /\ s[i] \in t /\ s[i] # g
    BY <2>6
  <2>8. u[n + 1] = g
    OBVIOUS
  <2>9. u \in [1..n + 1 -> t]
    <3>1. \A i \in 1..n + 1 : i = n + 1 \/ i \in 1..n
      OBVIOUS
    <3> QED
      BY <3>1, <2>2, <2>7
  <2> HIDE DEF u
  <2>10. ASSUME NEW i \in 1..(n + 1) - 1 PROVE u[i] < u[i + 1]
    <3>1. CASE i = n
      <4>1. n \in 1..n
        BY <3>1
      <4>2. u[n] \in t /\ u[n] # g
        BY <4>1, <2>7
      <4>3. u[n] <= g /\ u[n] \in Int /\ g \in Int
        <5>1. \A k \in t : k \in Int
          BY <1>3
        <5> QED
          BY ONLY <5>1, <4>2, <2>2
      <4> QED
        BY <4>2, <4>3, <2>8, <3>1
    <3>2. CASE i # n
      <4>1. i \in 1..n - 1 /\ i \in 1..n /\ i + 1 \in 1..n
        BY <3>2
      <4>2. u[i] = s[i] /\ u[i + 1] = s[i + 1] /\ s[i] < s[i + 1]
        BY <4>1, <2>6, <2>7
      <4> QED
        BY <4>2
    <3> QED
      BY <3>1, <3>2
  <2> QED
    BY <2>9, <2>10
<1>4. \A n \in Nat : n \in T
  <2>1. ASSUME NEW n \in Nat, n \in T PROVE n + 1 \in T
    <3> HIDE DEF Has
    <3> QED
      BY <2>1, <1>3
  <2> HIDE DEF T
  <2> QED
    BY <1>2, <2>1, Induction
<1>5. ASSUME NEW n \in Nat, NEW t \in SUBSET (1..m), Cardinality(t) >= n PROVE Has(n, t)
  <2>1. n \in T
    <3> HIDE DEF T
    <3> QED
      BY <1>4
  <2> HIDE DEF Has
  <2> QED
    BY <2>1, <1>5
<1> QED
  BY <1>5

Strings == Seq(1..MaxBytes)

LEMMA FreshIs ==
  ASSUME \A x \in Buffers : bytes[x] \in Strings, NEW n \in Sizes
  PROVE  /\ n \in Nat /\ n >= 1
         /\ Fresh(n) \in Strings /\ Fresh(n) \in Seq(Int) /\ Len(Fresh(n)) = n /\ Fresh(n) # <<>>
<1> DEFINE all == 1..MaxBytes
           free == all \ Used
<1>1. MaxBytes \in Nat /\ MaxSize \in Nat
  BY EvbufferAssumption
<1>2. IsFiniteSet(all) /\ Cardinality(all) = MaxBytes
  BY <1>1, FS_Interval
<1>3. Used \subseteq all
  <2>1. ASSUME NEW x \in Buffers PROVE ToSet(bytes[x]) \subseteq all
    <3>1. bytes[x] \in Seq(all)
      BY DEF Strings
    <3>2. DOMAIN bytes[x] = 1..Len(bytes[x]) /\ \A i \in 1..Len(bytes[x]) : bytes[x][i] \in all
      <4> HIDE DEF all
      <4> QED
        BY <3>1, LenProperties
    <3> QED
      BY <3>2 DEF ToSet
  <2> QED
    BY <2>1 DEF Used
<1> HIDE DEF all
<1>4. /\ IsFiniteSet(Used) /\ Cardinality(Used) \in Nat
      /\ Cardinality(free) = MaxBytes - Cardinality(Used)
  <2>1. all \cap Used = Used
    BY <1>3
  <2>2. IsFiniteSet(Used) /\ Cardinality(Used) \in Nat
    BY <1>2, <1>3, FS_Subset, FS_CardinalityType
  <2>3. Cardinality(free) = Cardinality(all) - Cardinality(all \cap Used)
    BY <1>2, FS_Difference
  <2> QED
    BY <2>1, <2>2, <2>3, <1>2
<1>5. n \in Nat /\ n >= 1 /\ n <= Cardinality(free)
  <2> DEFINE left == MaxBytes - Cardinality(Used)
  <2>1. left \in Int /\ MaxSize \in Int
    BY <1>1, <1>4
  <2>2. n \in 1..Min({MaxSize, left})
    BY DEF Sizes
  <2>3. Cardinality(free) = left
    BY <1>4
  <2> HIDE DEF left
  <2>4. Min({MaxSize, left}) = IF MaxSize <= left THEN MaxSize ELSE left
    BY <2>1, LargerOf
  <2> QED
    BY <2>1, <2>2, <2>3, <2>4
<1>6. free \in SUBSET (1..MaxBytes) /\ Cardinality(free) >= n
  <2>1. Cardinality(free) \in Int
    BY <1>1, <1>4
  <2> QED
    BY <2>1, <1>5 DEF all
<1>7. Fresh(n) = CHOOSE s \in [1..n -> free] : \A i \in 1..n - 1 : s[i] < s[i + 1]
  BY DEF Fresh, all
<1> HIDE DEF free
<1>8. \E s \in [1..n -> free] : \A i \in 1..n - 1 : s[i] < s[i + 1]
  BY <1>1, <1>5, <1>6, Increasing
<1>9. Fresh(n) \in [1..n -> free]
  BY <1>7, <1>8
<1>10. Fresh(n) \in [1..n -> 1..MaxBytes] /\ Fresh(n) \in [1..n -> Int]
  <2> DEFINE s == Fresh(n)
  <2>1. free \subseteq 1..MaxBytes /\ free \subseteq Int /\ s \in [1..n -> free]
    BY <1>1, <1>6, <1>9
  <2> HIDE DEF s
  <2>2. s \in [1..n -> 1..MaxBytes] /\ s \in [1..n -> Int]
    BY <2>1
  <2> QED
    BY <2>2 DEF s
<1>11. Fresh(n) \in Seq(1..MaxBytes) /\ Len(Fresh(n)) = n /\ Fresh(n) \in Seq(Int)
  BY <1>5, <1>10, ArrayIs
<1>12. Fresh(n) # <<>>
  <2> DEFINE s == Fresh(n)
  <2>1. Len(s) = n
    BY <1>11
  <2> HIDE DEF s
  <2>2. s # <<>>
    BY <2>1, <1>5, EmptySeq
  <2> QED
    BY <2>2 DEF s
<1> QED
  BY <1>5, <1>11, <1>12 DEF Strings

LEMMA StringsCut ==
  ASSUME NEW s \in Strings, NEW n \in Nat
  PROVE  Drop(s, n) \in Strings
<1>1. Len(s) \in Nat /\ s \in Seq(1..MaxBytes)
  BY LenProperties DEF Strings
<1>2. CASE n <= Len(s)
  <2>1. n \in 0..Len(s)
    BY <1>1, <1>2
  <2> QED
    BY <2>1, <1>1, CutAt DEF Strings
<1>3. CASE n >= Len(s)
  <2>1. n + 1 \in Int /\ Len(s) \in Int /\ \A i \in n + 1..Len(s) : s[i] \in 1..MaxBytes
    BY <1>1, <1>3
  <2>2. SubSeq(s, n + 1, Len(s)) \in Seq(1..MaxBytes)
    BY <2>1, SubSeqProperties
  <2> QED
    BY <2>2 DEF Drop, Strings
<1> QED
  BY <1>1, <1>2, <1>3

-----------------------------------------------------------------------------
(* The inductive invariant: each buffer is settled with its string, which  *)
(* is of the bytes that the callers use.  That the chains with data come   *)
(* first in the list, which Settled says, is what keeps last_with_datap    *)
(* and the bytes right; the four invariants do not say it.                 *)

Holding ==
  /\ bufs = [x \in Buffers |-> bufs[x]]
  /\ bytes = [x \in Buffers |-> bytes[x]]
  /\ \A x \in Buffers : Settled(bufs[x], bytes[x]) /\ bytes[x] \in Strings

LEMMA BecomesKeeps ==
  ASSUME Holding, NEW x \in Buffers, NEW b, NEW s, Settled(b, s), s \in Strings, Becomes(x, b, s)
  PROVE  Holding'
<1>1. /\ bufs' = [bufs EXCEPT ![x] = b]
      /\ bytes' = [bytes EXCEPT ![x] = s]
  BY DEF Becomes
<1>2. \A z \in Buffers : bufs'[z] = (IF z = x THEN b ELSE bufs[z]) /\ bytes'[z] = (IF z = x THEN s ELSE bytes[z])
  BY <1>1 DEF Holding
<1>3. bufs' = [z \in Buffers |-> bufs'[z]] /\ bytes' = [z \in Buffers |-> bytes'[z]]
  BY <1>1 DEF Holding
<1>4. ASSUME NEW z \in Buffers PROVE Settled(bufs'[z], bytes'[z]) /\ bytes'[z] \in Strings
  <2>1. CASE z = x
    <3>1. bufs'[z] = b /\ bytes'[z] = s
      BY <1>2, <2>1
    <3> QED
      BY <3>1
  <2>2. CASE z # x
    <3>1. bufs'[z] = bufs[z] /\ bytes'[z] = bytes[z]
      BY <1>2, <2>2
    <3> QED
      BY <3>1 DEF Holding
  <2> QED
    BY <2>1, <2>2
<1>5. \A z \in Buffers : Settled(bufs'[z], bytes'[z]) /\ bytes'[z] \in Strings
  BY <1>4
<1> QED
  BY <1>3, <1>5 DEF Holding

\* Two buffers become others.
Both(C, x, b, y, d) == C = [z \in Buffers |-> IF z = x THEN b ELSE IF z = y THEN d ELSE bufs[z]]

LEMMA BecomeKeeps ==
  ASSUME Holding, NEW x \in Buffers, NEW y \in Buffers \ {x},
         NEW B, NEW b, NEW d, Both(B, x, b, y, d), NEW t, NEW s, NEW u,
         t = [bytes EXCEPT ![x] = s, ![y] = u],
         Settled(b, s), Settled(d, u), s \in Strings, u \in Strings, Become(B, t)
  PROVE  Holding'
<1>1. bufs' = B /\ bytes' = t
  BY DEF Become
<1>2. \A z \in Buffers : /\ bufs'[z] = IF z = x THEN b ELSE IF z = y THEN d ELSE bufs[z]
                         /\ bytes'[z] = IF z = x THEN s ELSE IF z = y THEN u ELSE bytes[z]
  BY <1>1 DEF Holding, Both
<1>3. bufs' = [z \in Buffers |-> bufs'[z]] /\ bytes' = [z \in Buffers |-> bytes'[z]]
  BY <1>1 DEF Holding, Both
<1>4. ASSUME NEW z \in Buffers PROVE Settled(bufs'[z], bytes'[z]) /\ bytes'[z] \in Strings
  <2>1. CASE z = x
    <3>1. bufs'[z] = b /\ bytes'[z] = s
      BY <1>2, <2>1
    <3> QED
      BY <3>1
  <2>2. CASE z = y
    <3>1. bufs'[z] = d /\ bytes'[z] = u
      BY <1>2, <2>2
    <3> QED
      BY <3>1
  <2>3. CASE z # x /\ z # y
    <3>1. bufs'[z] = bufs[z] /\ bytes'[z] = bytes[z]
      BY <1>2, <2>3
    <3> QED
      BY <3>1 DEF Holding
  <2> QED
    BY <2>1, <2>2, <2>3
<1>5. \A z \in Buffers : Settled(bufs'[z], bytes'[z]) /\ bytes'[z] \in Strings
  BY <1>4
<1> QED
  BY <1>3, <1>5 DEF Holding

LEMMA NewSettled == Settled(New, <<>>) /\ <<>> \in Strings
<1>1. New \in Buffer
  BY DEF New, Buffer
<1>2. Upto(New.chains, 0) /\ New.with = Mark(0) /\ Text(New.chains) = <<>>
  BY TextNothing DEF New, Upto, Mark
<1>3. <<>> \in Seq(Int) /\ Len(<<>>) = 0
  OBVIOUS
<1>4. New.total = 0 /\ New.told = 0 /\ New.added = 0 /\ New.deleted = 0
  BY DEF New
<1>5. Sound(New, <<>>)
  BY <1>1, <1>2, <1>3, <1>4 DEF Sound
<1> QED
  BY <1>4, <1>5 DEF Settled, Strings

LEMMA Starts ==
  ASSUME Init
  PROVE  Holding
BY NewSettled DEF Init, Holding

-----------------------------------------------------------------------------
(* Each call keeps it.                                                     *)

LEMMA Held ==
  ASSUME Holding, NEW x \in Buffers
  PROVE  /\ Settled(bufs[x], bytes[x]) /\ Sound(bufs[x], bytes[x]) /\ bytes[x] \in Strings
         /\ bytes[x] \in Seq(Int) /\ Len(bytes[x]) \in Nat /\ bufs[x].total = Len(bytes[x])
         /\ bufs[x].chains \in Seq(Chains) /\ Len(bufs[x].chains) \in Nat
<1>1. Settled(bufs[x], bytes[x]) /\ Sound(bufs[x], bytes[x]) /\ bytes[x] \in Strings
  BY DEF Holding, Settled
<1> QED
  BY <1>1, SoundIs

LEMMA StringsJoin ==
  ASSUME NEW s \in Strings, NEW t \in Strings
  PROVE  s \o t \in Strings
BY ConcatProperties DEF Strings

LEMMA AddKeeps ==
  ASSUME Holding, NEW x \in Buffers, evbuffer_add(x)
  PROVE  Holding'
<1>1. PICK n \in Sizes, mem \in BOOLEAN :
        Becomes(x, Add(bufs[x], Fresh(n), mem),
                IF AddFails(bufs[x], n, mem) THEN bytes[x] ELSE bytes[x] \o Fresh(n))
  BY DEF evbuffer_add
<1> DEFINE data == Fresh(n)
           b == bufs[x]
           s == bytes[x]
           r == Add(b, data, mem)
<1>2. \A z \in Buffers : bytes[z] \in Strings
  BY DEF Holding
<1>3. data \in Strings /\ data \in Seq(Int) /\ Len(data) = n
  BY <1>2, FreshIs
<1>4. Settled(b, s) /\ Sound(b, s) /\ s \in Strings
  BY Held
<1> HIDE DEF data, b, s
<1>5. /\ AddFails(b, n, mem) => r = b
      /\ ~AddFails(b, n, mem) => Settled(r, s \o data)
  BY <1>3, <1>4, AddWorks
<1>6. Becomes(x, r, IF AddFails(b, n, mem) THEN s ELSE s \o data)
  BY <1>1 DEF data, b, s
<1>7. CASE AddFails(b, n, mem)
  BY <1>4, <1>5, <1>6, <1>7, BecomesKeeps
<1>8. CASE ~AddFails(b, n, mem)
  <2>1. s \o data \in Strings
    BY <1>3, <1>4, StringsJoin
  <2> QED
    BY <2>1, <1>5, <1>6, <1>8, BecomesKeeps
<1> QED
  BY <1>7, <1>8

LEMMA PrependKeeps ==
  ASSUME Holding, Careful = Delicate, NEW x \in Buffers, evbuffer_prepend(x)
  PROVE  Holding'
<1>1. PICK n \in Sizes, mem \in MemoryFor("prepend") :
        Becomes(x, Prepend(bufs[x], Fresh(n), mem),
                IF PrependFails(bufs[x], n, mem) THEN bytes[x] ELSE Fresh(n) \o bytes[x])
  BY DEF evbuffer_prepend
<1> DEFINE data == Fresh(n)
           s == bytes[x]
<1>2. mem = TRUE
  BY DEF MemoryFor, Delicate
<1>3. ~PrependFails(bufs[x], n, mem)
  BY <1>2 DEF PrependFails
<1>4. Becomes(x, Prepend(bufs[x], data, TRUE), data \o s)
  BY <1>1, <1>2, <1>3
<1>5. \A z \in Buffers : bytes[z] \in Strings
  BY DEF Holding
<1>6. data \in Strings /\ data \in Seq(Int) /\ data # <<>>
  BY <1>5, FreshIs
<1>7. Settled(bufs[x], s) /\ s \in Strings
  BY Held
<1> HIDE DEF data, s
<1>8. Settled(Prepend(bufs[x], data, TRUE), data \o s) /\ data \o s \in Strings
  BY <1>6, <1>7, PrependWorks, StringsJoin
<1> QED
  BY <1>4, <1>8, BecomesKeeps

LEMMA DrainKeeps ==
  ASSUME Holding, NEW x \in Buffers, NEW n \in Nat, Becomes(x, Drain(bufs[x], n), Drop(bytes[x], n))
  PROVE  Holding'
<1>1. Settled(bufs[x], bytes[x]) /\ bytes[x] \in Strings
  BY Held
<1>2. Settled(Drain(bufs[x], n), Drop(bytes[x], n)) /\ Drop(bytes[x], n) \in Strings
  BY <1>1, DrainWorks, StringsCut
<1> QED
  BY <1>2, BecomesKeeps

LEMMA WriteKeeps ==
  ASSUME Holding, NEW x \in Buffers, evbuffer_write(x)
  PROVE  Holding'
<1> DEFINE cs == bufs[x].chains
           m == Min({WriteVecs, Len(cs)})
           gs == SubSeq(cs, 1, m)
<1>1. PICK n \in 1..LengthOf(gs) : Becomes(x, Drain(bufs[x], n), Drop(bytes[x], n))
  BY DEF evbuffer_write
<1>2. n \in Nat
  <2>1. cs \in Seq(Chains) /\ Len(cs) \in Nat
    BY Held
  <2> HIDE DEF cs
  <2>2. WriteVecs \in Nat
    BY EvbufferAssumption
  <2>3. m = IF WriteVecs <= Len(cs) THEN WriteVecs ELSE Len(cs)
    <3> DEFINE l == Len(cs)
    <3>1. l \in Int /\ WriteVecs \in Int
      BY <2>1, <2>2
    <3> HIDE DEF l
    <3>2. Min({WriteVecs, l}) = IF WriteVecs <= l THEN WriteVecs ELSE l
      BY ONLY <3>1, LargerOf
    <3> QED
      BY <3>2 DEF l
  <2> HIDE DEF m
  <2>4. m \in 0..Len(cs)
    BY <2>1, <2>2, <2>3
  <2>5. gs \in Seq(Chains)
    BY <2>1, <2>4, CutAt
  <2> HIDE DEF gs
  <2>6. LengthOf(gs) \in Nat
    BY <2>5, LengthIs, TextTypes
  <2> QED
    BY <2>6
<1> QED
  BY <1>1, <1>2, DrainKeeps

LEMMA PullupKeeps ==
  ASSUME Holding, NEW x \in Buffers, evbuffer_pullup(x)
  PROVE  Holding'
<1>1. PICK n \in 1..Len(bytes[x]), mem \in BOOLEAN : Becomes(x, Pullup(bufs[x], n, mem), bytes[x])
  BY DEF evbuffer_pullup
<1>2. Settled(bufs[x], bytes[x]) /\ bytes[x] \in Strings
  BY Held
<1>3. Settled(Pullup(bufs[x], n, mem), bytes[x])
  BY <1>2, PullupWorks
<1> QED
  BY <1>1, <1>2, <1>3, BecomesKeeps

LEMMA ExpandKeeps ==
  ASSUME Holding, NEW x \in Buffers, evbuffer_expand(x)
  PROVE  Holding'
<1>1. PICK n \in 1..MaxSize, mem \in BOOLEAN : Becomes(x, ExpandSingle(bufs[x], n, mem), bytes[x])
  BY DEF evbuffer_expand
<1>2. Settled(bufs[x], bytes[x]) /\ bytes[x] \in Strings /\ n \in Nat
  BY Held, EvbufferAssumption
<1>3. Settled(ExpandSingle(bufs[x], n, mem), bytes[x])
  BY <1>2, ExpandSingleWorks
<1> QED
  BY <1>1, <1>2, <1>3, BecomesKeeps

LEMMA ReadKeeps ==
  ASSUME Holding, NEW x \in Buffers, evbuffer_read(x)
  PROVE  Holding'
<1>1. PICK howmuch \in 1..MaxSize, n \in {0} \cup Sizes, mem \in BOOLEAN :
        LET room == ExpandFast(bufs[x], howmuch, ReadVecs, mem)
        IN /\ n <= howmuch
           /\ IF n > 0 /\ Expanded(room, howmuch)
              THEN Becomes(x, ReadInto(room, Fresh(n)), bytes[x] \o Fresh(n))
              ELSE Becomes(x, room, bytes[x])
  BY DEF evbuffer_read
<1> DEFINE room == ExpandFast(bufs[x], howmuch, ReadVecs, mem)
           s == bytes[x]
           data == Fresh(n)
<1>2. Settled(bufs[x], s) /\ s \in Strings /\ howmuch \in Nat /\ ReadVecs \in Nat
  BY Held, EvbufferAssumption
<1>3. Settled(room, s)
  <2> HIDE DEF s
  <2> QED
    BY <1>2, ExpandFastWorks
<1>4. /\ n <= howmuch
      /\ IF n > 0 /\ Expanded(room, howmuch)
         THEN Becomes(x, ReadInto(room, data), s \o data)
         ELSE Becomes(x, room, s)
  BY <1>1
<1> HIDE DEF room, s
<1>5. CASE n > 0 /\ Expanded(room, howmuch)
  <2>1. n \in Sizes
    BY <1>5
  <2>2. \A z \in Buffers : bytes[z] \in Strings
    BY DEF Holding
  <2>3. data \in Strings /\ data \in Seq(Int) /\ Len(data) = n /\ n >= 1
    BY <2>1, <2>2, FreshIs
  <2> HIDE DEF data
  <2>4. Settled(ReadInto(room, data), s \o data)
    <3>1. Len(data) >= 1 /\ Len(data) <= howmuch
      BY <2>3, <1>4
    <3> QED
      BY <3>1, <2>3, <1>2, <1>3, <1>5, ReadWorks
  <2>5. s \o data \in Strings
    BY <2>3, <1>2, StringsJoin
  <2>6. Becomes(x, ReadInto(room, data), s \o data)
    BY <1>4, <1>5
  <2> QED
    BY <2>4, <2>5, <2>6, BecomesKeeps
<1>6. CASE ~(n > 0 /\ Expanded(room, howmuch))
  <2>1. Becomes(x, room, s)
    BY <1>4, <1>6
  <2> QED
    BY <2>1, <1>2, <1>3, BecomesKeeps
<1> QED
  BY <1>5, <1>6

LEMMA Unchanged ==
  ASSUME Holding, NEW t, t = bytes, Become(bufs, t)
  PROVE  Holding'
<1>1. bufs' = bufs /\ bytes' = bytes
  BY DEF Become
<1> QED
  BY <1>1 DEF Holding

\* evbuffer_add_buffer(), which evbuffer_remove_buffer() calls too.
LEMMA AddBufferKeeps ==
  ASSUME Holding, NEW out \in Buffers, NEW in \in Buffers \ {out}, NEW t,
         t = [bytes EXCEPT ![out] = bytes[out] \o bytes[in], ![in] = <<>>],
         Become(AddBuffer(bufs, out, in), t)
  PROVE  Holding'
<1> DEFINE o == bufs[out]
           i == bufs[in]
           s == bytes[out]
           u == bytes[in]
           kept == IF o.total = 0 THEN <<>> ELSE FreeTrailing(o)
           b == Invoke(Counted([o EXCEPT !.chains = kept \o i.chains,
                                         !.with = Len(kept) + i.with], i.total))
           d == Invoke([Zeroed(i) EXCEPT !.deleted = @ + i.total])
<1>1. /\ Settled(o, s) /\ Settled(i, u) /\ s \in Strings /\ u \in Strings
      /\ u \in Seq(Int) /\ s \in Seq(Int) /\ i.total = Len(u)
  BY Held
<1>2. bufs = [z \in Buffers |-> bufs[z]] /\ bytes = [z \in Buffers |-> bytes[z]]
  BY DEF Holding
<1>3. CASE i.total = 0
  <2>1. u = <<>>
    <3> HIDE DEF u
    <3> QED
      BY <1>1, <1>3, EmptySeq
  <2>2. s \o u = s
    <3> HIDE DEF s, u
    <3> QED
      BY <2>1, <1>1, ConcatEmptySeq
  <2>3. t = bytes
    BY <2>1, <2>2, <1>2
  <2>4. AddBuffer(bufs, out, in) = bufs
    BY <1>3 DEF AddBuffer
  <2> QED
    BY <2>3, <2>4, Unchanged
<1>4. CASE i.total # 0
  <2>1. AddBuffer(bufs, out, in) = [bufs EXCEPT ![in] = d, ![out] = b]
    BY <1>4 DEF AddBuffer
  <2>2. Settled(d, <<>>) /\ Settled(b, s \o u)
    <3> HIDE DEF o, i, s, u
    <3> QED
      BY <1>1, <1>4, AddBufferWorks
  <2> HIDE DEF b, d
  <2>3. Both(AddBuffer(bufs, out, in), out, b, in, d)
    BY <2>1, <1>2 DEF Both
  <2>4. s \o u \in Strings /\ <<>> \in Strings
    BY <1>1, StringsJoin, NewSettled
  <2> DEFINE w == s \o u
             v == <<>>
  <2>5. /\ Settled(b, w) /\ Settled(d, v) /\ w \in Strings /\ v \in Strings
        /\ t = [bytes EXCEPT ![out] = w, ![in] = v]
    BY <2>2, <2>4
  <2> HIDE DEF w, v
  <2> QED
    BY <2>3, <2>5, BecomeKeeps
<1> QED
  BY <1>3, <1>4

LEMMA PrependBufferKeeps ==
  ASSUME Holding, Careful = Delicate, NEW out \in Buffers, NEW in \in Buffers \ {out},
         evbuffer_prepend_buffer(out, in)
  PROVE  Holding'
<1> DEFINE o == bufs[out]
           i == bufs[in]
           s == bytes[out]
           u == bytes[in]
           t == [bytes EXCEPT ![out] = bytes[in] \o @, ![in] = <<>>]
           after == IF o.total = 0 THEN <<>> ELSE o.chains
           b == Invoke(Counted([o EXCEPT
                         !.chains = i.chains \o after,
                         !.with = IF after = <<>> THEN i.with ELSE Len(i.chains) + @],
                       i.total))
           d == Invoke([Zeroed(i) EXCEPT !.deleted = @ + i.total])
<1>1. /\ Settled(o, s) /\ Settled(i, u) /\ s \in Strings /\ u \in Strings
      /\ u \in Seq(Int) /\ s \in Seq(Int) /\ i.total = Len(u)
  BY Held
<1>2. bufs = [z \in Buffers |-> bufs[z]] /\ bytes = [z \in Buffers |-> bytes[z]]
  BY DEF Holding
<1>3. ~EndsEmpty(i) /\ Become(PrependBuffer(bufs, out, in), t)
  BY DEF evbuffer_prepend_buffer, Usable, Delicate
<1>4. t = [bytes EXCEPT ![out] = u \o s, ![in] = <<>>]
  OBVIOUS
<1>5. CASE i.total = 0
  <2>1. u = <<>>
    <3> HIDE DEF u
    <3> QED
      BY <1>1, <1>5, EmptySeq
  <2>2. u \o s = s
    <3> HIDE DEF s, u
    <3> QED
      BY <2>1, <1>1, ConcatEmptySeq
  <2>3. t = bytes
    <3> HIDE DEF t
    <3> QED
      BY <2>1, <2>2, <1>2, <1>4
  <2>4. PrependBuffer(bufs, out, in) = bufs
    BY <1>5 DEF PrependBuffer
  <2> HIDE DEF t
  <2> QED
    BY <2>3, <2>4, <1>3, Unchanged
<1>6. CASE i.total # 0
  <2>1. PrependBuffer(bufs, out, in) = [bufs EXCEPT ![in] = d, ![out] = b]
    BY <1>6 DEF PrependBuffer
  <2>2. Settled(d, <<>>) /\ Settled(b, u \o s)
    <3> HIDE DEF o, i, s, u
    <3> QED
      BY <1>1, <1>3, <1>6, PrependBufferWorks
  <2> HIDE DEF b, d
  <2>3. Both(PrependBuffer(bufs, out, in), out, b, in, d)
    BY <2>1, <1>2 DEF Both
  <2>4. u \o s \in Strings /\ <<>> \in Strings
    BY <1>1, StringsJoin, NewSettled
  <2> DEFINE w == u \o s
             v == <<>>
  <2>5. /\ Settled(b, w) /\ Settled(d, v) /\ w \in Strings /\ v \in Strings
        /\ t = [bytes EXCEPT ![out] = w, ![in] = v]
    BY <2>2, <2>4, <1>4
  <2> HIDE DEF w, v, t
  <2> QED
    BY <2>3, <2>5, <1>3, BecomeKeeps
<1> QED
  BY <1>5, <1>6

LEMMA RemoveBufferKeeps ==
  ASSUME Holding, Careful = Delicate, NEW src \in Buffers, NEW dst \in Buffers \ {src},
         evbuffer_remove_buffer(src, dst)
  PROVE  Holding'
<1>1. PICK n \in 1..MaxSize, mem \in MemoryFor("remove_buffer") :
        Become(RemoveBuffer(bufs, src, dst, n, mem),
               [bytes EXCEPT ![src] = Drop(@, n),
                             ![dst] = @ \o SubSeq(bytes[src], 1, Min({n, Len(bytes[src])}))])
  BY DEF evbuffer_remove_buffer
<1> DEFINE s == bytes[src]
           u == bytes[dst]
           p == SubSeq(s, 1, Min({n, Len(s)}))
           t == [bytes EXCEPT ![src] = Drop(s, n), ![dst] = u \o p]
<1>2. mem = TRUE /\ n \in Nat
  <2>1. mem = TRUE
    BY DEF MemoryFor, Delicate
  <2>2. MaxSize \in Nat
    BY EvbufferAssumption
  <2> QED
    BY <2>1, <2>2
<1>3. Become(RemoveBuffer(bufs, src, dst, n, TRUE), t)
  BY <1>1, <1>2
<1>4. /\ Settled(bufs[src], s) /\ Settled(bufs[dst], u) /\ s \in Strings /\ u \in Strings
      /\ u \in Seq(Int) /\ s \in Seq(Int) /\ bufs[src].total = Len(s) /\ Len(s) \in Nat
  BY Held
<1>5. bufs = [z \in Buffers |-> bufs[z]] /\ bytes = [z \in Buffers |-> bytes[z]]
  BY DEF Holding
<1>6. Min({n, Len(s)}) = IF n <= Len(s) THEN n ELSE Len(s)
  <2> HIDE DEF s
  <2> QED
    <3> DEFINE l == Len(s)
    <3>1. l \in Int /\ n \in Int
      BY <1>2, <1>4
    <3> HIDE DEF l
    <3>2. Min({n, l}) = IF n <= l THEN n ELSE l
      BY ONLY <3>1, LargerOf
    <3> QED
      BY <3>2 DEF l
<1>7. CASE n >= bufs[src].total
  <2>1. Drop(s, n) = <<>> /\ SubSeq(s, 1, Len(s)) = s
    <3> HIDE DEF s
    <3> QED
      BY <1>2, <1>4, <1>7, DropAll
  <2>2. p = s
    <3>1. Min({n, Len(s)}) = Len(s)
      <4> DEFINE l == Len(s)
      <4>1. l \in Nat /\ n \in Nat /\ n >= l /\ Min({n, l}) = IF n <= l THEN n ELSE l
        BY <1>2, <1>4, <1>6, <1>7
      <4> HIDE DEF l
      <4>2. Min({n, l}) = l
        BY ONLY <4>1
      <4> QED
        BY <4>2 DEF l
    <3> HIDE DEF s
    <3> QED
      BY <2>1, <3>1
  <2> HIDE DEF p
  <2>3. t = [bytes EXCEPT ![dst] = bytes[dst] \o bytes[src], ![src] = <<>>]
    BY <2>1, <2>2, <1>5
  <2>4. Become(AddBuffer(bufs, dst, src), t)
    BY <1>3, <1>7 DEF RemoveBuffer
  <2>5. dst \in Buffers /\ src \in Buffers \ {dst}
    OBVIOUS
  <2> HIDE DEF t
  <2> QED
    BY <2>3, <2>4, <2>5, AddBufferKeeps
<1>8. CASE ~(n >= bufs[src].total)
  <2> DEFINE c == bufs[src]
             gone == Covered(c.chains, n)
             nread == LengthOf(SubSeq(c.chains, 1, gone))
             left == Drop(c.chains, gone)
             moved == Counted(Advance([bufs[dst] EXCEPT !.chains =
                                FreeTrailing(bufs[dst]) \o SubSeq(c.chains, 1, gone)]), nread)
             copied == SubSeq(Head(left).data, 1, n - nread)
             to == Add(IF nread > 0 THEN moved ELSE bufs[dst], copied, TRUE)
             short == [c EXCEPT !.chains = <<Shortened(Head(left), n - nread)>> \o Tail(left),
                                !.with = IF @ \in 2..gone + 1 THEN 1 ELSE @ - gone,
                                !.total = @ - n,
                                !.deleted = @ + n]
             b == Invoke(short)
             d == Invoke(to)
  <2>1. n < Len(s)
    <3> DEFINE l == Len(s)
    <3>1. l \in Nat /\ n \in Nat /\ ~(n >= l)
      BY <1>2, <1>4, <1>8
    <3> HIDE DEF l
    <3>2. n < l
      BY ONLY <3>1
    <3> QED
      BY <3>2 DEF l
  <2>2. RemoveBuffer(bufs, src, dst, n, TRUE) = [bufs EXCEPT ![src] = b, ![dst] = d]
    BY <1>8 DEF RemoveBuffer
  <2>3. Settled(b, Drop(s, n)) /\ Settled(d, u \o SubSeq(s, 1, n))
    <3> HIDE DEF s, u
    <3> QED
      BY <2>1, <1>2, <1>4, RemoveWorks
  <2> HIDE DEF b, d
  <2>4. p = SubSeq(s, 1, n)
    <3>1. Min({n, Len(s)}) = n
      BY <2>1, <1>2, <1>4, <1>6
    <3> HIDE DEF s
    <3> QED
      BY <3>1
  <2>5. p \in Strings
    <3>1. n \in 0..Len(s)
      BY <2>1, <1>2, <1>4
    <3>2. SubSeq(s, 1, n) \in Seq(1..MaxBytes)
      <4> HIDE DEF s
      <4> QED
        BY <3>1, <1>4, CutAt DEF Strings
    <3> QED
      BY <3>2, <2>4 DEF Strings
  <2>6. Both(RemoveBuffer(bufs, src, dst, n, TRUE), src, b, dst, d)
    BY <2>2, <1>5 DEF Both
  <2> DEFINE w == Drop(s, n)
             v == u \o p
  <2>7. /\ Settled(b, w) /\ Settled(d, v) /\ t = [bytes EXCEPT ![src] = w, ![dst] = v]
    BY <2>3, <2>4
  <2> HIDE DEF p
  <2>8. w \in Strings /\ v \in Strings
    <3> HIDE DEF s, u
    <3> QED
      BY <2>5, <1>2, <1>4, StringsCut, StringsJoin
  <2> HIDE DEF w, v, t
  <2> QED
    BY <2>6, <2>7, <2>8, <1>3, BecomeKeeps
<1> QED
  BY <1>7, <1>8

LEMMA StepKeeps ==
  ASSUME Holding, Careful = Delicate, [Next]_vars
  PROVE  Holding'
<1>1. CASE UNCHANGED vars
  BY <1>1 DEF vars, Holding
<1>2. CASE Next
  <2>1. ASSUME NEW x \in Buffers, NEW y \in Buffers \ {x}, evbuffer_add_buffer(x, y)
        PROVE  Holding'
    <3> DEFINE t == [bytes EXCEPT ![x] = @ \o bytes[y], ![y] = <<>>]
    <3>1. Become(AddBuffer(bufs, x, y), t)
      BY <2>1 DEF evbuffer_add_buffer
    <3>2. t = [bytes EXCEPT ![x] = bytes[x] \o bytes[y], ![y] = <<>>]
      OBVIOUS
    <3> HIDE DEF t
    <3> QED
      BY <3>1, <3>2, AddBufferKeeps
  <2>2. ASSUME NEW x \in Buffers, evbuffer_drain(x) PROVE Holding'
    <3>1. PICK n \in 1..MaxBytes : Becomes(x, Drain(bufs[x], n), Drop(bytes[x], n))
      BY <2>2 DEF evbuffer_drain
    <3>2. n \in Nat
      BY EvbufferAssumption
    <3> QED
      BY <3>1, <3>2, DrainKeeps
  <2> QED
    BY <1>2, <2>1, <2>2, AddKeeps, PrependKeeps, PullupKeeps, ExpandKeeps, ReadKeeps,
       WriteKeeps, PrependBufferKeeps, RemoveBufferKeeps DEF Next
<1> QED
  BY <1>1, <1>2

LEMMA AlwaysHolding ==
  ASSUME Careful = Delicate
  PROVE  Spec => []Holding
<1>1. Holding /\ [Next]_vars => Holding'
  BY StepKeeps
<1> QED
  BY <1>1, Starts, PTL DEF Spec

-----------------------------------------------------------------------------
(* What the runs check.  The careful caller is MCEvbuffer's.               *)

\* No call of a careful caller, with memory or without, writes past the memory
\* of a chain: the bytes of each, from where they start, end within it.
THEOREM ChainsStayWithin ==
  ASSUME Careful = Delicate
  PROVE  Spec => []ChainsFit
<1>1. Holding => ChainsFit
  <2>1. ASSUME Holding, NEW x \in Buffers, NEW i \in DOMAIN bufs[x].chains
        PROVE  LET c == bufs[x].chains[i] IN c.skip >= 0 /\ c.skip + Off(c) <= c.cap
    <3>1. bufs[x].chains \in Seq(Chains)
      BY <2>1, Held
    <3>2. bufs[x].chains[i] \in Chains
      BY <2>1, <3>1, LenProperties
    <3> QED
      BY <3>2, ChainIs DEF Off
  <2> QED
    BY <2>1 DEF ChainsFit
<1> QED
  BY <1>1, AlwaysHolding, PTL

\* last_with_datap points at the last chain that has data, or at the first one
\* when none has, after every call of a careful caller.
THEOREM LastWithDataIsRight ==
  ASSUME Careful = Delicate
  PROVE  Spec => []LastWithData
<1>1. Holding => LastWithData
  <2>1. ASSUME Holding, NEW x \in Buffers
        PROVE  LET full == {i \in DOMAIN bufs[x].chains : ~IsEmpty(bufs[x].chains[i])}
               IN bufs[x].with = IF full = {} THEN 1 ELSE Max(full)
    <3> DEFINE cs == bufs[x].chains
               full == {i \in DOMAIN cs : ~IsEmpty(cs[i])}
    <3>1. cs \in Seq(Chains) /\ Len(cs) \in Nat /\ DOMAIN cs = 1..Len(cs)
      BY <2>1, Held, LenProperties
    <3>2. PICK k : Upto(cs, k) /\ bufs[x].with = Mark(k)
      <4>1. Sound(bufs[x], bytes[x])
        BY <2>1, Held
      <4> QED
        BY <4>1, SoundIs
    <3>3. k \in 0..Len(cs) /\ full = 1..k
      <4>1. k \in 0..Len(cs) /\ \A i \in 1..Len(cs) : cs[i].data # <<>> <=> i <= k
        BY <3>2 DEF Upto
      <4>2. \A i : i \in full <=> i \in 1..Len(cs) /\ i <= k
        BY <4>1, <3>1 DEF IsEmpty
      <4> HIDE DEF full, cs
      <4>3. \A i : i \in full <=> i \in 1..k
        BY <4>1, <4>2, <3>1
      <4> QED
        BY <4>1, <4>3
    <3> HIDE DEF full, cs
    <3>4. CASE k = 0
      BY <3>2, <3>3, <3>4 DEF Mark, full, cs
    <3>5. CASE k # 0
      <4>1. k \in Nat /\ 1 \in full
        BY <3>1, <3>3, <3>5
      <4>2. Max(full) = k
        BY <4>1, <3>3, <3>5, GreatestOf
      <4>3. bufs[x].with = Max(full) /\ full # {}
        BY <4>1, <4>2, <3>2, <3>5 DEF Mark
      <4> QED
        BY <4>3 DEF full, cs
    <3> QED
      BY <3>4, <3>5
  <2> QED
    BY <2>1 DEF LastWithData
<1> QED
  BY <1>1, AlwaysHolding, PTL

\* A buffer holds what was added to it and not taken from it, in order, however
\* the calls of a careful caller realign, split, move and free its chains.
THEOREM BytesAreKept ==
  ASSUME Careful = Delicate
  PROVE  Spec => []SameBytes
<1>1. Holding => SameBytes
  <2>1. ASSUME Holding, NEW x \in Buffers PROVE Content(bufs[x]) = bytes[x]
    <3>1. Text(bufs[x].chains) = bytes[x]
      BY <2>1, Held DEF Sound
    <3> QED
      BY <3>1 DEF Text, Content
  <2> QED
    BY <2>1 DEF SameBytes
<1> QED
  BY <1>1, AlwaysHolding, PTL

\* total_len is the length of the chains, and the callback, from what it is
\* told of each call of a careful caller, reckons the same.
THEOREM LengthsAreTold ==
  ASSUME Careful = Delicate
  PROVE  Spec => []LengthsAgree
<1>1. Holding => LengthsAgree
  <2>1. ASSUME Holding, NEW x \in Buffers
        PROVE  bufs[x].total = LengthOf(bufs[x].chains) /\ bufs[x].told = bufs[x].total
    <3> DEFINE b == bufs[x]
    <3>1. Settled(b, bytes[x]) /\ Sound(b, bytes[x]) /\ b.chains \in Seq(Chains)
      BY <2>1, Held
    <3> HIDE DEF b
    <3>2. /\ b.total \in Int /\ b.added \in Int /\ b.deleted \in Int /\ b.told \in Int
          /\ b.told + b.added - b.deleted = b.total /\ b.added = 0 /\ b.deleted = 0
      BY <3>1, SoundIs DEF Settled
    <3>3. b.told = b.total
      BY ONLY <3>2
    <3>4. b.total = LengthOf(b.chains)
      <4>1. Text(b.chains) = bytes[x] /\ b.total = Len(bytes[x])
        BY <3>1 DEF Sound
      <4> QED
        BY <3>1, <4>1, LengthIs
    <3> QED
      BY <3>3, <3>4 DEF b
  <2> QED
    BY <2>1 DEF LengthsAgree
<1> QED
  BY <1>1, AlwaysHolding, PTL
=============================================================================
