-------------------------- MODULE RemoteStreamProofs --------------------------
(***************************************************************************)
(* Proofs about RemoteStream, for every number of peer voices, every ring, *)
(* lag and congestion limit, whatever fails or ends: messages share the    *)
(* ring's buffers undisturbed, they stay in order, and every peer's reader *)
(* sees the bounded channel of SampleChannel.                              *)
(*                                                                         *)
(* The argument numbers the samples.  On the way to a peer they pass the   *)
(* sender's queue, the connection and the deliverer's queue; each of these *)
(* holds an interval of the numbers, in order, and the intervals join.     *)
(***************************************************************************)
EXTENDS RemoteStream, TLAPS, FiniteSetTheorems, WellFoundedInduction

IsData(m) == m.tag = "PUSHDATA"

\* n numbers the positions of s from lo to hi, one further with every sample.
Track(s, n, lo, hi) ==
    /\ n \in [1 .. Len(s) + 1 -> Nat] /\ n[1] = lo /\ n[Len(s) + 1] = hi
    /\ \A i \in 1 .. Len(s) : n[i + 1] = IF IsData(s[i]) THEN n[i] + 1 ELSE n[i]
    /\ \A i, j \in 1 .. Len(s) + 1 : i <= j => n[i] <= n[j]
    /\ \A i, j \in 1 .. Len(s) + 1 :
           n[i] < n[j] => \E k \in i .. j - 1 : k \in 1 .. Len(s) /\ IsData(s[k])

\* The samples in s are numbers lo to hi - 1, and each is what G says its number is.
Numbered(s, lo, hi, G) ==
    \E n : /\ Track(s, n, lo, hi)
           /\ \A i \in 1 .. Len(s) : IsData(s[i]) => <<s[i], n[i]>> \in G

\* The numbers in s add up to the difference of lo and hi.
Summed(s, lo, hi) ==
    \E n : /\ n \in [1 .. Len(s) + 1 -> Nat] /\ n[1] = lo /\ n[Len(s) + 1] = hi
           /\ \A i \in 1 .. Len(s) : n[i + 1] = n[i] + s[i]
           /\ \A i, j \in 1 .. Len(s) + 1 : i <= j => n[i] <= n[j]

-----------------------------------------------------------------------------
(* Numbered sequences.                                                     *)

LEMMA NumberedEmpty == ASSUME NEW k \in Nat, NEW G PROVE Numbered(<<>>, k, k, G)
<1> DEFINE n == [i \in 1 .. 1 |-> k]
<1>1. Len(<<>>) = 0
  OBVIOUS
<1>2. Track(<<>>, n, k, k)
  BY <1>1 DEF Track
<1> QED
  BY <1>1, <1>2 DEF Numbered

LEMMA NumberedRange ==
    ASSUME NEW M, NEW s \in Seq(M), NEW lo, NEW hi, NEW G, Numbered(s, lo, hi, G)
    PROVE  lo \in Nat /\ hi \in Nat /\ lo <= hi
<1>1. PICK n : Track(s, n, lo, hi)
  BY DEF Numbered
<1>2. Len(s) \in Nat /\ 1 \in 1 .. Len(s) + 1 /\ Len(s) + 1 \in 1 .. Len(s) + 1
  OBVIOUS
<1> QED
  BY <1>1, <1>2 DEF Track

LEMMA NumberedAppend ==
    ASSUME NEW M, NEW s \in Seq(M), NEW lo, NEW hi, NEW G, Numbered(s, lo, hi, G),
           NEW m \in M, IsData(m) => <<m, hi>> \in G
    PROVE  Numbered(Append(s, m), lo, IF IsData(m) THEN hi + 1 ELSE hi, G)
<1> DEFINE t == Append(s, m)
           top == IF IsData(m) THEN hi + 1 ELSE hi
<1>1. PICK n : /\ Track(s, n, lo, hi)
               /\ \A i \in 1 .. Len(s) : IsData(s[i]) => <<s[i], n[i]>> \in G
  BY DEF Numbered
<1> DEFINE l == [i \in 1 .. Len(s) + 2 |-> IF i <= Len(s) + 1 THEN n[i] ELSE top]
<1>2. /\ Len(s) \in Nat /\ Len(t) = Len(s) + 1 /\ t[Len(s) + 1] = m
      /\ \A i \in 1 .. Len(s) : t[i] = s[i]
  OBVIOUS
<1>3. lo \in Nat /\ hi \in Nat /\ top \in Nat /\ hi <= top
  BY NumberedRange
<1>4. /\ l \in [1 .. Len(s) + 2 -> Nat] /\ l[Len(s) + 2] = top
      /\ \A i \in 1 .. Len(s) + 1 : l[i] = n[i]
  BY <1>1, <1>2, <1>3 DEF Track
<1> HIDE DEF l, t
<1>5. ASSUME NEW i \in 1 .. Len(t) PROVE l[i + 1] = IF IsData(t[i]) THEN l[i] + 1 ELSE l[i]
  <2>1. CASE i = Len(s) + 1
    BY <1>1, <1>2, <1>4, <2>1 DEF Track
  <2>2. CASE i # Len(s) + 1
    <3>1. i \in 1 .. Len(s) /\ i \in 1 .. Len(s) + 1 /\ i + 1 \in 1 .. Len(s) + 1
      BY <1>2, <2>2
    <3> QED
      BY <1>1, <1>2, <1>4, <3>1 DEF Track
  <2> QED
    BY <2>1, <2>2
<1>6. ASSUME NEW i \in 1 .. Len(t) + 1, NEW j \in 1 .. Len(t) + 1, i <= j
      PROVE  l[i] <= l[j]
  <2>1. CASE j <= Len(s) + 1
    <3>1. i \in 1 .. Len(s) + 1 /\ j \in 1 .. Len(s) + 1
      BY <1>2, <1>6, <2>1
    <3> QED
      BY <1>1, <1>4, <1>6, <3>1 DEF Track
  <2>2. CASE j = Len(s) + 2 /\ i <= Len(s) + 1
    <3>1. i \in 1 .. Len(s) + 1 /\ Len(s) + 1 \in 1 .. Len(s) + 1
      BY <1>2, <2>2
    <3>2. n[i] \in Nat /\ n[i] <= n[Len(s) + 1]
      BY <1>1, <3>1 DEF Track
    <3>3. l[i] = n[i] /\ l[j] = top /\ n[Len(s) + 1] = hi
      BY <1>1, <1>4, <2>2, <3>1 DEF Track
    <3> QED
      BY <1>3, <3>2, <3>3
  <2>3. CASE i = Len(s) + 2
    <3>1. j = i
      BY <1>2, <1>6, <2>3
    <3> QED
      BY <1>3, <1>4, <2>3, <3>1
  <2> QED
    BY <1>2, <1>6, <2>1, <2>2, <2>3
<1>7. ASSUME NEW i \in 1 .. Len(t) + 1, NEW j \in 1 .. Len(t) + 1, l[i] < l[j]
      PROVE  \E k \in i .. j - 1 : k \in 1 .. Len(t) /\ IsData(t[k])
  <2>1. CASE j <= Len(s) + 1
    <3>1. i < j
      <4>1. i >= j => l[j] <= l[i]
        BY <1>6
      <4>2. l[i] \in Nat /\ l[j] \in Nat
        BY <1>2, <1>4
      <4> QED
        BY <1>2, <1>7, <4>1, <4>2
    <3>2. i \in 1 .. Len(s) + 1 /\ j \in 1 .. Len(s) + 1
      BY <1>2, <2>1, <3>1
    <3>3. n[i] < n[j]
      BY <1>4, <1>7, <3>2
    <3>4. PICK k \in i .. j - 1 : k \in 1 .. Len(s) /\ IsData(s[k])
      BY <1>1, <3>2, <3>3 DEF Track
    <3> QED
      BY <1>2, <3>4
  <2>2. CASE j = Len(s) + 2
    <3>1. i <= Len(s) + 1
      <4>1. i # Len(s) + 2
        BY <1>3, <1>4, <1>7, <2>2
      <4> QED
        BY <1>2, <4>1
    <3>2. CASE IsData(m)
      BY <1>2, <2>2, <3>1, <3>2
    <3>3. CASE ~ IsData(m)
      <4>1. n[i] < n[Len(s) + 1]
        BY <1>1, <1>2, <1>4, <1>7, <2>2, <3>1, <3>3 DEF Track
      <4>2. PICK k \in i .. Len(s) : k \in 1 .. Len(s) /\ IsData(s[k])
        <5>1. i \in 1 .. Len(s) + 1 /\ Len(s) + 1 \in 1 .. Len(s) + 1
          BY <1>2, <3>1
        <5>2. \E k \in i .. Len(s) + 1 - 1 : k \in 1 .. Len(s) /\ IsData(s[k])
          BY <1>1, <4>1, <5>1 DEF Track
        <5>3. Len(s) + 1 - 1 = Len(s)
          BY <1>2
        <5> QED
          BY <5>2, <5>3
      <4> QED
        BY <1>2, <2>2, <4>2
    <3> QED
      BY <3>2, <3>3
  <2> QED
    BY <1>2, <2>1, <2>2
<1>8. Track(t, l, lo, top)
  BY <1>1, <1>2, <1>4, <1>5, <1>6, <1>7 DEF Track
<1>9. ASSUME NEW i \in 1 .. Len(t), IsData(t[i]) PROVE <<t[i], l[i]>> \in G
  <2>1. CASE i \in 1 .. Len(s)
    <3>1. t[i] = s[i] /\ l[i] = n[i]
      BY <1>2, <1>4, <2>1
    <3> QED
      BY <1>1, <1>9, <2>1, <3>1
  <2>2. CASE i = Len(s) + 1
    <3>1. t[i] = m /\ l[i] = hi
      BY <1>1, <1>2, <1>4, <2>2 DEF Track
    <3> QED
      BY <1>9, <3>1
  <2> QED
    BY <1>2, <2>1, <2>2
<1>10. Numbered(t, lo, top, G)
  BY <1>8, <1>9 DEF Numbered
<1> QED
  BY <1>10 DEF t

LEMMA NumberedTail ==
    ASSUME NEW M, NEW s \in Seq(M), NEW lo, NEW hi, NEW G, Numbered(s, lo, hi, G), s # <<>>
    PROVE  /\ IsData(Head(s)) => <<Head(s), lo>> \in G /\ lo < hi
           /\ Numbered(Tail(s), IF IsData(Head(s)) THEN lo + 1 ELSE lo, hi, G)
<1> DEFINE t == Tail(s)
<1>1. PICK n : /\ Track(s, n, lo, hi)
               /\ \A i \in 1 .. Len(s) : IsData(s[i]) => <<s[i], n[i]>> \in G
  BY DEF Numbered
<1> DEFINE l == [i \in 1 .. Len(s) |-> n[i + 1]]
<1>2. /\ Len(s) \in Nat \ {0} /\ Len(t) = Len(s) - 1 /\ Head(s) = s[1]
      /\ \A i \in 1 .. Len(t) : t[i] = s[i + 1]
  OBVIOUS
<1>3. lo \in Nat /\ hi \in Nat
  BY NumberedRange
<1>4. n[1] = lo /\ n[2] = (IF IsData(s[1]) THEN lo + 1 ELSE lo) /\ n[2] <= hi
  BY <1>1, <1>2 DEF Track
<1>5. l \in [1 .. Len(t) + 1 -> Nat] /\ \A i \in 1 .. Len(t) + 1 : l[i] = n[i + 1]
  BY <1>1, <1>2 DEF Track
<1> HIDE DEF l, t
<1>6. l[1] = n[2] /\ l[Len(t) + 1] = hi
  BY <1>1, <1>2, <1>5 DEF Track
<1>7. \A i \in 1 .. Len(t) : l[i + 1] = IF IsData(t[i]) THEN l[i] + 1 ELSE l[i]
  BY <1>1, <1>2, <1>5 DEF Track
<1>8. \A i, j \in 1 .. Len(t) + 1 : i <= j => l[i] <= l[j]
  BY SMTT(30), <1>1, <1>2, <1>5 DEF Track
<1>9. ASSUME NEW i \in 1 .. Len(t) + 1, NEW j \in 1 .. Len(t) + 1, l[i] < l[j]
      PROVE  \E k \in i .. j - 1 : k \in 1 .. Len(t) /\ IsData(t[k])
  <2>1. PICK k \in i + 1 .. j : k \in 1 .. Len(s) /\ IsData(s[k])
    <3>1. i + 1 \in 1 .. Len(s) + 1 /\ j + 1 \in 1 .. Len(s) + 1 /\ j + 1 - 1 = j
      BY <1>2
    <3>2. n[i + 1] < n[j + 1]
      BY <1>5, <1>9
    <3>3. \E k \in i + 1 .. j + 1 - 1 : k \in 1 .. Len(s) /\ IsData(s[k])
      BY <1>1, <3>1, <3>2 DEF Track
    <3> QED
      BY <3>1, <3>3
  <2>2. k - 1 \in i .. j - 1 /\ k - 1 \in 1 .. Len(t) /\ t[k - 1] = s[k]
    BY <1>2, <2>1
  <2> QED
    BY <2>1, <2>2
<1>10. Track(t, l, n[2], hi)
  BY <1>5, <1>6, <1>7, <1>8, <1>9 DEF Track
<1>11. ASSUME NEW i \in 1 .. Len(t), IsData(t[i]) PROVE <<t[i], l[i]>> \in G
  <2>1. i + 1 \in 1 .. Len(s) /\ t[i] = s[i + 1]
    BY <1>2
  <2>2. l[i] = n[i + 1]
    BY <1>2, <1>5
  <2> QED
    BY <1>1, <1>11, <2>1, <2>2
<1>12. Numbered(t, n[2], hi, G)
  BY <1>10, <1>11 DEF Numbered
<1>13. IsData(Head(s)) => <<Head(s), lo>> \in G /\ lo < hi
  BY <1>1, <1>2, <1>3, <1>4
<1> QED
  BY <1>2, <1>4, <1>12, <1>13 DEF t

LEMMA NumberedCons ==
    ASSUME NEW M, NEW s \in Seq(M), NEW m \in M, NEW lo \in Nat, NEW hi, NEW G,
           Numbered(s, IF IsData(m) THEN lo + 1 ELSE lo, hi, G), IsData(m) => <<m, lo>> \in G
    PROVE  Numbered(<<m>> \o s, lo, hi, G)
<1> DEFINE t == <<m>> \o s
           low == IF IsData(m) THEN lo + 1 ELSE lo
<1>1. PICK n : /\ Track(s, n, low, hi)
               /\ \A i \in 1 .. Len(s) : IsData(s[i]) => <<s[i], n[i]>> \in G
  BY DEF Numbered
<1> DEFINE l == [i \in 1 .. Len(s) + 2 |-> IF i = 1 THEN lo ELSE n[i - 1]]
<1>2. /\ Len(s) \in Nat /\ Len(t) = Len(s) + 1 /\ t[1] = m
      /\ \A i \in 1 .. Len(s) : t[i + 1] = s[i]
  OBVIOUS
<1>3. n \in [1 .. Len(s) + 1 -> Nat] /\ n[1] = low /\ n[Len(s) + 1] = hi
  BY <1>1 DEF Track
<1>4. /\ l \in [1 .. Len(t) + 1 -> Nat] /\ l[1] = lo /\ l[Len(t) + 1] = hi
      /\ \A i \in 1 .. Len(s) + 1 : l[i + 1] = n[i]
  <2>1. l \in [1 .. Len(t) + 1 -> Nat]
    BY <1>2, <1>3
  <2> QED
    BY <1>2, <1>3, <2>1
<1>5. lo <= low /\ low \in Nat /\ (~ IsData(m) => low = lo) /\ (IsData(m) => low = lo + 1)
  OBVIOUS
<1> HIDE DEF l, t, low
<1>6. ASSUME NEW i \in 1 .. Len(t) PROVE l[i + 1] = IF IsData(t[i]) THEN l[i] + 1 ELSE l[i]
  <2>1. CASE i = 1
    <3>0. 1 \in 1 .. Len(s) + 1
      BY <1>2
    <3>1. l[1 + 1] = n[1]
      BY <1>4, <3>0
    <3> QED
      BY <1>2, <1>3, <1>4, <1>5, <2>1, <3>1
  <2>2. CASE i # 1
    <3>1. PICK j \in 1 .. Len(s) : i = j + 1
      <4>1. i - 1 \in 1 .. Len(s) /\ i = (i - 1) + 1
        BY <1>2, <2>2
      <4> QED
        BY <4>1
    <3>2. n[j + 1] = IF IsData(s[j]) THEN n[j] + 1 ELSE n[j]
      BY <1>1 DEF Track
    <3>3. l[j + 1] = n[j] /\ l[(j + 1) + 1] = n[j + 1] /\ t[j + 1] = s[j]
      BY <1>2, <1>4
    <3> QED
      BY <3>1, <3>2, <3>3
  <2> QED
    BY <2>1, <2>2
<1>7. ASSUME NEW i \in 1 .. Len(t) + 1, NEW j \in 1 .. Len(t) + 1, i <= j
      PROVE  l[i] <= l[j]
  <2>1. CASE i = 1
    <3>1. CASE j = 1
      BY <1>4, <2>1, <3>1
    <3>2. CASE j # 1
      <4>1. j - 1 \in 1 .. Len(s) + 1 /\ 1 \in 1 .. Len(s) + 1 /\ 1 <= j - 1 /\ (j - 1) + 1 = j
        BY <1>2, <3>2
      <4>2. n[1] <= n[j - 1] /\ n[j - 1] \in Nat
        BY <1>1, <1>3, <4>1 DEF Track
      <4>3. l[j] = n[j - 1]
        BY <1>4, <4>1
      <4> QED
        BY <1>3, <1>4, <1>5, <2>1, <4>2, <4>3
    <3> QED
      BY <3>1, <3>2
  <2>2. CASE i # 1
    <3>1. /\ i - 1 \in 1 .. Len(s) + 1 /\ j - 1 \in 1 .. Len(s) + 1 /\ i - 1 <= j - 1
          /\ (i - 1) + 1 = i /\ (j - 1) + 1 = j
      BY <1>2, <1>7, <2>2
    <3>2. n[i - 1] <= n[j - 1]
      BY <1>1, <3>1 DEF Track
    <3>3. l[i] = n[i - 1] /\ l[j] = n[j - 1]
      BY <1>4, <3>1
    <3> QED
      BY <3>2, <3>3
  <2> QED
    BY <2>1, <2>2
<1>8. ASSUME NEW i \in 1 .. Len(t) + 1, NEW j \in 1 .. Len(t) + 1, l[i] < l[j]
      PROVE  \E k \in i .. j - 1 : k \in 1 .. Len(t) /\ IsData(t[k])
  <2>1. i < j
    <3>1. i >= j => l[j] <= l[i]
      BY <1>7
    <3>2. l[i] \in Nat /\ l[j] \in Nat
      BY <1>4
    <3> QED
      BY <1>2, <1>8, <3>1, <3>2
  <2>2. CASE i = 1 /\ IsData(m)
    BY <1>2, <2>1, <2>2
  <2>3. CASE ~ (i = 1 /\ IsData(m))
    <3>1. PICK h \in 1 .. Len(s) + 1 : h + 1 >= i /\ l[i] = n[h] /\ h < j
      <4>1. CASE i = 1
        <5>1. 1 \in 1 .. Len(s) + 1 /\ 1 + 1 >= i /\ l[i] = n[1] /\ 1 < j
          BY <1>2, <1>3, <1>4, <1>5, <2>1, <2>3, <4>1
        <5> QED
          BY <5>1
      <4>2. CASE i # 1
        <5>1. i - 1 \in 1 .. Len(s) + 1 /\ (i - 1) + 1 = i /\ i - 1 < j
          BY <1>2, <2>1, <4>2
        <5>2. l[(i - 1) + 1] = n[i - 1]
          BY <1>4, <5>1
        <5>3. (i - 1) + 1 >= i
          BY <5>1
        <5> QED
          BY <5>1, <5>2, <5>3
      <4> QED
        BY <4>1, <4>2
    <3>2. j - 1 \in 1 .. Len(s) + 1 /\ (j - 1) + 1 = j
      BY <1>2, <2>1
    <3>3. n[h] < n[j - 1]
      BY <1>4, <1>8, <3>1, <3>2
    <3>4. PICK k \in h .. j - 1 - 1 : k \in 1 .. Len(s) /\ IsData(s[k])
      BY <1>1, <3>2, <3>3 DEF Track
    <3>5. k + 1 \in i .. j - 1 /\ k + 1 \in 1 .. Len(t) /\ t[k + 1] = s[k]
      BY <1>2, <3>1, <3>4
    <3> QED
      BY <3>4, <3>5
  <2> QED
    BY <2>2, <2>3
<1>9. Track(t, l, lo, hi)
  BY <1>4, <1>6, <1>7, <1>8 DEF Track
<1>10. ASSUME NEW i \in 1 .. Len(t), IsData(t[i]) PROVE <<t[i], l[i]>> \in G
  <2>1. CASE i = 1
    BY <1>2, <1>4, <1>10, <2>1
  <2>2. CASE i # 1
    <3>1. i - 1 \in 1 .. Len(s) /\ i - 1 \in 1 .. Len(s) + 1 /\ (i - 1) + 1 = i
      BY <1>2, <2>2
    <3>2. t[i] = s[i - 1] /\ l[i] = n[i - 1]
      BY <1>2, <1>4, <3>1
    <3> QED
      BY <1>1, <1>10, <3>1, <3>2
  <2> QED
    BY <2>1, <2>2
<1>11. Numbered(t, lo, hi, G)
  BY <1>9, <1>10 DEF Numbered
<1> QED
  BY <1>11 DEF t

\* What the numbers mean may change, where s has them.
LEMMA NumberedMap ==
    ASSUME NEW M, NEW s \in Seq(M), NEW lo, NEW hi, NEW G, NEW H, Numbered(s, lo, hi, G),
           \A m \in M : \A k \in Nat : lo <= k /\ k < hi /\ <<m, k>> \in G => <<m, k>> \in H
    PROVE  Numbered(s, lo, hi, H)
<1>1. PICK n : /\ Track(s, n, lo, hi)
               /\ \A i \in 1 .. Len(s) : IsData(s[i]) => <<s[i], n[i]>> \in G
  BY DEF Numbered
<1>2. ASSUME NEW i \in 1 .. Len(s), IsData(s[i]) PROVE <<s[i], n[i]>> \in H
  <2>1. s[i] \in M /\ Len(s) \in Nat /\ i \in 1 .. Len(s) + 1 /\ i + 1 \in 1 .. Len(s) + 1
    OBVIOUS
  <2>2. /\ n[i] \in Nat /\ n[1] = lo /\ n[Len(s) + 1] = hi
        /\ n[i + 1] = n[i] + 1 /\ n[1] <= n[i] /\ n[i + 1] <= n[Len(s) + 1]
    <3>1. 1 \in 1 .. Len(s) + 1 /\ Len(s) + 1 \in 1 .. Len(s) + 1 /\ 1 <= i /\ i + 1 <= Len(s) + 1
      BY <2>1
    <3>2. n[i + 1] = n[i] + 1
      BY <1>1, <1>2 DEF Track
    <3> QED
      BY <1>1, <2>1, <3>1, <3>2 DEF Track
  <2>3. lo <= n[i] /\ n[i] < hi
    <3>1. hi \in Nat
      BY NumberedRange
    <3> QED
      BY <2>2, <3>1
  <2> QED
    BY <1>1, <1>2, <2>1, <2>2, <2>3
<1> QED
  BY <1>1, <1>2 DEF Numbered

-----------------------------------------------------------------------------
(* Sums.                                                                   *)

LEMMA SummedEmpty == ASSUME NEW k \in Nat PROVE Summed(<<>>, k, k)
<1> DEFINE n == [i \in 1 .. 1 |-> k]
<1>1. Len(<<>>) = 0 /\ 1 .. 0 = {}
  OBVIOUS
<1>2. n \in [1 .. 0 + 1 -> Nat] /\ n[1] = k /\ n[0 + 1] = k
  OBVIOUS
<1>3. \A i, j \in 1 .. 0 + 1 : i <= j => n[i] <= n[j]
  BY <1>2
<1> HIDE DEF n
<1> QED
  BY <1>1, <1>2, <1>3 DEF Summed

LEMMA SummedRange ==
    ASSUME NEW s \in Seq(Nat), NEW lo, NEW hi, Summed(s, lo, hi)
    PROVE  lo \in Nat /\ hi \in Nat /\ lo <= hi
<1>1. Len(s) \in Nat /\ 1 \in 1 .. Len(s) + 1 /\ Len(s) + 1 \in 1 .. Len(s) + 1
  OBVIOUS
<1> QED
  BY <1>1 DEF Summed

LEMMA SummedAppend ==
    ASSUME NEW s \in Seq(Nat), NEW lo, NEW hi, Summed(s, lo, hi), NEW m \in Nat
    PROVE  Summed(Append(s, m), lo, hi + m)
<1> DEFINE t == Append(s, m)
<1>1. PICK n : /\ n \in [1 .. Len(s) + 1 -> Nat] /\ n[1] = lo /\ n[Len(s) + 1] = hi
               /\ \A i \in 1 .. Len(s) : n[i + 1] = n[i] + s[i]
               /\ \A i, j \in 1 .. Len(s) + 1 : i <= j => n[i] <= n[j]
  BY DEF Summed
<1> DEFINE l == [i \in 1 .. Len(s) + 2 |-> IF i <= Len(s) + 1 THEN n[i] ELSE hi + m]
<1>2. /\ Len(s) \in Nat /\ Len(t) = Len(s) + 1 /\ t[Len(s) + 1] = m
      /\ \A i \in 1 .. Len(s) : t[i] = s[i]
  OBVIOUS
<1>3. hi \in Nat
  BY SummedRange
<1>4. /\ l \in [1 .. Len(s) + 2 -> Nat] /\ l[Len(s) + 2] = hi + m
      /\ \A i \in 1 .. Len(s) + 1 : l[i] = n[i]
  BY <1>1, <1>2, <1>3
<1> HIDE DEF l, t
<1>5. ASSUME NEW i \in 1 .. Len(t) PROVE l[i + 1] = l[i] + t[i]
  <2>1. CASE i \in 1 .. Len(s)
    <3>1. i \in 1 .. Len(s) + 1 /\ i + 1 \in 1 .. Len(s) + 1
      BY <1>2, <2>1
    <3> QED
      BY <1>1, <1>2, <1>4, <2>1, <3>1
  <2>2. CASE i = Len(s) + 1
    BY <1>1, <1>2, <1>4, <2>2
  <2> QED
    BY <1>2, <2>1, <2>2
<1>6. ASSUME NEW i \in 1 .. Len(t) + 1, NEW j \in 1 .. Len(t) + 1, i <= j
      PROVE  l[i] <= l[j]
  <2>1. CASE j <= Len(s) + 1
    <3>1. i \in 1 .. Len(s) + 1 /\ j \in 1 .. Len(s) + 1
      BY <1>2, <1>6, <2>1
    <3> QED
      BY <1>1, <1>4, <1>6, <3>1
  <2>2. CASE j = Len(s) + 2 /\ i <= Len(s) + 1
    <3>1. i \in 1 .. Len(s) + 1 /\ Len(s) + 1 \in 1 .. Len(s) + 1
      BY <1>2, <2>2
    <3>2. n[i] \in Nat /\ n[i] <= n[Len(s) + 1]
      <4>1. n[i] \in Nat
        BY <1>1, <3>1
      <4>2. i <= Len(s) + 1
        BY <2>2
      <4> QED
        BY <1>1, <3>1, <4>1, <4>2
    <3>3. l[i] = n[i] /\ l[j] = hi + m /\ n[Len(s) + 1] = hi
      BY <1>1, <1>4, <2>2, <3>1
    <3> QED
      BY <1>3, <3>2, <3>3
  <2>3. CASE i = Len(s) + 2
    <3>1. j = i
      BY <1>2, <1>6, <2>3
    <3> QED
      BY <1>3, <1>4, <2>3, <3>1
  <2> QED
    BY <1>2, <1>6, <2>1, <2>2, <2>3
<1>7. Summed(t, lo, hi + m)
  BY SMTT(30), <1>1, <1>2, <1>4, <1>5, <1>6 DEF Summed
<1> QED
  BY <1>7 DEF t

LEMMA SummedTail ==
    ASSUME NEW s \in Seq(Nat), NEW lo, NEW hi, Summed(s, lo, hi), s # <<>>
    PROVE  Summed(Tail(s), lo + Head(s), hi)
<1> DEFINE t == Tail(s)
<1>1. PICK n : /\ n \in [1 .. Len(s) + 1 -> Nat] /\ n[1] = lo /\ n[Len(s) + 1] = hi
               /\ \A i \in 1 .. Len(s) : n[i + 1] = n[i] + s[i]
               /\ \A i, j \in 1 .. Len(s) + 1 : i <= j => n[i] <= n[j]
  BY DEF Summed
<1> DEFINE l == [i \in 1 .. Len(s) |-> n[i + 1]]
<1>2. /\ Len(s) \in Nat \ {0} /\ Len(t) = Len(s) - 1 /\ Head(s) = s[1]
      /\ \A i \in 1 .. Len(t) : t[i] = s[i + 1]
  OBVIOUS
<1>3. l \in [1 .. Len(t) + 1 -> Nat] /\ \A i \in 1 .. Len(t) + 1 : l[i] = n[i + 1]
  BY <1>1, <1>2
<1> HIDE DEF l, t
<1>4. l[1] = lo + Head(s) /\ l[Len(t) + 1] = hi
  BY <1>1, <1>2, <1>3
<1>5. ASSUME NEW i \in 1 .. Len(t) PROVE l[i + 1] = l[i] + t[i]
  <2>1. /\ i \in 1 .. Len(t) + 1 /\ i + 1 \in 1 .. Len(t) + 1 /\ i + 1 \in 1 .. Len(s)
        /\ t[i] = s[i + 1]
    BY <1>2
  <2>2. n[i + 1 + 1] = n[i + 1] + s[i + 1]
    BY <1>1, <2>1
  <2> QED
    BY <1>3, <2>1, <2>2
<1>6. ASSUME NEW i \in 1 .. Len(t) + 1, NEW j \in 1 .. Len(t) + 1, i <= j
      PROVE  l[i] <= l[j]
  <2>1. i + 1 \in 1 .. Len(s) + 1 /\ j + 1 \in 1 .. Len(s) + 1 /\ i + 1 <= j + 1
    BY <1>2, <1>6
  <2>2. n[i + 1] <= n[j + 1]
    BY <1>1, <2>1
  <2> QED
    BY <1>3, <2>2
<1>7. Summed(t, lo + Head(s), hi)
  BY <1>3, <1>4, <1>5, <1>6 DEF Summed
<1> QED
  BY <1>7 DEF t

-----------------------------------------------------------------------------
(* Types.                                                                  *)

Outgoing == {Query} \cup {Data(b) : b \in Buffer}
Sample   == [tag : {"PUSHDATA"}, order : Nat, sample : Int]
Carried  == {Query} \cup Sample

WriterTypes ==
    /\ wpc \in {"lock", "fill", "fire", "push", "queue", "done"} /\ wp \in Peer
    /\ written \in Nat /\ writeBuffer \in Buffer
    /\ content \in [Buffer -> Int] /\ order \in [Buffer -> Nat]
    /\ messagesSent \in [Peer -> Nat] /\ nextBufferToRead \in [Peer -> Buffer]
    /\ ended \in BOOLEAN

SenderTypes ==
    /\ full \in [Peer -> [Buffer -> BOOLEAN]] /\ readBuffer \in [Peer -> Buffer]
    /\ sendQ \in [Peer -> Seq(Outgoing)] /\ sending \in [Peer -> Outgoing \cup {None}]
    /\ items \in [Peer -> Int] /\ unanswered \in [Peer -> BOOLEAN]
    /\ failed \in [Peer -> BOOLEAN]
    /\ net \in [Peer -> Seq(Carried)] /\ back \in [Peer -> Seq(Nat)]

PeerTypes ==
    /\ queue \in [Peer -> Seq(Sample)] /\ used \in [Peer -> Nat]
    /\ delivering \in [Peer -> Sample \cup {None}] /\ expected \in [Peer -> Nat]
    /\ dpc \in [Peer -> {"pull", "deliver", "done"}]
    /\ port \in [Peer -> Seq(Int)] /\ taken \in [Peer -> Int] /\ con \in [Peer -> Nat]
    /\ peerEnded \in [Peer -> BOOLEAN]

Types == WriterTypes /\ SenderTypes /\ PeerTypes

-----------------------------------------------------------------------------
(* The invariant.                                                          *)

\* The buffer written n samples ago, when w is to be written next.
At(w, n) == IF w + n >= RingSize THEN w + n - RingSize ELSE w + n

Aged(n) == At(writeBuffer, n)

\* Message m in a queue here is sample k, where the ring has it.
Held == {x \in Outgoing \X Nat :
            /\ IsData(x[1]) /\ x[1].buffer = Aged(written - x[2])
            /\ content[x[1].buffer] = x[2] /\ order[x[1].buffer] = x[2]}

\* A message that has been sent carries its number, and the sample of that number.
Right == {x \in Carried \X Nat : IsData(x[1]) /\ x[1].order = x[2] /\ x[1].sample = x[2]}

\* Samples of peer p in the sender's hands, and those the peer has reported as used when
\* c is the next to be sent.
InHand(p) == IF IsData(sending[p]) THEN 1 ELSE 0
Reported(p, c) == c + InHand(p) - items[p]

\* Samples that have reached the port in the peer voice.
Delivered(p) == Len(port[p]) + con[p] - Lag[p]

Backlog == PushDataMaxItems + RingSize

Due(k) == IF k >= 0 THEN k ELSE Initial

\* The messages that wait to be sent are samples c to messagesSent - 1.
SendInv(p, c) ==
    /\ Numbered(sendQ[p], c + InHand(p), messagesSent[p], Held)
    /\ IsData(sending[p]) => <<sending[p], c>> \in Held
    /\ failed[p] => sending[p] = None

\* Samples b - 1 down to a are on the connection, and those before, down to the one that is
\* expected next, in the queue of the deliverer.
NetInv(p, a, b, c) ==
    /\ Numbered(net[p], a, b, Right)
    /\ dpc[p] # "done" => Numbered(queue[p], expected[p], a, Right)
    /\ dpc[p] = "done" => queue[p] = <<>> /\ expected[p] <= a
    /\ b <= c /\ (~ failed[p] => b = c)

\* What is counted here and what is counted there differ by the replies on the way.
UsedInv(p, c) == Summed(back[p], Reported(p, c), expected[p] - used[p])

\* The ring keeps the samples that have not been sent.
RingInv(p, c) ==
    /\ written - c <= RingSize /\ (wpc = "fill" => written - c < RingSize)
    /\ readBuffer[p] = Aged(written - c) \/ (wpc = "done" /\ failed[p] /\ c = messagesSent[p])
    /\ wpc # "done" => \A k \in Nat : c <= k /\ k < written => full[p][Aged(written - k)]

BacklogInv(p, c) ==
    /\ wpc = "fill" \/ ~ ended => messagesSent[p] - Reported(p, c) <= Backlog
    /\ wpc = "queue" /\ p = wp /\ ~ ended => messagesSent[p] - Reported(p, c) < Backlog

LinkInv(p) ==
    \E a, b, c \in Nat :
        SendInv(p, c) /\ NetInv(p, a, b, c) /\ UsedInv(p, c) /\ RingInv(p, c) /\ BacklogInv(p, c)

\* The port in the peer voice holds the samples its reader has not given back.
PortInv(p) ==
    /\ Len(port[p]) <= PortSize(p)
    /\ Delivered(p) <= expected[p] /\ expected[p] <= Delivered(p) + 1
    /\ dpc[p] = "pull" => Delivered(p) = expected[p]
    /\ dpc[p] = "deliver" => Delivered(p) = expected[p] - 1
                             /\ delivering[p] # None /\ delivering[p].sample = Delivered(p)
    /\ \A i \in 1 .. Len(port[p]) : port[p][i] = Due(con[p] + i - 1 - Lag[p])
    /\ taken[p] # NoSample => port[p] # <<>> /\ taken[p] = Head(port[p])

\* The writer serves its peers in turn.
WriterInv ==
    /\ \A p \in Peer :
         /\ wpc \in {"lock", "fill"} => messagesSent[p] = written
         /\ wpc \in {"fire", "push", "queue"} =>
                messagesSent[p] = written - (IF p < wp THEN 0 ELSE 1)
         /\ messagesSent[p] \in {written - 1, written}
         /\ nextBufferToRead[p] = Aged(written - messagesSent[p])
    /\ wpc \in {"fire", "push", "queue"} => content[Aged(1)] = written - 1
    /\ wpc \in {"push", "queue"} \/ (wpc = "fire" /\ wp > 1) => order[Aged(1)] = written - 1

RemoteInv ==
    /\ Types /\ WriterInv
    /\ \A p \in Peer : LinkInv(p) /\ PortInv(p)

-----------------------------------------------------------------------------
(* Round the ring.                                                         *)

LEMMA AgedRange ==
    ASSUME writeBuffer \in Buffer, NEW n \in 0 .. RingSize
    PROVE  Aged(n) \in Buffer
BY RemoteAssumption DEF Aged, At, Buffer

LEMMA AgedEnds ==
    ASSUME writeBuffer \in Buffer
    PROVE  Aged(0) = writeBuffer /\ Aged(RingSize) = writeBuffer
BY RemoteAssumption DEF Aged, At, Buffer

LEMMA AgedInjective ==
    ASSUME writeBuffer \in Buffer, NEW m \in 0 .. RingSize, NEW n \in 0 .. RingSize,
           Aged(m) = Aged(n)
    PROVE  m = n \/ (m = 0 /\ n = RingSize) \/ (m = RingSize /\ n = 0)
BY RemoteAssumption DEF Aged, At, Buffer

LEMMA AgedDown ==
    ASSUME writeBuffer \in Buffer, NEW n \in 1 .. RingSize
    PROVE  Down(Aged(n), RingSize) = Aged(n - 1)
BY RemoteAssumption DEF Aged, At, Buffer, Down

LEMMA AgedPublish ==
    ASSUME writeBuffer \in Buffer, writeBuffer' = Down(writeBuffer, RingSize),
           NEW n \in 0 .. RingSize - 1
    PROVE  At(writeBuffer', n + 1) = Aged(n)
BY RemoteAssumption DEF Aged, At, Buffer, Down

LEMMA Messages ==
    /\ ~ IsData(None) /\ ~ IsData(Query) /\ Query # None
    /\ \A m \in Outgoing : IsData(m) => m \in {Data(b) : b \in Buffer} /\ m.buffer \in Buffer
    /\ \A m \in Outgoing : ~ IsData(m) => m = Query
    /\ \A m \in Outgoing : m # None
    /\ \A b \in Buffer : Data(b) \in Outgoing /\ IsData(Data(b)) /\ Data(b).buffer = b
                         /\ Data(b) # Query
    /\ \A m \in Sample : IsData(m) /\ m # None
    /\ \A m \in Carried : IsData(m) => m \in Sample
<1>1. ~ IsData(None) /\ ~ IsData(Query) /\ Query # None
  BY DEF IsData, None, Query
<1>2. ASSUME NEW b \in Buffer
      PROVE  /\ Data(b) \in Outgoing /\ IsData(Data(b)) /\ Data(b).buffer = b
             /\ Data(b) # Query /\ Data(b) # None
  <2>1. Data(b) \in Outgoing
    BY DEF Outgoing
  <2>2. IsData(Data(b)) /\ Data(b).buffer = b
    BY DEF IsData, Data
  <2> QED
    BY <1>1, <2>1, <2>2
<1>3. ASSUME NEW m \in Outgoing PROVE m = Query \/ \E b \in Buffer : m = Data(b)
  BY DEF Outgoing
<1>4. ASSUME NEW m \in Sample PROVE IsData(m) /\ m # None
  <2>1. IsData(m)
    BY DEF Sample, IsData
  <2> QED
    BY <1>1, <2>1
<1>5. \A m \in Carried : IsData(m) => m \in Sample
  BY <1>1 DEF Carried
<1> QED
  BY <1>1, <1>2, <1>3, <1>4, <1>5

LEMMA SetIs ==
    ASSUME NEW D, NEW S, NEW f \in [D -> S], NEW w \in D, NEW v \in S
    PROVE  /\ Set(f, w, v) \in [D -> S] /\ Set(f, w, v)[w] = v
           /\ \A u \in D : u # w => Set(f, w, v)[u] = f[u]
BY DEF Set

-----------------------------------------------------------------------------
(* Types.                                                                  *)

LEMMA MessageAwayTypes ==
    ASSUME SenderTypes, NEW p \in Peer, NEW b \in Buffer, MessageAway(p, b)
    PROVE  full' \in [Peer -> [Buffer -> BOOLEAN]] /\ readBuffer' \in [Peer -> Buffer]
<1>1. Down(b, RingSize) \in Buffer
  BY RemoteAssumption DEF Down, Buffer
<1>2. CASE b # readBuffer[p]
  BY <1>2 DEF MessageAway, SenderTypes
<1>3. CASE b = readBuffer[p]
  <2>1. full' = Set(full, p, Set(full[p], b, FALSE)) /\ readBuffer' = Set(readBuffer, p, Down(b, RingSize))
    BY <1>3 DEF MessageAway
  <2>2. Set(full[p], b, FALSE) \in [Buffer -> BOOLEAN]
    BY SetIs DEF SenderTypes
  <2> QED
    BY <1>1, <2>1, <2>2, SetIs DEF SenderTypes
<1> QED
  BY <1>2, <1>3

LEMMA WriterStepTypes == ASSUME Types, Writer PROVE Types'
<1> USE DEF Types
<1>1. ASSUME UNCHANGED senderVars, UNCHANGED peerVars, WriterTypes',
             UNCHANGED <<net, back, peerEnded>>,
             full' \in [Peer -> [Buffer -> BOOLEAN]], readBuffer' \in [Peer -> Buffer]
      PROVE  Types'
  BY <1>1 DEF senderVars, peerVars, SenderTypes, PeerTypes
<1>2. FireNext => wpc' \in {"fire", "lock"} /\ wp' \in Peer
  BY SMTT(30), RemoteAssumption DEF FireNext, WriterTypes, Peer
<1>3. ASSUME WriteLock \/ GoAhead \/ Leave PROVE Types'
  <2>1. /\ UNCHANGED <<wp, written, writeBuffer, content, order, messagesSent, nextBufferToRead,
                       full, readBuffer, net, back, ended, peerEnded>>
        /\ UNCHANGED senderVars /\ UNCHANGED peerVars
        /\ wpc' \in {"fill", "queue", "done"}
    BY <1>3 DEF WriteLock, GoAhead, Leave
  <2> QED
    BY <1>1, <2>1 DEF WriterTypes, SenderTypes
<1>4. ASSUME Publish PROVE Types'
  <2>1. content' \in [Buffer -> Int]
    BY <1>4, SetIs DEF Set, Publish, WriterTypes
  <2>2. full' \in [Peer -> [Buffer -> BOOLEAN]]
    <3>1. \A p \in Peer : Set(full[p], writeBuffer, TRUE) \in [Buffer -> BOOLEAN]
      BY SetIs DEF Set, SenderTypes, WriterTypes
    <3> QED
      BY <1>4, <3>1 DEF Publish
  <2>3. writeBuffer' \in Buffer /\ wp' \in Peer
    BY <1>4, RemoteAssumption DEF Publish, WriterTypes, Down, Buffer, Peer
  <2>4. WriterTypes'
    BY <1>4, <2>1, <2>3 DEF Publish, WriterTypes
  <2> QED
    BY <1>1, <1>4, <2>2, <2>4 DEF Publish, SenderTypes
<1>5. ASSUME Fire PROVE Types'
  <2>1. WriterTypes'
    <3>1. order' \in [Buffer -> Nat]
      BY <1>5, SetIs DEF Set, Fire, WriterTypes
    <3>2. wpc' \in {"push", "fire", "lock"} /\ wp' \in Peer
      BY <1>2, <1>5 DEF Fire, WriterTypes
    <3> QED
      BY <1>5, <3>1, <3>2 DEF Fire, WriterTypes
  <2> QED
    BY <1>1, <1>5, <2>1 DEF Fire, SenderTypes
<1>6. ASSUME HoldUp PROVE Types'
  <2>1. sendQ' \in [Peer -> Seq(Outgoing)]
    <3>1. Append(sendQ[wp], Query) \in Seq(Outgoing)
      <4>1. Query \in Outgoing /\ sendQ[wp] \in Seq(Outgoing)
        BY DEF SenderTypes, WriterTypes, Outgoing
      <4> QED
        BY <4>1
    <3> QED
      BY <1>6, <3>1, SetIs DEF Set, HoldUp, SenderTypes, WriterTypes
  <2> QED
    BY <1>6, <2>1 DEF HoldUp, SenderTypes, WriterTypes, PeerTypes, writerVars, peerVars
<1>7. ASSUME Queue PROVE Types'
  <2>1. sendQ' \in [Peer -> Seq(Outgoing)]
    <3>1. Data(nextBufferToRead[wp]) \in Outgoing
      BY Messages DEF WriterTypes
    <3>2. Append(sendQ[wp], Data(nextBufferToRead[wp])) \in Seq(Outgoing)
      BY <3>1 DEF SenderTypes, WriterTypes
    <3>3. sendQ' = [sendQ EXCEPT ![wp] = Append(sendQ[wp], Data(nextBufferToRead[wp]))]
      BY <1>7 DEF Queue, Set
    <3>4. sendQ \in [Peer -> Seq(Outgoing)]
      BY DEF SenderTypes
    <3> QED
      BY <3>2, <3>3, <3>4
  <2>2. nextBufferToRead' \in [Peer -> Buffer] /\ messagesSent' \in [Peer -> Nat]
    <3>1. Down(nextBufferToRead[wp], RingSize) \in Buffer
      BY SMTT(30), RemoteAssumption DEF Down, Buffer, WriterTypes
    <3>2. messagesSent[wp] + 1 \in Nat
      BY DEF WriterTypes
    <3> QED
      BY <1>7, <3>1, <3>2, SetIs DEF Set, Queue, WriterTypes
  <2> QED
    BY <1>2, <1>7, <2>1, <2>2 DEF Queue, WriterTypes, SenderTypes, PeerTypes, peerVars
<1>8. ASSUME PushDropped PROVE Types'
  <2>1. nextBufferToRead[wp] \in Buffer /\ wp \in Peer
    BY DEF WriterTypes
  <2>2. full' \in [Peer -> [Buffer -> BOOLEAN]] /\ readBuffer' \in [Peer -> Buffer]
    BY <1>8, <2>1, MessageAwayTypes DEF PushDropped
  <2>3. WriterTypes'
    BY <1>8 DEF PushDropped, WriterTypes
  <2> QED
    BY <1>1, <1>8, <2>2, <2>3 DEF PushDropped
<1> QED
  BY <1>3, <1>4, <1>5, <1>6, <1>7, <1>8 DEF Writer

LEMMA SenderStepTypes ==
    ASSUME Types, NEW p \in Peer, SenderPull(p) \/ SenderSend(p) \/ SenderFails(p)
    PROVE  Types'
<1> USE DEF Types
<1>1. ASSUME SenderPull(p) PROVE Types'
  <2>1. Head(sendQ[p]) \in Outgoing /\ Tail(sendQ[p]) \in Seq(Outgoing)
        /\ Append(Tail(sendQ[p]), Query) \in Seq(Outgoing)
    <3>1. sendQ[p] \in Seq(Outgoing) /\ sendQ[p] # <<>> /\ Query \in Outgoing
      BY <1>1 DEF SenderPull, SenderTypes, Outgoing
    <3>2. Head(sendQ[p]) \in Outgoing /\ Tail(sendQ[p]) \in Seq(Outgoing)
      BY <3>1
    <3> QED
      BY <3>1, <3>2
  <2>2. sending' \in [Peer -> Outgoing \cup {None}]
    BY <1>1, <2>1, SetIs DEF Set, SenderPull, SenderTypes
  <2>3. items' \in [Peer -> Int]
    <3>1. items[p] + 1 \in Int
      BY DEF SenderTypes
    <3> QED
      BY <1>1, <3>1, SetIs DEF Set, SenderPull, SenderTypes
  <2>4. sendQ' \in [Peer -> Seq(Outgoing)]
    <3>1. \/ sendQ' = Set(sendQ, p, Tail(sendQ[p]))
          \/ sendQ' = Set(sendQ, p, Append(Tail(sendQ[p]), Query))
      BY <1>1 DEF SenderPull
    <3> QED
      <4>1. Set(sendQ, p, Tail(sendQ[p])) \in [Peer -> Seq(Outgoing)]
        BY <2>1, SetIs DEF SenderTypes
      <4>2. Set(sendQ, p, Append(Tail(sendQ[p]), Query)) \in [Peer -> Seq(Outgoing)]
        BY <2>1, SetIs DEF SenderTypes
      <4> QED
        BY <3>1, <4>1, <4>2
  <2> QED
    BY <1>1, <2>2, <2>3, <2>4 DEF SenderPull, SenderTypes, WriterTypes, PeerTypes, writerVars, peerVars
<1>2. Release(p, sending[p]) =>
        full' \in [Peer -> [Buffer -> BOOLEAN]] /\ readBuffer' \in [Peer -> Buffer]
  <2>1. CASE IsData(sending[p])
    <3>1. sending[p].buffer \in Buffer
      BY <2>1, Messages DEF SenderTypes
    <3> QED
      BY <2>1, <3>1, MessageAwayTypes DEF Release, IsData
  <2>2. CASE ~ IsData(sending[p])
    BY <2>2 DEF Release, IsData, SenderTypes
  <2> QED
    BY <2>1, <2>2
<1>3. ASSUME SenderSend(p) PROVE Types'
  <2>1. sending' \in [Peer -> Outgoing \cup {None}]
    BY <1>3, SetIs DEF Set, SenderSend, SenderTypes
  <2>2. net' \in [Peer -> Seq(Carried)]
    <3> DEFINE m == sending[p]
               new == IF m = Query THEN m
                      ELSE [tag |-> "PUSHDATA", order |-> order[m.buffer],
                            sample |-> content[m.buffer]]
    <3>1. m \in Outgoing
      BY <1>3 DEF SenderSend, SenderTypes
    <3>2. m # Query => m.buffer \in Buffer
      BY <3>1, Messages
    <3>3. new \in Carried
      BY <3>2 DEF Carried, Sample, WriterTypes
    <3>4. net' = Set(net, p, Append(net[p], new))
      BY <1>3 DEF SenderSend
    <3>5. Append(net[p], new) \in Seq(Carried)
      BY <3>3 DEF SenderTypes
    <3> QED
      BY <3>4, <3>5, SetIs DEF Set, SenderTypes
  <2>3. full' \in [Peer -> [Buffer -> BOOLEAN]] /\ readBuffer' \in [Peer -> Buffer]
    BY <1>2, <1>3 DEF SenderSend
  <2> QED
    BY <1>3, <2>1, <2>2, <2>3 DEF SenderSend, SenderTypes, WriterTypes, PeerTypes, writerVars, peerVars
<1>4. ASSUME SenderFails(p) PROVE Types'
  <2>1. sending' \in [Peer -> Outgoing \cup {None}] /\ failed' \in [Peer -> BOOLEAN]
    BY <1>4, SetIs DEF Set, SenderFails, SenderTypes
  <2>2. full' \in [Peer -> [Buffer -> BOOLEAN]] /\ readBuffer' \in [Peer -> Buffer]
    BY <1>2, <1>4 DEF SenderFails
  <2> QED
    BY <1>4, <2>1, <2>2 DEF SenderFails, SenderTypes, WriterTypes, PeerTypes, writerVars, peerVars
<1> QED
  BY <1>1, <1>3, <1>4

LEMMA ReceiverStepTypes ==
    ASSUME Types, NEW p \in Peer,
           ReceivePushData(p) \/ ReceiveQuery(p) \/ ReceiveUsedData(p)
    PROVE  Types'
<1> USE DEF Types
<1>1. net[p] # <<>> => Head(net[p]) \in Carried /\ Set(net, p, Tail(net[p])) \in [Peer -> Seq(Carried)]
  <2>1. net[p] \in Seq(Carried)
    BY DEF SenderTypes
  <2>2. net[p] # <<>> => Head(net[p]) \in Carried /\ Tail(net[p]) \in Seq(Carried)
    BY <2>1
  <2> QED
    BY <2>2, SetIs DEF Set, SenderTypes
<1>2. ASSUME ReceivePushData(p) PROVE Types'
  <2>1. Head(net[p]) \in Sample
    BY <1>1, <1>2, Messages DEF ReceivePushData, IsData
  <2>2. Append(queue[p], Head(net[p])) \in Seq(Sample)
    BY <2>1 DEF PeerTypes
  <2>3. queue' \in [Peer -> Seq(Sample)]
    BY <1>2, <2>2, SetIs DEF Set, ReceivePushData, PeerTypes
  <2>4. net' \in [Peer -> Seq(Carried)]
    BY <1>1, <1>2 DEF ReceivePushData
  <2> QED
    BY <1>2, <2>3, <2>4 DEF ReceivePushData, SenderTypes, WriterTypes, PeerTypes, writerVars, senderVars
<1>3. ASSUME ReceiveQuery(p) PROVE Types'
  <2>1. back' \in [Peer -> Seq(Nat)]
    <3>1. Append(back[p], used[p]) \in Seq(Nat)
      BY DEF SenderTypes, PeerTypes
    <3> QED
      <4>1. back' = back \/ back' = Set(back, p, Append(back[p], used[p]))
        BY <1>3 DEF ReceiveQuery
      <4>2. Set(back, p, Append(back[p], used[p])) \in [Peer -> Seq(Nat)]
        BY <3>1, SetIs DEF SenderTypes
      <4> QED
        BY <4>1, <4>2 DEF SenderTypes
  <2>2. used' \in [Peer -> Nat]
    BY <1>3, SetIs DEF Set, ReceiveQuery, PeerTypes
  <2>3. unanswered' \in [Peer -> BOOLEAN]
    <3>1. unanswered' = unanswered \/ unanswered' = Set(unanswered, p, TRUE)
      BY <1>3 DEF ReceiveQuery
    <3>2. Set(unanswered, p, TRUE) \in [Peer -> BOOLEAN]
      BY SetIs DEF SenderTypes
    <3> QED
      BY <3>1, <3>2 DEF SenderTypes
  <2>4. net' \in [Peer -> Seq(Carried)]
    BY <1>1, <1>3 DEF ReceiveQuery
  <2> QED
    BY <1>3, <2>1, <2>2, <2>3, <2>4 DEF ReceiveQuery, SenderTypes, WriterTypes, PeerTypes, writerVars
<1>4. ASSUME ReceiveUsedData(p) PROVE Types'
  <2>1. back[p] \in Seq(Nat) /\ back[p] # <<>>
    BY <1>4 DEF ReceiveUsedData, SenderTypes
  <2>2. Head(back[p]) \in Nat /\ Tail(back[p]) \in Seq(Nat)
    BY <2>1
  <2>3. items' \in [Peer -> Int]
    <3>1. items[p] - Head(back[p]) \in Int
      BY <2>2 DEF SenderTypes
    <3> QED
      BY <1>4, <3>1, SetIs DEF Set, ReceiveUsedData, SenderTypes
  <2>4. back' \in [Peer -> Seq(Nat)]
    BY <1>4, <2>2, SetIs DEF Set, ReceiveUsedData, SenderTypes
  <2> QED
    BY <1>4, <2>3, <2>4 DEF ReceiveUsedData, SenderTypes, WriterTypes, PeerTypes, writerVars, peerVars
<1> QED
  BY <1>2, <1>3, <1>4

LEMMA PeerStepTypes ==
    ASSUME Types, NEW p \in Peer,
           \/ DelivererPull(p) \/ Deliver(p) \/ GiveUp(p)
           \/ Take(p) \/ GiveBack(p) \/ PeerEnds(p),
           dpc[p] = "deliver" => delivering[p] # None, taken[p] # NoSample => port[p] # <<>>
    PROVE  Types'
<1> USE DEF Types
<1>1. ASSUME DelivererPull(p) PROVE Types'
  <2>1. queue[p] \in Seq(Sample) /\ queue[p] # <<>>
    BY <1>1 DEF DelivererPull, PeerTypes
  <2>2. Head(queue[p]) \in Sample /\ Tail(queue[p]) \in Seq(Sample) /\ <<>> \in Seq(Sample)
    BY <2>1
  <2>3. delivering' \in [Peer -> Sample \cup {None}]
    BY <1>1, <2>2, SetIs DEF Set, DelivererPull, PeerTypes
  <2>4. used' \in [Peer -> Nat]
    <3>1. used[p] + 1 \in Nat
      BY DEF PeerTypes
    <3> QED
      BY <1>1, <3>1, SetIs DEF Set, DelivererPull, PeerTypes
  <2>5. expected' \in [Peer -> Nat]
    <3>1. expected[p] + 1 \in Nat
      BY DEF PeerTypes
    <3> QED
      BY SMTT(30), <1>1, <3>1, SetIs DEF Set, DelivererPull, PeerTypes
  <2>6. queue' \in [Peer -> Seq(Sample)]
    <3>1. queue' = Set(queue, p, Tail(queue[p])) \/ queue' = Set(queue, p, <<>>)
      BY <1>1 DEF DelivererPull
    <3>2. Set(queue, p, Tail(queue[p])) \in [Peer -> Seq(Sample)]
      BY <2>2, SetIs DEF PeerTypes
    <3>3. Set(queue, p, <<>>) \in [Peer -> Seq(Sample)]
      BY <2>2, SetIs DEF PeerTypes
    <3> QED
      BY <3>1, <3>2, <3>3
  <2>7. dpc' \in [Peer -> {"pull", "deliver", "done"}]
    BY <1>1 DEF DelivererPull, PeerTypes, Set
  <2>8. peerEnded' \in [Peer -> BOOLEAN]
    <3>1. peerEnded' = peerEnded \/ peerEnded' = Set(peerEnded, p, TRUE)
      BY <1>1 DEF DelivererPull
    <3>2. Set(peerEnded, p, TRUE) \in [Peer -> BOOLEAN]
      BY SetIs DEF PeerTypes
    <3> QED
      BY <3>1, <3>2 DEF PeerTypes
  <2> QED
    BY <1>1, <2>3, <2>4, <2>5, <2>6, <2>7, <2>8
       DEF DelivererPull, SenderTypes, WriterTypes, PeerTypes, writerVars, senderVars
<1>2. ASSUME Deliver(p), delivering[p] \in Sample PROVE Types'
  <2>1. delivering[p].sample \in Int
    BY <1>2 DEF Sample
  <2>2. Append(port[p], delivering[p].sample) \in Seq(Int)
    BY <2>1 DEF PeerTypes
  <2>3. port' \in [Peer -> Seq(Int)]
    BY <1>2, <2>2, SetIs DEF Set, Deliver, PeerTypes
  <2>4. delivering' \in [Peer -> Sample \cup {None}] /\ dpc' \in [Peer -> {"pull", "deliver", "done"}]
    BY <1>2, SetIs DEF Set, Deliver, PeerTypes
  <2> QED
    BY <1>2, <2>3, <2>4 DEF Deliver, SenderTypes, WriterTypes, PeerTypes, writerVars, senderVars
<1>3. ASSUME GiveUp(p) PROVE Types'
  <2>1. <<>> \in Seq(Sample)
    OBVIOUS
  <2>2. queue' \in [Peer -> Seq(Sample)]
    BY <1>3, <2>1, SetIs DEF Set, GiveUp, PeerTypes
  <2>3. delivering' \in [Peer -> Sample \cup {None}] /\ dpc' \in [Peer -> {"pull", "deliver", "done"}]
    BY <1>3, SetIs DEF Set, GiveUp, PeerTypes
  <2> QED
    BY <1>3, <2>2, <2>3 DEF GiveUp, SenderTypes, WriterTypes, PeerTypes, writerVars, senderVars
<1>4. ASSUME Take(p) PROVE Types'
  <2>1. Head(port[p]) \in Int
    BY <1>4 DEF Take, PeerTypes
  <2>2. taken' \in [Peer -> Int]
    BY <1>4, <2>1, SetIs DEF Set, Take, PeerTypes
  <2> QED
    BY <1>4, <2>2 DEF Take, SenderTypes, WriterTypes, PeerTypes, writerVars, senderVars
<1>5. ASSUME GiveBack(p), port[p] # <<>> PROVE Types'
  <2>1. Tail(port[p]) \in Seq(Int) /\ con[p] + 1 \in Nat /\ NoSample \in Int
    BY <1>5 DEF PeerTypes, NoSample
  <2>2. port' \in [Peer -> Seq(Int)] /\ con' \in [Peer -> Nat] /\ taken' \in [Peer -> Int]
    BY <1>5, <2>1, SetIs DEF Set, GiveBack, PeerTypes
  <2> QED
    BY <1>5, <2>2 DEF GiveBack, SenderTypes, WriterTypes, PeerTypes, writerVars, senderVars
<1>6. ASSUME PeerEnds(p) PROVE Types'
  <2>1. peerEnded' \in [Peer -> BOOLEAN]
    BY <1>6, SetIs DEF Set, PeerEnds, PeerTypes
  <2> QED
    BY <1>6, <2>1 DEF PeerEnds, SenderTypes, WriterTypes, PeerTypes, writerVars, senderVars, peerVars
<1>7. Deliver(p) => delivering[p] \in Sample
  BY DEF Deliver, PeerTypes
<1>8. GiveBack(p) => port[p] # <<>>
  BY DEF GiveBack
<1> QED
  BY <1>1, <1>2, <1>3, <1>4, <1>5, <1>6, <1>7, <1>8

-----------------------------------------------------------------------------
(* What a step leaves alone.                                               *)

WriterSame == UNCHANGED <<written, writeBuffer, content, order>>

SameLink(v) ==
    /\ sendQ'[v] = sendQ[v] /\ sending'[v] = sending[v] /\ items'[v] = items[v]
    /\ failed'[v] = failed[v] /\ net'[v] = net[v] /\ back'[v] = back[v]
    /\ queue'[v] = queue[v] /\ used'[v] = used[v] /\ expected'[v] = expected[v]
    /\ dpc'[v] = dpc[v] /\ messagesSent'[v] = messagesSent[v]
    /\ readBuffer'[v] = readBuffer[v] /\ full'[v] = full[v]

SamePort(v) ==
    /\ expected'[v] = expected[v] /\ dpc'[v] = dpc[v] /\ delivering'[v] = delivering[v]
    /\ port'[v] = port[v] /\ taken'[v] = taken[v] /\ con'[v] = con[v]

LEMMA HeldSame == ASSUME WriterSame PROVE Held' = Held /\ \A n : Aged(n)' = Aged(n)
BY DEF WriterSame, Held, Aged

LEMMA LinkSame ==
    ASSUME NEW v \in Peer, SameLink(v), WriterSame, UNCHANGED <<wpc, wp>>, ended => ended',
           LinkInv(v)
    PROVE  LinkInv(v)'
<1> USE DEF SameLink, InHand, Reported
<1>1. PICK a, b, c \in Nat : SendInv(v, c) /\ NetInv(v, a, b, c) /\ UsedInv(v, c)
                             /\ RingInv(v, c) /\ BacklogInv(v, c)
  BY DEF LinkInv
<1>2. Held' = Held /\ (\A n : Aged(n)' = Aged(n)) /\ written' = written
  BY HeldSame DEF WriterSame
<1>3. SendInv(v, c)'
  BY <1>1, <1>2 DEF SendInv
<1>4. NetInv(v, a, b, c)'
  BY <1>1 DEF NetInv, Right
<1>5. UsedInv(v, c)'
  BY <1>1 DEF UsedInv
<1>6. RingInv(v, c)'
  BY <1>1, <1>2 DEF RingInv
<1>7. BacklogInv(v, c)'
  BY <1>1 DEF BacklogInv
<1> QED
  BY <1>3, <1>4, <1>5, <1>6, <1>7 DEF LinkInv

LEMMA PortSame == ASSUME NEW v \in Peer, SamePort(v), PortInv(v) PROVE PortInv(v)'
BY DEF SamePort, PortInv, Delivered

LEMMA WriterStays ==
    ASSUME WriterInv, WriterSame, UNCHANGED <<wpc, wp, messagesSent, nextBufferToRead>>
    PROVE  WriterInv'
BY HeldSame DEF WriterInv, WriterSame

\* What the invariant says of one peer, with the numbers of its samples.
LEMMA Numbers ==
    ASSUME Types, NEW p \in Peer, NEW a \in Nat, NEW b \in Nat, NEW c \in Nat,
           SendInv(p, c), NetInv(p, a, b, c), UsedInv(p, c)
    PROVE  /\ InHand(p) \in {0, 1} /\ c + InHand(p) <= messagesSent[p]
           /\ expected[p] <= a /\ a <= b /\ b <= c
           /\ Reported(p, c) \in Nat /\ Reported(p, c) <= expected[p]
           /\ items[p] \in Int /\ messagesSent[p] \in Nat /\ expected[p] \in Nat
<1> USE DEF Types, SenderTypes, PeerTypes, WriterTypes
<1>1. InHand(p) \in {0, 1}
  BY DEF InHand
<1>2. c + InHand(p) <= messagesSent[p]
  <2>1. sendQ[p] \in Seq(Outgoing)
    OBVIOUS
  <2> QED
    BY <2>1, NumberedRange DEF SendInv
<1>3. a <= b /\ b <= c
  <2>1. net[p] \in Seq(Carried)
    OBVIOUS
  <2> QED
    BY <2>1, NumberedRange DEF NetInv
<1>4. expected[p] <= a
  <2>1. queue[p] \in Seq(Sample)
    OBVIOUS
  <2> QED
    BY <2>1, NumberedRange DEF NetInv
<1>5. Reported(p, c) \in Nat /\ Reported(p, c) <= expected[p]
  <2>1. back[p] \in Seq(Nat)
    OBVIOUS
  <2>2. Reported(p, c) \in Nat /\ Reported(p, c) <= expected[p] - used[p]
    BY <2>1, SummedRange DEF UsedInv
  <2>3. used[p] \in Nat /\ expected[p] \in Nat
    OBVIOUS
  <2> DEFINE r == Reported(p, c)
  <2>4. r \in Nat /\ r <= expected[p] - used[p]
    BY <2>2
  <2> HIDE DEF r
  <2>5. \A e, u \in Nat : r <= e - u => r <= e
    BY <2>4
  <2>6. r <= expected[p]
    BY <2>3, <2>4, <2>5
  <2> QED
    BY <2>4, <2>6 DEF r
<1> QED
  BY <1>1, <1>2, <1>3, <1>4, <1>5

-----------------------------------------------------------------------------
(* The sender thread.                                                      *)

\* A message that is away takes its buffer with it, the oldest one that is unsent.
LEMMA MessageAwayRing ==
    ASSUME Types, NEW p \in Peer, NEW c \in Nat, c < messagesSent[p], messagesSent[p] <= written,
           RingInv(p, c), ~ failed[p], MessageAway(p, Aged(written - c)),
           WriterSame, UNCHANGED wpc
    PROVE  RingInv(p, c + 1)'
<1> USE RemoteAssumption DEF Types, WriterTypes, SenderTypes
<1> DEFINE x == Aged(written - c)
<1>1. written - c \in 1 .. RingSize /\ writeBuffer \in Buffer
  BY SMTT(30), RemoteAssumption DEF RingInv
<1>2. x \in Buffer /\ Down(x, RingSize) = Aged(written - (c + 1))
  BY <1>1, AgedRange, AgedDown
<1>3. x = readBuffer[p]
  BY DEF RingInv
<1> HIDE DEF x
<1>4. /\ full' = Set(full, p, Set(full[p], x, FALSE))
      /\ readBuffer' = Set(readBuffer, p, Down(x, RingSize))
  BY <1>3 DEF MessageAway, x
<1>5. readBuffer'[p] = Aged(written - (c + 1))
  BY <1>2, <1>4 DEF Set
<1>6. ASSUME NEW k \in Nat, c + 1 <= k, k < written, wpc # "done" PROVE full'[p][Aged(written - k)]
  <2>1. written - k \in 1 .. RingSize /\ written - k # written - c
    BY <1>1, <1>6
  <2>a. written - k \in 0 .. RingSize /\ written - c \in 0 .. RingSize
    BY <1>1, <2>1
  <2>b. Aged(written - k) \in Buffer
    BY <1>1, <2>a, AgedRange
  <2>c. Aged(written - k) # Aged(written - c)
    <3>1. Aged(written - k) = Aged(written - c) =>
             \/ written - k = written - c
             \/ written - k = 0 /\ written - c = RingSize
             \/ written - k = RingSize /\ written - c = 0
      BY <1>1, <2>a, AgedInjective
    <3> QED
      BY <1>1, <2>1, <3>1
  <2>2. Aged(written - k) \in Buffer /\ Aged(written - k) # x
    BY <2>b, <2>c DEF x
  <2>3. full[p][Aged(written - k)]
    BY <1>6 DEF RingInv
  <2>4. full'[p] = Set(full[p], x, FALSE)
    BY <1>4 DEF Set
  <2> QED
    BY <2>2, <2>3, <2>4 DEF Set
<1>7. written' = written /\ (\A n : Aged(n)' = Aged(n)) /\ wpc' = wpc
  BY HeldSame DEF WriterSame
<1>8. written - (c + 1) <= RingSize /\ (wpc = "fill" => written - (c + 1) < RingSize)
  BY <1>1 DEF RingInv
<1> QED
  BY <1>5, <1>6, <1>7, <1>8 DEF RingInv

LEMMA SenderPullInv ==
    ASSUME Types, NEW p \in Peer, SenderPull(p), LinkInv(p)
    PROVE  LinkInv(p)'
<1> USE DEF Types
<1>1. PICK a, b, c \in Nat : SendInv(p, c) /\ NetInv(p, a, b, c) /\ UsedInv(p, c)
                             /\ RingInv(p, c) /\ BacklogInv(p, c)
  BY DEF LinkInv
<1> DEFINE m == Head(sendQ[p])
           one == IF IsData(m) THEN 1 ELSE 0
<1>2. /\ sendQ[p] \in Seq(Outgoing) /\ sendQ[p] # <<>> /\ sending[p] = None /\ ~ failed[p]
      /\ UNCHANGED <<writerVars, unanswered, failed, peerVars, full, readBuffer, net, back, ended>>
      /\ sending' = Set(sending, p, m)
  BY DEF SenderPull, SenderTypes
<1>3. m \in Outgoing /\ Tail(sendQ[p]) \in Seq(Outgoing) /\ Query \in Outgoing
  BY <1>2 DEF Outgoing
<1>4. sending'[p] = m
  BY <1>2 DEF Set, SenderTypes
<1>5. InHand(p) = 0 /\ InHand(p)' = one
  BY <1>2, <1>4, Messages DEF InHand
<1>6. items'[p] = items[p] + one /\ one \in {0, 1}
  BY DEF SenderPull, SenderTypes, Set, IsData
<1>7. sendQ'[p] = Tail(sendQ[p]) \/ sendQ'[p] = Append(Tail(sendQ[p]), Query)
  BY DEF SenderPull, SenderTypes, Set
<1>8. /\ IsData(m) => <<m, c>> \in Held
      /\ Numbered(Tail(sendQ[p]), c + one, messagesSent[p], Held)
  <2>1. Numbered(sendQ[p], c, messagesSent[p], Held)
    BY <1>1, <1>5 DEF SendInv
  <2> QED
    BY <1>2, <2>1, NumberedTail
<1> HIDE DEF m, one
<1>9. Numbered(sendQ'[p], c + one, messagesSent[p], Held)
  <2>1. ~ IsData(Query)
    BY Messages
  <2>2. Numbered(Append(Tail(sendQ[p]), Query), c + one, messagesSent[p], Held)
    BY <1>3, <1>8, <2>1, NumberedAppend
  <2> QED
    BY <1>7, <1>8, <2>2
<1>10. WriterSame /\ Held' = Held /\ (\A n : Aged(n)' = Aged(n)) /\ UNCHANGED <<wpc, wp, messagesSent>>
  BY <1>2, HeldSame DEF writerVars, WriterSame
<1>11. SendInv(p, c)'
  BY <1>2, <1>4, <1>5, <1>8, <1>9, <1>10 DEF SendInv
<1>12. NetInv(p, a, b, c)'
  BY <1>1, <1>2 DEF NetInv, peerVars, Right
<1>13. Reported(p, c)' = Reported(p, c)
  BY <1>5, <1>6 DEF Reported, SenderTypes
<1>14. UsedInv(p, c)'
  BY <1>1, <1>2, <1>13 DEF UsedInv, peerVars
<1>15. RingInv(p, c)' /\ BacklogInv(p, c)'
  BY <1>1, <1>2, <1>10, <1>13 DEF RingInv, BacklogInv, WriterSame
<1> QED
  BY <1>11, <1>12, <1>14, <1>15 DEF LinkInv

\* The message that leaves the sender is sample c, and is gone from the ring.
LEMMA SenderAwayInv ==
    ASSUME Types, WriterInv, NEW p \in Peer, SenderSend(p) \/ SenderFails(p), LinkInv(p)
    PROVE  LinkInv(p)'
<1> USE DEF Types
<1>1. PICK a, b, c \in Nat : SendInv(p, c) /\ NetInv(p, a, b, c) /\ UsedInv(p, c)
                             /\ RingInv(p, c) /\ BacklogInv(p, c)
  BY DEF LinkInv
<1> DEFINE m == sending[p]
           one == IF IsData(m) THEN 1 ELSE 0
<1>2. /\ m # None /\ Release(p, m) /\ sending' = Set(sending, p, None)
      /\ UNCHANGED <<writerVars, sendQ, items, peerVars, back>>
      /\ ended => ended'
  <2>1. CASE SenderSend(p)
    BY <2>1 DEF SenderSend
  <2>2. CASE SenderFails(p)
    BY <2>2 DEF SenderFails
  <2> QED
    BY <2>1, <2>2
<1>3. m \in Outgoing /\ ~ failed[p]
  BY <1>1, <1>2 DEF SendInv, SenderTypes
<1>4. sending'[p] = None
  BY <1>2 DEF Set, SenderTypes
<1>5. InHand(p) = one /\ InHand(p)' = 0 /\ one \in {0, 1} /\ c + one \in Nat
  BY <1>4, Messages DEF InHand
<1>d. PICK d \in Nat : d = c + one
  BY <1>5
<1>6. WriterSame /\ Held' = Held /\ (\A n : Aged(n)' = Aged(n)) /\ UNCHANGED <<wpc, wp, messagesSent>>
  BY <1>2, HeldSame DEF writerVars, WriterSame
<1> HIDE DEF one
<1>7. SendInv(p, d)'
  <2>1. Numbered(sendQ[p], d, messagesSent[p], Held)
    BY <1>1, <1>5, <1>d DEF SendInv
  <2>2. (d + InHand(p))' = d
    BY <1>5, <1>d
  <2> QED
    BY <1>2, <1>4, <1>6, <2>1, <2>2, Messages DEF SendInv
<1>8. Reported(p, d)' = Reported(p, c)
  BY <1>2, <1>5, <1>d DEF Reported, SenderTypes
<1>9. UsedInv(p, d)'
  BY <1>1, <1>2, <1>8 DEF UsedInv, peerVars
<1>10. RingInv(p, d)' /\ BacklogInv(p, d)'
  <2>1. BacklogInv(p, d)'
    BY <1>1, <1>2, <1>6, <1>8 DEF BacklogInv
  <2>2. CASE IsData(m)
    <3>1. /\ m.buffer = Aged(written - c) /\ one = 1
      BY <1>1, <2>2 DEF SendInv, Held, one
    <3>2. c < messagesSent[p] /\ messagesSent[p] <= written
      <4>1. c + one <= messagesSent[p]
        BY <1>1, <1>5, Numbers
      <4> QED
        BY <3>1, <4>1 DEF WriterInv, WriterTypes
    <3>3. MessageAway(p, Aged(written - c))
      BY <1>2, <2>2, <3>1 DEF Release, IsData
    <3> QED
      BY <1>1, <1>3, <1>6, <1>d, <2>1, <3>1, <3>2, <3>3, MessageAwayRing
  <2>3. CASE ~ IsData(m)
    <3>1. UNCHANGED <<full, readBuffer>> /\ one = 0
      BY <1>2, <2>3 DEF Release, IsData, one
    <3> QED
      BY <1>1, <1>3, <1>6, <1>d, <2>1, <3>1 DEF RingInv, WriterSame
  <2> QED
    BY <2>2, <2>3
<1>11. \E b2 \in Nat : NetInv(p, a, b2, d)'
  <2>1. CASE SenderFails(p)
    <3>1. net' = net /\ failed'[p]
      BY <2>1 DEF SenderFails, Set, SenderTypes
    <3>2. NetInv(p, a, b, d)'
      BY <1>1, <1>2, <1>5, <1>d, <3>1 DEF NetInv, peerVars, Right
    <3> QED
      BY <3>2
  <2>2. CASE SenderSend(p)
    <3> DEFINE new == IF m = Query THEN m
                      ELSE [tag |-> "PUSHDATA", order |-> order[m.buffer],
                            sample |-> content[m.buffer]]
    <3>1. net'[p] = Append(net[p], new) /\ net[p] \in Seq(Carried) /\ failed' = failed
      BY <2>2 DEF SenderSend, Set, SenderTypes
    <3>2. b = c /\ Numbered(net[p], a, c, Right)
      BY <1>1, <1>3 DEF NetInv
    <3>3. CASE IsData(m)
      <4>1. <<m, c>> \in Held /\ m # Query
        BY <1>1, <3>3, Messages DEF SendInv
      <4>2. new = [tag |-> "PUSHDATA", order |-> c, sample |-> c]
        BY <4>1 DEF Held
      <4> HIDE DEF new
      <4>3. new \in Carried /\ IsData(new) /\ <<new, c>> \in Right
        BY <4>2 DEF Carried, Sample, IsData, Right
      <4>4. Numbered(Append(net[p], new), a, c + 1, Right)
        BY <3>1, <3>2, <4>3, NumberedAppend
      <4>5. NetInv(p, a, c + 1, d)'
        BY <1>1, <1>2, <1>d, <3>1, <3>2, <3>3, <4>4 DEF NetInv, peerVars, Right, one
      <4> QED
        BY <4>5
    <3>4. CASE ~ IsData(m)
      <4>1. new = Query
        BY <1>3, <3>4, Messages
      <4> HIDE DEF new
      <4>2. new \in Carried /\ ~ IsData(new)
        BY <4>1, Messages DEF Carried
      <4>3. Numbered(Append(net[p], new), a, c, Right)
        BY <3>1, <3>2, <4>2, NumberedAppend
      <4>4. NetInv(p, a, c, d)'
        BY <1>1, <1>2, <1>d, <3>1, <3>2, <3>4, <4>3 DEF NetInv, peerVars, Right, one
      <4> QED
        BY <4>4
    <3> QED
      BY <3>3, <3>4
  <2> QED
    BY <2>1, <2>2
<1> QED
  BY <1>7, <1>9, <1>10, <1>11 DEF LinkInv


-----------------------------------------------------------------------------
(* The receiver threads.                                                   *)

LEMMA ReceivePushDataInv ==
    ASSUME Types, NEW p \in Peer, ReceivePushData(p), LinkInv(p)
    PROVE  LinkInv(p)'
<1> USE DEF Types
<1>1. PICK a, b, c \in Nat : SendInv(p, c) /\ NetInv(p, a, b, c) /\ UsedInv(p, c)
                             /\ RingInv(p, c) /\ BacklogInv(p, c)
  BY DEF LinkInv
<1> DEFINE m == Head(net[p])
<1>2. /\ net[p] \in Seq(Carried) /\ net[p] # <<>> /\ IsData(m) /\ m \in Carried
      /\ queue[p] \in Seq(Sample)
      /\ UNCHANGED <<writerVars, senderVars, used, expected, dpc, full, readBuffer, back, ended>>
  BY DEF ReceivePushData, SenderTypes, PeerTypes, IsData
<1>3. m \in Sample
  BY <1>2, Messages
<1>4. net'[p] = Tail(net[p])
  BY DEF ReceivePushData, SenderTypes, Set
<1>5. /\ dpc[p] = "done" => queue'[p] = queue[p]
      /\ dpc[p] # "done" => queue'[p] = Append(queue[p], m)
  BY DEF ReceivePushData, PeerTypes, Set
<1>6. <<m, a>> \in Right /\ Numbered(Tail(net[p]), a + 1, b, Right)
  <2>1. Numbered(net[p], a, b, Right)
    BY <1>1 DEF NetInv
  <2> QED
    BY <1>2, <2>1, NumberedTail
<1> HIDE DEF m
<1>7. NetInv(p, a + 1, b, c)'
  <2>1. ASSUME dpc[p] # "done" PROVE Numbered(queue'[p], expected[p], a + 1, Right)
    <3>1. Numbered(queue[p], expected[p], a, Right)
      BY <1>1, <2>1 DEF NetInv
    <3> QED
      BY <1>2, <1>3, <1>5, <1>6, <2>1, <3>1, NumberedAppend
  <2>2. ASSUME dpc[p] = "done" PROVE queue'[p] = <<>> /\ expected[p] <= a + 1
    BY <1>1, <1>5, <2>2 DEF NetInv, PeerTypes
  <2>3. Right' = Right
    BY DEF Right
  <2> QED
    BY <1>1, <1>2, <1>4, <1>6, <2>1, <2>2, <2>3 DEF NetInv, senderVars
<1>8. WriterSame /\ Held' = Held /\ (\A n : Aged(n)' = Aged(n)) /\ UNCHANGED <<wpc, wp>>
  BY <1>2, HeldSame DEF writerVars, WriterSame
<1>9. InHand(p)' = InHand(p) /\ Reported(p, c)' = Reported(p, c)
  BY <1>2 DEF InHand, Reported, senderVars
<1>10. SendInv(p, c)'
  BY <1>1, <1>2, <1>8, <1>9 DEF SendInv, senderVars, writerVars
<1>11. UsedInv(p, c)' /\ BacklogInv(p, c)' /\ RingInv(p, c)'
  BY <1>1, <1>2, <1>8, <1>9 DEF UsedInv, BacklogInv, RingInv, senderVars, writerVars
<1>12. a + 1 \in Nat
  OBVIOUS
<1> QED
  BY <1>7, <1>10, <1>11, <1>12 DEF LinkInv

\* What is used is reported once.
LEMMA ReceiveQueryInv ==
    ASSUME Types, NEW p \in Peer, ReceiveQuery(p), LinkInv(p)
    PROVE  LinkInv(p)'
<1> USE DEF Types
<1>1. PICK a, b, c \in Nat : SendInv(p, c) /\ NetInv(p, a, b, c) /\ UsedInv(p, c)
                             /\ RingInv(p, c) /\ BacklogInv(p, c)
  BY DEF LinkInv
<1>2. /\ net[p] \in Seq(Carried) /\ net[p] # <<>> /\ ~ IsData(Head(net[p]))
      /\ back[p] \in Seq(Nat) /\ used[p] \in Nat /\ expected[p] \in Nat
      /\ UNCHANGED <<writerVars, sendQ, sending, items, failed, queue, expected, dpc, full,
                     readBuffer, ended>>
  BY DEF ReceiveQuery, SenderTypes, PeerTypes, IsData
<1>3. net'[p] = Tail(net[p]) /\ used'[p] = 0
  BY DEF ReceiveQuery, SenderTypes, PeerTypes, Set
<1>4. /\ used[p] > 0 => back'[p] = Append(back[p], used[p])
      /\ ~ used[p] > 0 => back'[p] = back[p]
  BY DEF ReceiveQuery, SenderTypes, PeerTypes, Set
<1>5. Numbered(Tail(net[p]), a, b, Right)
  <2>1. Numbered(net[p], a, b, Right)
    BY <1>1 DEF NetInv
  <2> QED
    BY <1>2, <2>1, NumberedTail
<1>6. NetInv(p, a, b, c)'
  <2>1. Right' = Right
    BY DEF Right
  <2> QED
    BY <1>1, <1>2, <1>3, <1>5, <2>1 DEF NetInv
<1>7. WriterSame /\ Held' = Held /\ (\A n : Aged(n)' = Aged(n)) /\ UNCHANGED <<wpc, wp>>
  BY <1>2, HeldSame DEF writerVars, WriterSame
<1>8. InHand(p)' = InHand(p) /\ Reported(p, c)' = Reported(p, c)
  BY <1>2 DEF InHand, Reported
<1>9. SendInv(p, c)'
  BY <1>1, <1>2, <1>7, <1>8 DEF SendInv, writerVars
<1>10. BacklogInv(p, c)' /\ RingInv(p, c)'
  BY <1>1, <1>2, <1>7, <1>8 DEF BacklogInv, RingInv, writerVars
<1>11. UsedInv(p, c)'
  <2>1. Summed(back[p], Reported(p, c), expected[p] - used[p])
    BY <1>1 DEF UsedInv
  <2>2. Summed(back'[p], Reported(p, c), expected[p])
    <3>1. CASE used[p] > 0
      <4>1. Summed(Append(back[p], used[p]), Reported(p, c), expected[p] - used[p] + used[p])
        BY <1>2, <2>1, SummedAppend
      <4>2. expected[p] - used[p] + used[p] = expected[p]
        BY <1>2
      <4> QED
        BY <1>4, <3>1, <4>1, <4>2
    <3>2. CASE ~ used[p] > 0
      <4>1. expected[p] - used[p] = expected[p]
        BY <1>2, <3>2
      <4> QED
        BY <1>4, <2>1, <3>2, <4>1
    <3> QED
      BY <3>1, <3>2
  <2>3. expected'[p] - used'[p] = expected[p]
    BY <1>2, <1>3
  <2> QED
    BY <1>8, <2>2, <2>3 DEF UsedInv
<1> QED
  BY <1>6, <1>9, <1>10, <1>11 DEF LinkInv

LEMMA ReceiveUsedDataInv ==
    ASSUME Types, NEW p \in Peer, ReceiveUsedData(p), LinkInv(p)
    PROVE  LinkInv(p)'
<1> USE DEF Types
<1>1. PICK a, b, c \in Nat : SendInv(p, c) /\ NetInv(p, a, b, c) /\ UsedInv(p, c)
                             /\ RingInv(p, c) /\ BacklogInv(p, c)
  BY DEF LinkInv
<1>2. /\ back[p] \in Seq(Nat) /\ back[p] # <<>>
      /\ UNCHANGED <<writerVars, sendQ, sending, failed, peerVars, full, readBuffer, net, ended>>
  BY DEF ReceiveUsedData, SenderTypes
<1> DEFINE u == Head(back[p])
           r == Reported(p, c)
<1>3. u \in Nat
  BY <1>2
<1>4. back'[p] = Tail(back[p]) /\ items'[p] = items[p] - u
  BY DEF ReceiveUsedData, SenderTypes, Set
<1> HIDE DEF u
<1>5. InHand(p)' = InHand(p) /\ InHand(p) \in {0, 1}
  BY <1>2 DEF InHand
<1>6. Reported(p, c)' = r + u /\ r \in Int
  BY <1>3, <1>4, <1>5 DEF Reported, SenderTypes
<1> HIDE DEF r
<1>7. WriterSame /\ Held' = Held /\ (\A n : Aged(n)' = Aged(n)) /\ UNCHANGED <<wpc, wp>>
  BY <1>2, HeldSame DEF writerVars, WriterSame
<1>8. SendInv(p, c)'
  BY <1>1, <1>2, <1>5, <1>7 DEF SendInv, writerVars
<1>9. NetInv(p, a, b, c)' /\ RingInv(p, c)'
  <2>1. Right' = Right
    BY DEF Right
  <2> QED
    BY <1>1, <1>2, <1>7, <2>1 DEF NetInv, RingInv, peerVars, writerVars
<1>10. UsedInv(p, c)'
  <2>1. Summed(back[p], r, expected[p] - used[p])
    BY <1>1 DEF UsedInv, r
  <2>2. Summed(Tail(back[p]), r + u, expected[p] - used[p])
    BY <1>2, <2>1, SummedTail DEF u
  <2> QED
    BY <1>2, <1>4, <1>6, <2>2 DEF UsedInv, peerVars
<1>11. BacklogInv(p, c)'
  <2>1. messagesSent[p] \in Nat /\ Backlog \in Int /\ UNCHANGED <<wpc, wp, ended, messagesSent>>
    BY <1>2, RemoteAssumption DEF WriterTypes, writerVars, Backlog
  <2>2. messagesSent[p] - (r + u) <= messagesSent[p] - r
    BY <1>3, <1>6, <2>1
  <2>3. wpc = "fill" \/ ~ ended => messagesSent[p] - (r + u) <= Backlog
    BY <1>1, <1>3, <1>6, <2>1, <2>2 DEF BacklogInv, r
  <2>4. wpc = "queue" /\ p = wp /\ ~ ended => messagesSent[p] - (r + u) < Backlog
    BY <1>1, <1>3, <1>6, <2>1, <2>2 DEF BacklogInv, r
  <2> QED
    BY <1>6, <2>1, <2>3, <2>4 DEF BacklogInv
<1> QED
  BY <1>8, <1>9, <1>10, <1>11 DEF LinkInv

-----------------------------------------------------------------------------
(* The peer voice.                                                         *)

\* A deliverer that works never meets a message out of order.
LEMMA PullInOrder ==
    ASSUME Types, NEW p \in Peer, NEW a \in Nat, NEW b \in Nat, NEW c \in Nat,
           NetInv(p, a, b, c), dpc[p] # "done", queue[p] # <<>>
    PROVE  /\ Head(queue[p]) \in Sample
           /\ Head(queue[p]).order = expected[p] /\ Head(queue[p]).sample = expected[p]
           /\ Numbered(Tail(queue[p]), expected[p] + 1, a, Right)
<1>1. queue[p] \in Seq(Sample) /\ Numbered(queue[p], expected[p], a, Right)
  BY DEF NetInv, Types, PeerTypes
<1>2. Head(queue[p]) \in Sample
  BY <1>1
<1>3. IsData(Head(queue[p]))
  BY <1>2, Messages
<1>4. <<Head(queue[p]), expected[p]>> \in Right /\ Numbered(Tail(queue[p]), expected[p] + 1, a, Right)
  BY <1>1, <1>3, NumberedTail
<1> QED
  BY <1>2, <1>4 DEF Right

LEMMA DelivererPullInv ==
    ASSUME Types, NEW p \in Peer, DelivererPull(p), LinkInv(p), PortInv(p)
    PROVE  LinkInv(p)' /\ PortInv(p)'
<1> USE DEF Types
<1>1. PICK a, b, c \in Nat : SendInv(p, c) /\ NetInv(p, a, b, c) /\ UsedInv(p, c)
                             /\ RingInv(p, c) /\ BacklogInv(p, c)
  BY DEF LinkInv
<1> DEFINE m == Head(queue[p])
<1>2. /\ dpc[p] = "pull" /\ queue[p] # <<>>
      /\ UNCHANGED <<writerVars, senderVars, port, taken, con, full, readBuffer, net, back, ended>>
  BY DEF DelivererPull
<1>3. /\ m \in Sample /\ m.order = expected[p] /\ m.sample = expected[p]
      /\ Numbered(Tail(queue[p]), expected[p] + 1, a, Right)
  BY <1>1, <1>2, PullInOrder
<1>4. /\ delivering'[p] = m /\ used'[p] = used[p] + 1 /\ dpc'[p] = "deliver"
      /\ expected'[p] = expected[p] + 1 /\ queue'[p] = Tail(queue[p])
  BY <1>3 DEF DelivererPull, PeerTypes, Set
<1> HIDE DEF m
<1>5. NetInv(p, a, b, c)'
  <2>1. Right' = Right
    BY DEF Right
  <2> QED
    BY <1>1, <1>2, <1>3, <1>4, <2>1 DEF NetInv, senderVars
<1>6. WriterSame /\ Held' = Held /\ (\A n : Aged(n)' = Aged(n)) /\ UNCHANGED <<wpc, wp>>
  BY <1>2, HeldSame DEF writerVars, WriterSame
<1>7. InHand(p)' = InHand(p) /\ Reported(p, c)' = Reported(p, c)
  BY <1>2 DEF InHand, Reported, senderVars
<1>8. SendInv(p, c)' /\ BacklogInv(p, c)' /\ RingInv(p, c)'
  BY <1>1, <1>2, <1>6, <1>7 DEF SendInv, BacklogInv, RingInv, senderVars, writerVars
<1>9. expected[p] \in Nat /\ used[p] \in Nat
  BY DEF PeerTypes
<1>10. UsedInv(p, c)'
  <2>1. expected'[p] - used'[p] = expected[p] - used[p]
    BY <1>4, <1>9
  <2> QED
    BY <1>1, <1>2, <1>7, <2>1 DEF UsedInv
<1>11. PortInv(p)'
  <2>1. Delivered(p)' = Delivered(p) /\ Delivered(p) = expected[p]
    BY <1>2 DEF Delivered, PortInv
  <2>2. delivering'[p] # None
    BY <1>3, <1>4, Messages
  <2> QED
    BY <1>2, <1>3, <1>4, <1>9, <2>1, <2>2 DEF PortInv
<1> QED
  BY <1>5, <1>8, <1>10, <1>11 DEF LinkInv

\* The link when the deliverer only moves on, or ends and discards its queue.
LEMMA DelivererMoves ==
    ASSUME Types, NEW p \in Peer, LinkInv(p), Deliver(p) \/ GiveUp(p)
    PROVE  LinkInv(p)'
<1> USE DEF Types
<1>1. PICK a, b, c \in Nat : SendInv(p, c) /\ NetInv(p, a, b, c) /\ UsedInv(p, c)
                             /\ RingInv(p, c) /\ BacklogInv(p, c)
  BY DEF LinkInv
<1>2. /\ UNCHANGED <<writerVars, senderVars, used, expected, full, readBuffer, net, back, ended>>
      /\ dpc[p] = "deliver"
  BY DEF Deliver, GiveUp
<1>3. WriterSame /\ Held' = Held /\ (\A n : Aged(n)' = Aged(n)) /\ UNCHANGED <<wpc, wp>>
  BY <1>2, HeldSame DEF writerVars, WriterSame
<1>4. InHand(p)' = InHand(p) /\ Reported(p, c)' = Reported(p, c)
  BY <1>2 DEF InHand, Reported, senderVars
<1>5. SendInv(p, c)' /\ BacklogInv(p, c)' /\ RingInv(p, c)' /\ UsedInv(p, c)'
  BY <1>1, <1>2, <1>3, <1>4 DEF SendInv, BacklogInv, RingInv, UsedInv, senderVars, writerVars
<1>6. NetInv(p, a, b, c)'
  <2>1. Right' = Right
    BY DEF Right
  <2>2. CASE Deliver(p)
    <3>1. dpc'[p] = "pull" /\ queue' = queue
      BY <2>2 DEF Deliver, PeerTypes, Set
    <3> QED
      BY <1>1, <1>2, <2>1, <3>1 DEF NetInv, senderVars
  <2>3. CASE GiveUp(p)
    <3>1. dpc'[p] = "done" /\ queue'[p] = <<>>
      BY <2>3 DEF GiveUp, PeerTypes, Set
    <3>2. expected[p] <= a
      BY <1>1, Numbers
    <3> QED
      BY <1>1, <1>2, <2>1, <3>1, <3>2 DEF NetInv, senderVars
  <2> QED
    BY <2>2, <2>3
<1> QED
  BY <1>5, <1>6 DEF LinkInv

LEMMA PortSizeRange == ASSUME NEW p \in Peer PROVE Lag[p] \in Nat /\ PortSize(p) \in Nat
BY RemoteAssumption DEF PortSize

LEMMA DeliverInv ==
    ASSUME Types, NEW p \in Peer, Deliver(p), PortInv(p)
    PROVE  PortInv(p)'
<1> USE DEF Types
<1>1. /\ dpc[p] = "deliver" /\ Len(port[p]) < PortSize(p)
      /\ UNCHANGED <<expected, taken, con>>
  BY DEF Deliver
<1> DEFINE s == delivering[p].sample
<1>2. delivering[p] \in Sample /\ s \in Int
  BY <1>1 DEF PortInv, PeerTypes, Sample
<1>3. port'[p] = Append(port[p], s) /\ dpc'[p] = "pull"
  BY DEF Deliver, PeerTypes, Set
<1>4. /\ port[p] \in Seq(Int) /\ con[p] \in Nat /\ expected[p] \in Nat
      /\ Lag[p] \in Nat /\ PortSize(p) \in Nat
  BY PortSizeRange DEF PeerTypes
<1>5. s = Delivered(p) /\ Delivered(p) = expected[p] - 1
  BY <1>1 DEF PortInv
<1> HIDE DEF s
<1>6. /\ Len(port[p]) \in Nat /\ Len(port'[p]) = Len(port[p]) + 1
      /\ port'[p][Len(port[p]) + 1] = s
      /\ \A i \in 1 .. Len(port[p]) : port'[p][i] = port[p][i]
  BY <1>2, <1>3, <1>4
<1>7. Delivered(p)' = expected[p]
  <2>1. Delivered(p)' = Len(port[p]) + 1 + con[p] - Lag[p]
    BY <1>1, <1>6 DEF Delivered
  <2>2. Delivered(p) = Len(port[p]) + con[p] - Lag[p]
    BY DEF Delivered
  <2>3. Len(port[p]) + con[p] - Lag[p] = expected[p] - 1
    BY <1>5, <2>2
  <2> DEFINE l == Len(port[p])
             k == con[p]
             g == Lag[p]
             e == expected[p]
  <2>4. l \in Nat /\ k \in Nat /\ g \in Nat /\ e \in Nat /\ l + k - g = e - 1
    BY <1>4, <1>6, <2>3
  <2> HIDE DEF l, k, g, e
  <2>5. l + 1 + k - g = e
    BY <2>4
  <2> QED
    BY <2>1, <2>5 DEF l, k, g, e
<1>8. ASSUME NEW i \in 1 .. Len(port'[p]) PROVE port'[p][i] = Due(con[p] + i - 1 - Lag[p])
  <2>1. CASE i \in 1 .. Len(port[p])
    BY <1>6, <2>1 DEF PortInv
  <2>2. CASE i = Len(port[p]) + 1
    <3>1. con[p] + i - 1 - Lag[p] = s
      BY <1>4, <1>5, <1>6, <2>2 DEF Delivered
    <3>2. Due(s) = s
      <4>1. s >= -1
        BY <1>4, <1>5
      <4> QED
        BY <1>2, <4>1 DEF Due, Initial
    <3> QED
      BY <1>6, <2>2, <3>1, <3>2
  <2> QED
    BY <1>6, <2>1, <2>2
<1>9. taken[p] # NoSample => port'[p] # <<>> /\ taken[p] = Head(port'[p])
  <2>1. port[p] # <<>> => port'[p] # <<>> /\ Head(port'[p]) = Head(port[p])
    BY SMTT(30), <1>2, <1>3, <1>4
  <2> QED
    BY <2>1 DEF PortInv
<1>10. Len(port'[p]) <= PortSize(p)
  BY <1>1, <1>4, <1>6
<1>11. Delivered(p)' <= expected[p] /\ expected[p] <= Delivered(p)' + 1
  BY <1>4, <1>7
<1> QED
  BY <1>1, <1>3, <1>7, <1>8, <1>9, <1>10, <1>11 DEF PortInv

LEMMA GiveUpInv ==
    ASSUME Types, NEW p \in Peer, GiveUp(p), PortInv(p)
    PROVE  PortInv(p)'
<1>1. dpc'[p] = "done" /\ UNCHANGED <<expected, port, taken, con>>
  BY DEF GiveUp, Types, PeerTypes, Set
<1> QED
  BY <1>1 DEF PortInv, Delivered

LEMMA TakeInv ==
    ASSUME Types, NEW p \in Peer, Take(p), PortInv(p)
    PROVE  PortInv(p)'
<1>1. /\ port[p] # <<>> /\ taken'[p] = Head(port[p])
      /\ UNCHANGED <<delivering, expected, dpc, port, con>>
  BY DEF Take, Types, PeerTypes, Set
<1> QED
  BY <1>1 DEF PortInv, Delivered

LEMMA GiveBackInv ==
    ASSUME Types, NEW p \in Peer, GiveBack(p), PortInv(p)
    PROVE  PortInv(p)'
<1> USE DEF Types
<1>1. taken[p] # NoSample /\ UNCHANGED <<delivering, expected, dpc>>
  BY DEF GiveBack
<1>2. /\ port[p] \in Seq(Int) /\ port[p] # <<>> /\ con[p] \in Nat
      /\ Lag[p] \in Nat /\ PortSize(p) \in Nat
  BY <1>1, PortSizeRange DEF PortInv, PeerTypes
<1>3. port'[p] = Tail(port[p]) /\ con'[p] = con[p] + 1 /\ taken'[p] = NoSample
  BY DEF GiveBack, PeerTypes, Set
<1>4. /\ Len(port[p]) \in Nat \ {0} /\ Len(port'[p]) = Len(port[p]) - 1
      /\ \A i \in 1 .. Len(port[p]) - 1 : port'[p][i] = port[p][i + 1]
  BY <1>2, <1>3
<1>5. Delivered(p)' = Delivered(p)
  <2>1. Delivered(p)' = (Len(port[p]) - 1) + (con[p] + 1) - Lag[p]
    BY <1>3, <1>4 DEF Delivered
  <2>2. Delivered(p) = Len(port[p]) + con[p] - Lag[p]
    BY DEF Delivered
  <2>3. Len(port[p]) \in Nat
    BY <1>4
  <2> DEFINE l == Len(port[p])
             k == con[p]
             g == Lag[p]
  <2>4. l \in Nat /\ k \in Nat /\ g \in Nat
    BY <1>2, <2>3
  <2> HIDE DEF l, k, g
  <2>5. (l - 1) + (k + 1) - g = l + k - g
    BY <2>4
  <2> QED
    BY <2>1, <2>2, <2>5 DEF l, k, g
<1>6. ASSUME NEW i \in 1 .. Len(port'[p]) PROVE port'[p][i] = Due(con'[p] + i - 1 - Lag[p])
  <2>1. i + 1 \in 1 .. Len(port[p]) /\ port'[p][i] = port[p][i + 1]
    BY <1>4
  <2>2. con'[p] + i - 1 - Lag[p] = con[p] + (i + 1) - 1 - Lag[p]
    <3> DEFINE k == con[p]
               g == Lag[p]
    <3>1. k \in Nat /\ g \in Nat /\ i \in Int
      BY <1>2, <1>4
    <3> HIDE DEF k, g
    <3>2. (k + 1) + i - 1 - g = k + (i + 1) - 1 - g
      BY <3>1
    <3> QED
      BY <1>3, <3>2 DEF k, g
  <2> QED
    BY <2>1, <2>2 DEF PortInv
<1>7. Len(port'[p]) <= PortSize(p)
  BY <1>2, <1>4 DEF PortInv
<1> QED
  BY <1>1, <1>3, <1>5, <1>6, <1>7 DEF PortInv

-----------------------------------------------------------------------------
(* The writer's worker.                                                    *)

LEMMA LinkKept ==
    ASSUME NEW v \in Peer, SameLink(v), WriterSame, NEW a \in Nat, NEW b \in Nat, NEW c \in Nat,
           SendInv(v, c), NetInv(v, a, b, c), UsedInv(v, c)
    PROVE  /\ SendInv(v, c)' /\ NetInv(v, a, b, c)' /\ UsedInv(v, c)'
           /\ Reported(v, c)' = Reported(v, c)
<1> USE DEF SameLink
<1>1. Held' = Held /\ InHand(v)' = InHand(v) /\ Reported(v, c)' = Reported(v, c)
  BY HeldSame DEF InHand, Reported
<1>2. Right' = Right
  BY DEF Right
<1> QED
  BY <1>1, <1>2 DEF SendInv, NetInv, UsedInv

\* What the writer publishes and has not sent is in the ring and at most one ring of it.
LEMMA Unsents ==
    ASSUME Types, WriterInv, NEW v \in Peer, NEW a \in Nat, NEW b \in Nat, NEW c \in Nat,
           SendInv(v, c), NetInv(v, a, b, c), UsedInv(v, c), RingInv(v, c)
    PROVE  /\ c \in 0 .. messagesSent[v] /\ messagesSent[v] <= written
           /\ written - c \in 0 .. RingSize
           /\ InHand(v) \in {0, 1} /\ c + InHand(v) <= messagesSent[v]
           /\ writeBuffer \in Buffer /\ messagesSent[v] \in Nat /\ Reported(v, c) \in Nat
<1>1. c + InHand(v) <= messagesSent[v] /\ InHand(v) \in {0, 1} /\ Reported(v, c) \in Nat
  BY Numbers
<1>2. messagesSent[v] \in Nat /\ written \in Nat /\ writeBuffer \in Buffer
  BY DEF Types, WriterTypes
<1>3. messagesSent[v] <= written
  BY <1>2 DEF WriterInv
<1>4. written - c <= RingSize
  BY DEF RingInv
<1> QED
  BY <1>1, <1>2, <1>3, <1>4, RemoteAssumption

\* The lock is granted only when the oldest buffer of the ring is no longer awaited.
LEMMA WriteLockInv ==
    ASSUME Types, WriterInv, \A v \in Peer : LinkInv(v), WriteLock
    PROVE  WriterInv' /\ \A v \in Peer : LinkInv(v)'
<1>1. /\ wpc = "lock" /\ wpc' = "fill" /\ ~ ended /\ \A v \in Peer : ~ full[v][writeBuffer]
      /\ UNCHANGED <<wp, written, writeBuffer, content, order, messagesSent, nextBufferToRead,
                     senderVars, peerVars, full, readBuffer, net, back, ended>>
  BY DEF WriteLock
<1>2. WriterSame /\ \A n : Aged(n)' = Aged(n)
  BY <1>1, HeldSame DEF WriterSame
<1>3. WriterInv'
  BY <1>1, <1>2 DEF WriterInv
<1>4. ASSUME NEW v \in Peer PROVE LinkInv(v)'
  <2>1. PICK a, b, c \in Nat : SendInv(v, c) /\ NetInv(v, a, b, c) /\ UsedInv(v, c)
                               /\ RingInv(v, c) /\ BacklogInv(v, c)
    BY DEF LinkInv
  <2>2. SameLink(v)
    BY <1>1 DEF SameLink, senderVars, peerVars
  <2>3. SendInv(v, c)' /\ NetInv(v, a, b, c)' /\ UsedInv(v, c)' /\ Reported(v, c)' = Reported(v, c)
    BY <1>2, <2>1, <2>2, LinkKept
  <2>4. /\ written - c \in 0 .. RingSize /\ writeBuffer \in Buffer /\ c \in Nat /\ written \in Nat
    BY <2>1, Unsents DEF Types, WriterTypes
  <2>5. written - c # RingSize
    <3>1. SUFFICES ASSUME written - c = RingSize PROVE FALSE
      OBVIOUS
    <3>2. c < written
      BY <2>4, <3>1, RemoteAssumption
    <3>3. full[v][Aged(written - c)]
      BY <1>1, <2>1, <2>4, <3>2 DEF RingInv
    <3> QED
      BY <1>1, <2>4, <3>1, <3>3, AgedEnds
  <2>6. RingInv(v, c)'
    <3>1. written - c < RingSize
      BY <2>4, <2>5, RemoteAssumption
    <3> QED
      BY <1>1, <1>2, <2>1, <3>1 DEF RingInv
  <2>7. BacklogInv(v, c)'
    BY <1>1, <2>1, <2>3 DEF BacklogInv
  <2> QED
    BY <2>3, <2>6, <2>7 DEF LinkInv
<1> QED
  BY <1>3, <1>4

LEMMA PublishInv ==
    ASSUME Types, WriterInv, \A v \in Peer : LinkInv(v), Publish
    PROVE  WriterInv' /\ \A v \in Peer : LinkInv(v)'
<1> USE DEF Types, WriterTypes
<1>1. /\ wpc = "fill" /\ wpc' = "fire" /\ wp' = 1
      /\ writeBuffer' = Down(writeBuffer, RingSize) /\ written' = written + 1
      /\ UNCHANGED <<order, messagesSent, nextBufferToRead, senderVars, peerVars,
                     readBuffer, net, back, ended>>
  BY DEF Publish
<1>2. content'[writeBuffer] = written /\ \A u \in Buffer : u # writeBuffer => content'[u] = content[u]
  BY DEF Publish, Set
<1>3. \A v \in Peer : /\ full'[v][writeBuffer]
                      /\ \A u \in Buffer : full[v][u] => full'[v][u]
  BY DEF Publish, Set, SenderTypes
<1>4. writeBuffer \in Buffer /\ written \in Nat /\ Aged(0) = writeBuffer
  BY AgedEnds
<1>5. \A n \in 0 .. RingSize - 1 : At(writeBuffer', n + 1) = Aged(n)
  BY <1>1, <1>4, AgedPublish
<1>6. At(writeBuffer', 1) = writeBuffer
  <2>1. 0 \in 0 .. RingSize - 1 /\ 0 + 1 = 1
    BY RemoteAssumption
  <2> QED
    BY <1>4, <1>5, <2>1
<1>7. WriterInv'
  <2>1. ASSUME NEW v \in Peer
        PROVE  /\ messagesSent[v] = written' - 1 /\ ~ v < 1
               /\ nextBufferToRead[v] = At(writeBuffer', written' - messagesSent[v])
    <3>1. messagesSent[v] = written /\ nextBufferToRead[v] = Aged(written - messagesSent[v])
      BY <1>1 DEF WriterInv
    <3>2. written - messagesSent[v] = 0 /\ written' - messagesSent[v] = 1
      BY <1>1, <1>4, <3>1
    <3> QED
      BY <1>1, <1>4, <1>6, <3>1, <3>2 DEF Peer
  <2>2. content'[At(writeBuffer', 1)] = written' - 1
    BY <1>1, <1>2, <1>4, <1>6
  <2> QED
    BY <1>1, <2>1, <2>2 DEF WriterInv, Aged
<1>8. ASSUME NEW v \in Peer PROVE LinkInv(v)'
  <2>1. PICK a, b, c \in Nat : SendInv(v, c) /\ NetInv(v, a, b, c) /\ UsedInv(v, c)
                               /\ RingInv(v, c) /\ BacklogInv(v, c)
    BY DEF LinkInv
  <2>2. /\ written - c \in 0 .. RingSize - 1 /\ messagesSent[v] = written
        /\ InHand(v) \in {0, 1} /\ c + InHand(v) <= messagesSent[v]
    <3>1. /\ written - c \in 0 .. RingSize /\ written - c < RingSize
          /\ InHand(v) \in {0, 1} /\ c + InHand(v) <= messagesSent[v]
      BY <1>1, <2>1, Unsents DEF RingInv
    <3> QED
      BY <1>1, <1>4, <3>1, RemoteAssumption DEF WriterInv
  <2>3. InHand(v)' = InHand(v) /\ Reported(v, c)' = Reported(v, c)
    BY <1>1 DEF InHand, Reported, senderVars
  <2>4. ASSUME NEW k \in Nat, c <= k, k < written
        PROVE  /\ At(writeBuffer', written' - k) = Aged(written - k)
               /\ Aged(written - k) \in Buffer /\ Aged(written - k) # writeBuffer
    <3>1. written - k \in 1 .. RingSize - 1 /\ written - k \in 0 .. RingSize
      BY <1>4, <2>2, <2>4, RemoteAssumption
    <3>2. written' - k = (written - k) + 1 /\ written - k \in 0 .. RingSize - 1
      BY <1>1, <1>4, <3>1, RemoteAssumption
    <3>3. Aged(written - k) \in Buffer
      BY <1>4, <3>1, AgedRange
    <3>4. Aged(written - k) # writeBuffer
      BY <1>4, <3>1, RemoteAssumption DEF Aged, At, Buffer
    <3> QED
      BY <1>5, <3>2, <3>3, <3>4
  <2>5. ASSUME NEW m, NEW k \in Nat, c <= k, k < written, <<m, k>> \in Held
        PROVE  <<m, k>> \in Held'
    <3>1. /\ m \in Outgoing /\ IsData(m) /\ m.buffer = Aged(written - k)
          /\ content[m.buffer] = k /\ order[m.buffer] = k
      BY <2>5 DEF Held
    <3>2. m.buffer = At(writeBuffer', written' - k) /\ content'[m.buffer] = k /\ order'[m.buffer] = k
      BY <1>1, <1>2, <2>4, <2>5, <3>1
    <3> QED
      BY <3>1, <3>2 DEF Held, Aged
  <2>6. SendInv(v, c)'
    <3>1. sendQ[v] \in Seq(Outgoing)
      BY DEF SenderTypes
    <3>2. Numbered(sendQ[v], c + InHand(v), messagesSent[v], Held)
      BY <2>1 DEF SendInv
    <3>3. \A m \in Outgoing : \A k \in Nat :
             c + InHand(v) <= k /\ k < messagesSent[v] /\ <<m, k>> \in Held => <<m, k>> \in Held'
      BY <2>2, <2>5
    <3>4. Numbered(sendQ[v], c + InHand(v), messagesSent[v], Held')
      BY <3>1, <3>2, <3>3, NumberedMap
    <3>5. IsData(sending[v]) => <<sending[v], c>> \in Held'
      <4>1. IsData(sending[v]) => c < written
        BY <2>2 DEF InHand
      <4> QED
        BY <2>1, <2>5, <4>1 DEF SendInv
    <3> QED
      BY <1>1, <2>1, <2>3, <3>4, <3>5 DEF SendInv, senderVars
  <2>7. NetInv(v, a, b, c)' /\ UsedInv(v, c)' /\ BacklogInv(v, c)'
    <3>1. Right' = Right
      BY DEF Right
    <3> QED
      BY <1>1, <2>1, <2>3, <3>1 DEF NetInv, UsedInv, BacklogInv, senderVars, peerVars
  <2>8. RingInv(v, c)'
    <3>1. written' - c <= RingSize /\ (written - c) + 1 = written' - c
      BY <1>1, <1>4, <2>2, RemoteAssumption
    <3>2. readBuffer'[v] = At(writeBuffer', written' - c)
      BY <1>1, <1>5, <2>1, <2>2, <3>1 DEF RingInv
    <3>3. ASSUME NEW k \in Nat, c <= k, k < written' PROVE full'[v][At(writeBuffer', written' - k)]
      <4>1. CASE k = written
        BY <1>1, <1>3, <1>4, <1>6, <4>1
      <4>2. CASE k # written
        <5>1. k < written
          BY <1>1, <1>4, <3>3, <4>2
        <5>2. full[v][Aged(written - k)]
          BY <1>1, <2>1, <3>3, <5>1 DEF RingInv
        <5> QED
          BY <1>3, <2>4, <3>3, <5>1, <5>2
      <4> QED
        BY <4>1, <4>2
    <3> QED
      BY <1>1, <3>1, <3>2, <3>3 DEF RingInv, Aged
  <2> QED
    BY <2>6, <2>7, <2>8 DEF LinkInv
<1> QED
  BY <1>7, <1>8

\* The header that is put in front of a sample is that of every message which names its buffer.
LEMMA FireInv ==
    ASSUME Types, WriterInv, \A v \in Peer : LinkInv(v), Fire
    PROVE  WriterInv' /\ \A v \in Peer : LinkInv(v)'
<1> USE DEF Types, WriterTypes
<1>1. /\ wpc = "fire" /\ wp \in Peer
      /\ UNCHANGED <<written, writeBuffer, content, messagesSent, nextBufferToRead,
                     senderVars, peerVars, full, readBuffer, net, back, ended>>
  BY DEF Fire
<1> DEFINE x == Aged(1)
<1>2. /\ messagesSent[wp] = written - 1 /\ nextBufferToRead[wp] = x /\ written \in Nat \ {0}
      /\ x \in Buffer
  <2>1. messagesSent[wp] = written - 1 /\ nextBufferToRead[wp] = Aged(written - messagesSent[wp])
    BY <1>1 DEF WriterInv, Peer
  <2>2. messagesSent[wp] \in Nat /\ written \in Nat
    BY <1>1
  <2>3. written - messagesSent[wp] = 1 /\ written # 0
    BY <2>1, <2>2
  <2>4. 1 \in 0 .. RingSize /\ writeBuffer \in Buffer
    BY RemoteAssumption
  <2>5. x \in Buffer
    BY <2>4, AgedRange
  <2> QED
    BY <2>1, <2>2, <2>3, <2>5
<1>3. full[wp][x]
  <2>1. PICK a, b, c \in Nat : SendInv(wp, c) /\ NetInv(wp, a, b, c) /\ UsedInv(wp, c)
                               /\ RingInv(wp, c) /\ BacklogInv(wp, c)
    BY <1>1 DEF LinkInv
  <2>2. c <= written - 1
    <3>1. c \in 0 .. messagesSent[wp]
      BY <1>1, <2>1, Unsents
    <3> QED
      BY <1>2, <3>1
  <2>3. written - 1 \in Nat /\ written - 1 < written /\ written - (written - 1) = 1
    BY <1>2
  <2> QED
    BY <1>1, <2>1, <2>2, <2>3 DEF RingInv
<1> HIDE DEF x
<1>4. wpc' = "push" /\ wp' = wp /\ order' = Set(order, x, written - 1)
  BY <1>2, <1>3 DEF Fire
<1>5. order'[x] = written - 1 /\ \A u \in Buffer : u # x => order'[u] = order[u]
  BY <1>2, <1>4 DEF Set
<1>6. (\A n : Aged(n)' = Aged(n)) /\ x' = x
  BY <1>1 DEF Aged, x
<1>7. WriterInv'
  <2>1. content[x] = written - 1
    BY <1>1 DEF WriterInv, x
  <2>2. order'[Aged(1)'] = written - 1 /\ content[Aged(1)'] = written - 1
    BY <1>5, <1>6, <2>1 DEF x
  <2> QED
    BY <1>1, <1>4, <1>6, <2>2 DEF WriterInv
<1>8. ASSUME NEW v \in Peer PROVE LinkInv(v)'
  <2>1. PICK a, b, c \in Nat : SendInv(v, c) /\ NetInv(v, a, b, c) /\ UsedInv(v, c)
                               /\ RingInv(v, c) /\ BacklogInv(v, c)
    BY DEF LinkInv
  <2>2. /\ written - c \in 0 .. RingSize /\ messagesSent[v] <= written /\ messagesSent[v] \in Nat
        /\ InHand(v) \in {0, 1} /\ c + InHand(v) <= messagesSent[v]
    BY <2>1, Unsents
  <2>3. InHand(v)' = InHand(v) /\ Reported(v, c)' = Reported(v, c)
    BY <1>1 DEF InHand, Reported, senderVars
  <2>4. ASSUME NEW m, NEW k \in Nat, c <= k, k < written, <<m, k>> \in Held
        PROVE  <<m, k>> \in Held'
    <3>1. written - k \in 1 .. RingSize /\ written - k \in 0 .. RingSize /\ 1 \in 0 .. RingSize
      BY <1>2, <2>2, <2>4, RemoteAssumption
    <3>2. /\ m \in Outgoing /\ IsData(m) /\ m.buffer = Aged(written - k)
          /\ content[m.buffer] = k /\ order[m.buffer] = k /\ m.buffer \in Buffer
      <4>1. /\ m \in Outgoing /\ IsData(m) /\ m.buffer = Aged(written - k)
            /\ content[m.buffer] = k /\ order[m.buffer] = k
        BY <2>4 DEF Held
      <4> QED
        BY <4>1, Messages
    <3>3. m.buffer = x => k = written - 1
      <4>1. Aged(written - k) = Aged(1) => written - k = 1
        <5>1. writeBuffer \in Buffer
          OBVIOUS
        <5>2. Aged(written - k) = Aged(1) =>
                 \/ written - k = 1
                 \/ written - k = 0 /\ 1 = RingSize
                 \/ written - k = RingSize /\ 1 = 0
          BY <3>1, <5>1, AgedInjective
        <5> QED
          BY <3>1, <5>2
      <4> QED
        BY <1>2, <3>2, <4>1 DEF x
    <3>4. order'[m.buffer] = k
      BY <1>5, <3>2, <3>3
    <3>5. m.buffer = At(writeBuffer', written' - k) /\ content'[m.buffer] = k
      BY <1>1, <3>2 DEF Aged
    <3> QED
      BY <3>2, <3>4, <3>5 DEF Held, Aged
  <2>5. SendInv(v, c)'
    <3>1. sendQ[v] \in Seq(Outgoing)
      BY DEF SenderTypes
    <3>2. Numbered(sendQ[v], c + InHand(v), messagesSent[v], Held)
      BY <2>1 DEF SendInv
    <3>3. \A m \in Outgoing : \A k \in Nat :
             c + InHand(v) <= k /\ k < messagesSent[v] /\ <<m, k>> \in Held => <<m, k>> \in Held'
      <4>1. \A k \in Nat : c + InHand(v) <= k /\ k < messagesSent[v] => c <= k /\ k < written
        BY <2>2
      <4> QED
        BY <2>4, <4>1
    <3>4. Numbered(sendQ[v], c + InHand(v), messagesSent[v], Held')
      BY <3>1, <3>2, <3>3, NumberedMap
    <3>5. IsData(sending[v]) => <<sending[v], c>> \in Held'
      <4>1. IsData(sending[v]) => c < written
        BY <2>2 DEF InHand
      <4> QED
        BY <2>1, <2>4, <4>1 DEF SendInv
    <3> QED
      BY <1>1, <2>1, <2>3, <3>4, <3>5 DEF SendInv, senderVars
  <2>6. NetInv(v, a, b, c)' /\ UsedInv(v, c)' /\ BacklogInv(v, c)' /\ RingInv(v, c)'
    <3>1. Right' = Right
      BY DEF Right
    <3> QED
      BY <1>1, <1>4, <1>6, <2>1, <2>3, <3>1
         DEF NetInv, UsedInv, BacklogInv, RingInv, senderVars, peerVars
  <2> QED
    BY <2>5, <2>6 DEF LinkInv
<1> QED
  BY <1>7, <1>8

LEMMA HoldUpInv ==
    ASSUME Types, WriterInv, \A v \in Peer : LinkInv(v), HoldUp
    PROVE  WriterInv' /\ \A v \in Peer : LinkInv(v)'
<1>1. /\ wpc = "push" /\ wp \in Peer
      /\ UNCHANGED <<writerVars, sending, items, unanswered, failed, peerVars, full,
                     readBuffer, net, back, ended>>
  BY DEF HoldUp, Types, WriterTypes
<1>2. /\ sendQ'[wp] = Append(sendQ[wp], Query) /\ sendQ[wp] \in Seq(Outgoing)
      /\ \A v \in Peer : v # wp => sendQ'[v] = sendQ[v]
  BY <1>1 DEF HoldUp, Types, SenderTypes, Set
<1>3. WriterSame /\ Held' = Held /\ UNCHANGED <<wpc, wp, messagesSent, nextBufferToRead>>
  BY <1>1, HeldSame DEF WriterSame, writerVars
<1>4. WriterInv'
  BY <1>3, WriterStays
<1>5. ASSUME NEW v \in Peer PROVE LinkInv(v)'
  <2>1. CASE v # wp
    <3>1. SameLink(v)
      BY <1>1, <1>2, <2>1 DEF SameLink, writerVars, peerVars
    <3> QED
      BY <1>1, <1>3, <3>1, LinkSame
  <2>2. CASE v = wp
    <3>1. PICK a, b, c \in Nat : SendInv(v, c) /\ NetInv(v, a, b, c) /\ UsedInv(v, c)
                                 /\ RingInv(v, c) /\ BacklogInv(v, c)
      BY <1>1 DEF LinkInv
    <3>2. InHand(v)' = InHand(v) /\ Reported(v, c)' = Reported(v, c)
      BY <1>1, <1>3 DEF InHand, Reported
    <3>3. SendInv(v, c)'
      <4>1. Numbered(sendQ[v], c + InHand(v), messagesSent[v], Held)
        BY <3>1 DEF SendInv
      <4>2. Query \in Outgoing /\ ~ IsData(Query)
        BY Messages DEF Outgoing
      <4>3. Numbered(Append(sendQ[v], Query), c + InHand(v), messagesSent[v], Held)
        BY <1>2, <2>2, <4>1, <4>2, NumberedAppend
      <4> QED
        BY <1>1, <1>2, <2>2, <1>3, <3>1, <3>2, <4>3 DEF SendInv
    <3>4. NetInv(v, a, b, c)' /\ UsedInv(v, c)' /\ BacklogInv(v, c)' /\ RingInv(v, c)'
      <4>1. Right' = Right
        BY DEF Right
      <4> QED
        BY <1>1, <1>3, <3>1, <3>2, <4>1, HeldSame
           DEF NetInv, UsedInv, BacklogInv, RingInv, peerVars, WriterSame
    <3> QED
      BY <3>3, <3>4 DEF LinkInv
  <2> QED
    BY <2>1, <2>2
<1> QED
  BY <1>4, <1>5

\* A writer that goes ahead before the run phase has ended has left room for one sample.
LEMMA GoAheadInv ==
    ASSUME Types, WriterInv, \A v \in Peer : LinkInv(v), GoAhead
    PROVE  WriterInv' /\ \A v \in Peer : LinkInv(v)'
<1>1. /\ wpc = "push" /\ wpc' = "queue" /\ wp \in Peer
      /\ ~ ended => items[wp] <= PushDataMaxItems
      /\ UNCHANGED <<wp, written, writeBuffer, content, order, messagesSent, nextBufferToRead,
                     senderVars, peerVars, full, readBuffer, net, back, ended>>
  BY RemoteAssumption DEF GoAhead, Types, WriterTypes, SenderTypes, Congested
<1>2. WriterSame /\ \A n : Aged(n)' = Aged(n)
  BY <1>1, HeldSame DEF WriterSame
<1>3. WriterInv'
  BY <1>1, <1>2 DEF WriterInv
<1>4. ASSUME NEW v \in Peer PROVE LinkInv(v)'
  <2>1. PICK a, b, c \in Nat : SendInv(v, c) /\ NetInv(v, a, b, c) /\ UsedInv(v, c)
                               /\ RingInv(v, c) /\ BacklogInv(v, c)
    BY DEF LinkInv
  <2>2. SameLink(v)
    BY <1>1 DEF SameLink, senderVars, peerVars
  <2>3. SendInv(v, c)' /\ NetInv(v, a, b, c)' /\ UsedInv(v, c)' /\ Reported(v, c)' = Reported(v, c)
    BY <1>2, <2>1, <2>2, LinkKept
  <2>4. RingInv(v, c)'
    BY <1>1, <1>2, <2>1 DEF RingInv
  <2>5. ASSUME v = wp, ~ ended PROVE messagesSent[v] - Reported(v, c) < Backlog
    <3>1. messagesSent[v] = written - 1
      BY <1>1, <2>5 DEF WriterInv, Types, WriterTypes, Peer
    <3> DEFINE i == items[v]
               h == InHand(v)
               s == messagesSent[v]
    <3>2. /\ i \in Int /\ i <= PushDataMaxItems /\ h \in {0, 1} /\ s \in Nat /\ s = written - 1
          /\ written \in Nat /\ written - c <= RingSize /\ RingSize \in Nat
          /\ PushDataMaxItems \in Nat
      BY <1>1, <2>1, <2>5, <3>1, Unsents, RemoteAssumption
         DEF Types, SenderTypes, WriterTypes, RingInv
    <3> HIDE DEF i, h, s
    <3>3. s - (c + h - i) < PushDataMaxItems + RingSize
      BY <3>2
    <3> QED
      BY <3>3 DEF i, h, s, Reported, Backlog
  <2>6. BacklogInv(v, c)'
    BY <1>1, <2>1, <2>3, <2>5 DEF BacklogInv
  <2> QED
    BY <2>3, <2>4, <2>6 DEF LinkInv
<1> QED
  BY <1>3, <1>4

LEMMA QueueInv ==
    ASSUME Types, WriterInv, \A v \in Peer : LinkInv(v), Queue
    PROVE  WriterInv' /\ \A v \in Peer : LinkInv(v)'
<1> USE DEF Types, WriterTypes
<1> DEFINE s == messagesSent[wp]
           x == nextBufferToRead[wp]
<1>1. /\ wpc = "queue" /\ wp \in Peer
      /\ UNCHANGED <<written, writeBuffer, content, order, sending, items, unanswered,
                     failed, peerVars, full, readBuffer, net, back, ended>>
  BY DEF Queue
<1>2. \/ wp < Peers /\ wp' = wp + 1 /\ wpc' = "fire"
      \/ ~ wp < Peers /\ wp' = 1 /\ wpc' = "lock"
  BY DEF Queue, FireNext
<1>3. /\ s = written - 1 /\ s \in Nat /\ x = Aged(1) /\ x \in Buffer
      /\ content[x] = s /\ order[x] = s
  <2>1. s = written - 1 /\ x = Aged(written - s)
    BY <1>1 DEF WriterInv, Peer
  <2>2. s \in Nat /\ written \in Nat /\ x \in Buffer
    BY <1>1
  <2>3. written - s = 1
    BY <2>1, <2>2
  <2>4. x = Aged(1)
    BY <2>1, <2>3
  <2> HIDE DEF x, s
  <2> QED
    BY <1>1, <2>1, <2>2, <2>4 DEF WriterInv
<1>4. /\ sendQ'[wp] = Append(sendQ[wp], Data(x)) /\ sendQ[wp] \in Seq(Outgoing)
      /\ nextBufferToRead'[wp] = Down(x, RingSize) /\ messagesSent'[wp] = s + 1
      /\ \A v \in Peer : v # wp => /\ sendQ'[v] = sendQ[v] /\ messagesSent'[v] = messagesSent[v]
                                   /\ nextBufferToRead'[v] = nextBufferToRead[v]
  BY <1>1 DEF Queue, SenderTypes, Set
<1> HIDE DEF s, x
<1>5. WriterSame /\ Held' = Held /\ \A n : Aged(n)' = Aged(n)
  BY <1>1, HeldSame DEF WriterSame
<1>6. WriterInv'
  <2>1. ASSUME NEW v \in Peer
        PROVE  /\ wpc' = "lock" => messagesSent'[v] = written
               /\ wpc' = "fire" => messagesSent'[v] = written - (IF v < wp' THEN 0 ELSE 1)
               /\ messagesSent'[v] \in {written - 1, written}
               /\ nextBufferToRead'[v] = Aged(written - messagesSent'[v])
    <3>1. v \in 1 .. Peers /\ wp \in 1 .. Peers /\ Peers \in Nat /\ written \in Nat
      BY <1>1, RemoteAssumption DEF Peer
    <3>2. CASE v = wp
      <4>1. messagesSent'[v] = written /\ written - messagesSent'[v] = 0
        BY <1>3, <1>4, <3>1, <3>2
      <4>2. Down(x, RingSize) = Aged(0)
        <5>1. 1 \in 1 .. RingSize /\ 1 - 1 = 0 /\ writeBuffer \in Buffer
          BY RemoteAssumption
        <5>2. Down(Aged(1), RingSize) = Aged(1 - 1)
          BY <5>1, AgedDown
        <5> QED
          BY <1>3, <5>1, <5>2
      <4>3. wpc' = "fire" => v < wp'
        BY <1>2, <3>1, <3>2
      <4> QED
        BY <1>2, <1>4, <3>1, <3>2, <4>1, <4>2, <4>3
    <3>3. CASE v # wp
      <4>1. /\ messagesSent[v] = written - (IF v < wp THEN 0 ELSE 1)
            /\ nextBufferToRead[v] = Aged(written - messagesSent[v])
            /\ messagesSent[v] \in {written - 1, written}
        BY <1>1 DEF WriterInv
      <4>2. CASE wp < Peers
        <5>1. v < wp' <=> v < wp
          BY <1>2, <3>1, <3>3, <4>2
        <5> QED
          BY <1>2, <1>4, <3>3, <4>1, <4>2, <5>1
      <4>3. CASE ~ wp < Peers
        <5>1. v < wp
          BY <3>1, <3>3, <4>3
        <5> QED
          BY <1>2, <1>4, <3>1, <3>3, <4>1, <4>3, <5>1
      <4> QED
        BY <4>2, <4>3
    <3> QED
      BY <3>2, <3>3
  <2>2. content[Aged(1)] = written - 1 /\ order[Aged(1)] = written - 1
    BY <1>3
  <2> QED
    BY <1>1, <1>2, <1>5, <2>1, <2>2 DEF WriterInv
<1>7. ASSUME NEW v \in Peer PROVE LinkInv(v)'
  <2>1. PICK a, b, c \in Nat : SendInv(v, c) /\ NetInv(v, a, b, c) /\ UsedInv(v, c)
                               /\ RingInv(v, c) /\ BacklogInv(v, c)
    BY DEF LinkInv
  <2>2. InHand(v)' = InHand(v) /\ Reported(v, c)' = Reported(v, c)
    BY <1>1 DEF InHand, Reported
  <2>3. NetInv(v, a, b, c)' /\ UsedInv(v, c)' /\ RingInv(v, c)'
    <3>1. Right' = Right
      BY DEF Right
    <3>2. wpc # "done" /\ wpc' # "done" /\ wpc' # "fill" /\ wpc # "fill"
      BY <1>1, <1>2
    <3> QED
      BY <1>1, <1>5, <2>1, <2>2, <3>1, <3>2 DEF NetInv, UsedInv, RingInv, peerVars
  <2>4. SendInv(v, c)'
    <3>1. Numbered(sendQ[v], c + InHand(v), messagesSent[v], Held)
      BY <2>1 DEF SendInv
    <3>2. CASE v # wp
      BY <1>1, <1>4, <1>5, <2>1, <2>2, <3>1, <3>2 DEF SendInv
    <3>3. CASE v = wp
      <4>1. Data(x) \in Outgoing /\ IsData(Data(x)) /\ Data(x).buffer = x
        BY <1>3, Messages
      <4>2. written - s = 1
        BY <1>1, <1>3
      <4>3. <<Data(x), s>> \in Held
        BY <1>3, <4>1, <4>2 DEF Held
      <4>4. Numbered(sendQ[wp], c + InHand(wp), s, Held)
        BY <3>1, <3>3 DEF s
      <4>5. Numbered(Append(sendQ[wp], Data(x)), c + InHand(wp), s + 1, Held)
        BY <1>4, <4>1, <4>3, <4>4, NumberedAppend
      <4>6. /\ Numbered(sendQ'[v], c + InHand(v), messagesSent'[v], Held)
            /\ sending' = sending /\ failed' = failed
        BY <1>1, <1>4, <3>3, <4>5
      <4> QED
        BY <1>5, <2>1, <2>2, <4>6 DEF SendInv
    <3> QED
      BY <3>2, <3>3
  <2>5. BacklogInv(v, c)'
    <3>1. CASE v # wp
      BY <1>1, <1>2, <1>4, <2>1, <2>2, <3>1 DEF BacklogInv
    <3>2. CASE v = wp
      <4>1. /\ Reported(v, c) \in Nat /\ Backlog \in Int
            /\ messagesSent[v] = s /\ messagesSent'[v] = s + 1
        <5>1. Reported(v, c) \in Nat
          BY <2>1, Numbers
        <5>2. Backlog \in Int
          BY RemoteAssumption DEF Backlog
        <5> QED
          BY <1>4, <3>2, <5>1, <5>2 DEF s
      <4>2. ~ ended => s - Reported(v, c) < Backlog
        BY <1>1, <2>1, <3>2, <4>1 DEF BacklogInv
      <4> DEFINE r == Reported(v, c)
      <4>3. r \in Nat /\ (~ ended => s - r < Backlog)
        BY <4>1, <4>2
      <4> HIDE DEF r
      <4>4. ~ ended => (s + 1) - r <= Backlog
        BY <1>3, <4>1, <4>3
      <4> QED
        BY <1>1, <1>2, <2>2, <4>1, <4>4 DEF BacklogInv, r
    <3> QED
      BY <3>1, <3>2
  <2> QED
    BY <2>3, <2>4, <2>5 DEF LinkInv
<1> QED
  BY <1>6, <1>7

\* Push on a dropped channel releases the buffer only when nothing else waits to be sent.
LEMMA PushDroppedInv ==
    ASSUME Types, WriterInv, \A v \in Peer : LinkInv(v), PushDropped
    PROVE  WriterInv' /\ \A v \in Peer : LinkInv(v)'
<1> USE DEF Types, WriterTypes
<1>1. /\ wpc = "push" /\ wpc' = "done" /\ ended' = TRUE /\ wp \in Peer /\ failed[wp]
      /\ MessageAway(wp, nextBufferToRead[wp])
      /\ UNCHANGED <<wp, written, writeBuffer, content, order, messagesSent, nextBufferToRead,
                     senderVars, peerVars, net, back>>
  BY DEF PushDropped
<1>2. WriterSame /\ Held' = Held /\ \A n : Aged(n)' = Aged(n)
  BY <1>1, HeldSame DEF WriterSame
<1>3. WriterInv'
  BY <1>1, <1>2 DEF WriterInv
<1>4. ASSUME NEW v \in Peer PROVE LinkInv(v)'
  <2>1. PICK a, b, c \in Nat : SendInv(v, c) /\ NetInv(v, a, b, c) /\ UsedInv(v, c)
                               /\ RingInv(v, c) /\ BacklogInv(v, c)
    BY DEF LinkInv
  <2>2. InHand(v)' = InHand(v) /\ Reported(v, c)' = Reported(v, c) /\ Right' = Right
    BY <1>1 DEF InHand, Reported, senderVars, Right
  <2>3. SendInv(v, c)' /\ NetInv(v, a, b, c)' /\ UsedInv(v, c)'
    BY <1>1, <1>2, <2>1, <2>2 DEF SendInv, NetInv, UsedInv, senderVars, peerVars
  <2>4. BacklogInv(v, c)'
    BY <1>1 DEF BacklogInv
  <2>5. readBuffer'[v] = Aged(written - c) \/ (failed[v] /\ c = messagesSent[v])
    <3>1. readBuffer[v] = Aged(written - c)
      BY <1>1, <2>1 DEF RingInv
    <3>2. CASE readBuffer'[v] = readBuffer[v]
      BY <3>1, <3>2
    <3>3. CASE readBuffer'[v] # readBuffer[v]
      <4>1. v = wp /\ readBuffer[wp] = nextBufferToRead[wp]
        BY <1>1, <3>3 DEF MessageAway, SenderTypes, Set
      <4>2. messagesSent[wp] = written - 1 /\ nextBufferToRead[wp] = Aged(written - messagesSent[wp])
        BY <1>1 DEF WriterInv, Peer
      <4>3. /\ messagesSent[wp] \in Nat /\ written \in Nat /\ c \in 0 .. messagesSent[wp]
            /\ written - c \in 0 .. RingSize /\ writeBuffer \in Buffer
        BY <1>1, <2>1, <4>1, Unsents
      <4>4. written - messagesSent[wp] = 1 /\ written - c # 0 /\ 1 \in 0 .. RingSize /\ 1 # RingSize
        BY <4>2, <4>3, RemoteAssumption
      <4>5. Aged(written - c) = Aged(1)
        BY <3>1, <4>1, <4>2, <4>4
      <4>6. \/ written - c = 1
            \/ written - c = 0 /\ 1 = RingSize
            \/ written - c = RingSize /\ 1 = 0
        BY <4>3, <4>4, <4>5, AgedInjective
      <4>7. c = messagesSent[wp]
        BY <4>2, <4>3, <4>4, <4>6
      <4> QED
        BY <1>1, <4>1, <4>7
    <3> QED
      BY <3>2, <3>3
  <2>6. RingInv(v, c)'
    BY <1>1, <1>2, <2>1, <2>5 DEF RingInv, senderVars
  <2> QED
    BY <2>3, <2>4, <2>6 DEF LinkInv
<1> QED
  BY <1>3, <1>4

LEMMA LeaveInv ==
    ASSUME Types, WriterInv, \A v \in Peer : LinkInv(v), Leave
    PROVE  WriterInv' /\ \A v \in Peer : LinkInv(v)'
<1>1. /\ wpc = "lock" /\ wpc' = "done"
      /\ UNCHANGED <<wp, written, writeBuffer, content, order, messagesSent, nextBufferToRead,
                     senderVars, peerVars, full, readBuffer, net, back, ended>>
  BY DEF Leave
<1>2. WriterSame /\ \A n : Aged(n)' = Aged(n)
  BY <1>1, HeldSame DEF WriterSame
<1>3. WriterInv'
  BY <1>1, <1>2 DEF WriterInv
<1>4. ASSUME NEW v \in Peer PROVE LinkInv(v)'
  <2>1. PICK a, b, c \in Nat : SendInv(v, c) /\ NetInv(v, a, b, c) /\ UsedInv(v, c)
                               /\ RingInv(v, c) /\ BacklogInv(v, c)
    BY DEF LinkInv
  <2>2. SameLink(v)
    BY <1>1 DEF SameLink, senderVars, peerVars
  <2>3. SendInv(v, c)' /\ NetInv(v, a, b, c)' /\ UsedInv(v, c)' /\ Reported(v, c)' = Reported(v, c)
    BY <1>2, <2>1, <2>2, LinkKept
  <2>4. RingInv(v, c)' /\ BacklogInv(v, c)'
    BY <1>1, <1>2, <2>1, <2>3 DEF RingInv, BacklogInv
  <2> QED
    BY <2>3, <2>4 DEF LinkInv
<1> QED
  BY <1>3, <1>4

-----------------------------------------------------------------------------
(* The invariant.                                                          *)

PeerStep(p) == \/ Sender(p) \/ SenderFails(p) \/ Receiver(p) \/ ReceiveUsedData(p)
               \/ Deliverer(p) \/ Reader(p) \/ PeerEnds(p)

\* The threads that serve one peer leave the writer and the other peers alone.
LEMMA OthersSame ==
    ASSUME Types, NEW p \in Peer, PeerStep(p)
    PROVE  /\ WriterSame /\ UNCHANGED <<wpc, wp, messagesSent, nextBufferToRead>>
           /\ ended => ended'
           /\ \A v \in Peer : v # p => SameLink(v) /\ SamePort(v)
<1> USE DEF Types, SameLink, SamePort, WriterSame, writerVars, senderVars, peerVars
<1>1. ASSUME NEW v \in Peer, v # p, NEW m, Release(p, m)
      PROVE  full'[v] = full[v] /\ readBuffer'[v] = readBuffer[v]
  BY <1>1 DEF Release, MessageAway, Set, SenderTypes
<1>2. CASE SenderPull(p)
  BY <1>2 DEF SenderPull, Set, SenderTypes
<1>3. CASE SenderSend(p)
  BY SMTT(30), <1>1, <1>3 DEF SenderSend, Set, SenderTypes
<1>4. CASE SenderFails(p)
  BY SMTT(30), <1>1, <1>4 DEF SenderFails, Set, SenderTypes
<1>5. CASE ReceivePushData(p)
  BY SMTT(30), <1>5 DEF ReceivePushData, Set, SenderTypes, PeerTypes
<1>6. CASE ReceiveQuery(p)
  BY SMTT(30), <1>6 DEF ReceiveQuery, Set, SenderTypes, PeerTypes
<1>7. CASE ReceiveUsedData(p)
  BY SMTT(30), <1>7 DEF ReceiveUsedData, Set, SenderTypes
<1>8. CASE DelivererPull(p)
  BY SMTT(30), <1>8 DEF DelivererPull, Set, PeerTypes
<1>9. CASE Deliver(p) \/ GiveUp(p)
  BY SMTT(30), <1>9 DEF Deliver, GiveUp, Set, PeerTypes
<1>10. CASE Take(p) \/ GiveBack(p)
  BY SMTT(30), <1>10 DEF Take, GiveBack, Set, PeerTypes
<1>11. CASE PeerEnds(p)
  BY <1>11 DEF PeerEnds
<1> QED
  BY <1>2, <1>3, <1>4, <1>5, <1>6, <1>7, <1>8, <1>9, <1>10, <1>11
     DEF PeerStep, Sender, Receiver, Deliverer, Reader

\* What the threads that serve a peer do to it.
LEMMA OwnPeer ==
    ASSUME Types, WriterInv, NEW p \in Peer, LinkInv(p), PortInv(p), PeerStep(p)
    PROVE  Types' /\ LinkInv(p)' /\ PortInv(p)'
<1> USE DEF writerVars, senderVars, peerVars
<1>0. WriterSame /\ UNCHANGED <<wpc, wp, messagesSent, nextBufferToRead>> /\ (ended => ended')
  BY OthersSame
<1>1. CASE SenderPull(p) \/ SenderSend(p) \/ SenderFails(p)
  <2>1. SamePort(p)
    BY <1>1 DEF SenderPull, SenderSend, SenderFails, SamePort
  <2> QED
    BY <1>1, <2>1, SenderStepTypes, SenderPullInv, SenderAwayInv, PortSame
<1>2. CASE ReceivePushData(p) \/ ReceiveQuery(p) \/ ReceiveUsedData(p)
  <2>1. SamePort(p)
    BY <1>2 DEF ReceivePushData, ReceiveQuery, ReceiveUsedData, SamePort
  <2> QED
    BY <1>2, <2>1, ReceiverStepTypes, ReceivePushDataInv, ReceiveQueryInv, ReceiveUsedDataInv,
       PortSame
<1>3. /\ dpc[p] = "deliver" => delivering[p] # None
      /\ taken[p] # NoSample => port[p] # <<>>
  BY DEF PortInv
<1>4. CASE DelivererPull(p)
  BY <1>3, <1>4, PeerStepTypes, DelivererPullInv
<1>5. CASE Deliver(p) \/ GiveUp(p)
  BY <1>3, <1>5, PeerStepTypes, DelivererMoves, DeliverInv, GiveUpInv
<1>6. CASE Take(p) \/ GiveBack(p)
  <2>1. SameLink(p)
    BY <1>6 DEF Take, GiveBack, SameLink
  <2> QED
    BY <1>0, <1>3, <1>6, <2>1, PeerStepTypes, LinkSame, TakeInv, GiveBackInv
<1>7. CASE PeerEnds(p)
  <2>1. SameLink(p) /\ SamePort(p)
    BY <1>7 DEF PeerEnds, SameLink, SamePort
  <2> QED
    BY <1>0, <1>3, <1>7, <2>1, PeerStepTypes, LinkSame, PortSame
<1> QED
  BY <1>1, <1>2, <1>4, <1>5, <1>6, <1>7 DEF PeerStep, Sender, Receiver, Deliverer, Reader

LEMMA PeerStepInv == ASSUME RemoteInv, NEW p \in Peer, PeerStep(p) PROVE RemoteInv'
<1> USE DEF RemoteInv
<1>1. Types' /\ LinkInv(p)' /\ PortInv(p)'
  BY OwnPeer
<1>2. /\ WriterSame /\ UNCHANGED <<wpc, wp, messagesSent, nextBufferToRead>> /\ (ended => ended')
      /\ \A v \in Peer : v # p => SameLink(v) /\ SamePort(v)
  BY OthersSame
<1>3. WriterInv'
  BY <1>2, WriterStays
<1>4. ASSUME NEW v \in Peer, v # p PROVE LinkInv(v)' /\ PortInv(v)'
  BY <1>2, <1>4, LinkSame, PortSame
<1> QED
  BY <1>1, <1>3, <1>4

LEMMA WriterStepInv == ASSUME RemoteInv, Writer PROVE RemoteInv'
<1> USE DEF RemoteInv
<1>1. Types'
  BY WriterStepTypes
<1>2. ASSUME NEW v \in Peer PROVE PortInv(v)'
  <2>1. UNCHANGED peerVars
    BY DEF Writer, WriteLock, Publish, Fire, HoldUp, GoAhead, Queue, PushDropped, Leave
  <2>2. SamePort(v)
    BY <2>1 DEF SamePort, peerVars
  <2> QED
    BY <2>2, PortSame
<1>3. WriterInv' /\ \A v \in Peer : LinkInv(v)'
  BY WriteLockInv, PublishInv, FireInv, HoldUpInv, GoAheadInv, QueueInv, PushDroppedInv, LeaveInv
     DEF Writer
<1> QED
  BY <1>1, <1>2, <1>3

LEMMA SignalInv == ASSUME RemoteInv, SignalArrives PROVE RemoteInv'
<1> USE DEF RemoteInv
<1>1. ended' = TRUE /\ UNCHANGED <<writerVars, senderVars, peerVars, full, readBuffer, net, back, peerEnded>>
  BY DEF SignalArrives
<1>2. Types'
  BY <1>1 DEF Types, WriterTypes, SenderTypes, PeerTypes, writerVars, senderVars, peerVars
<1>3. WriterSame /\ UNCHANGED <<wpc, wp, messagesSent, nextBufferToRead>>
  BY <1>1 DEF WriterSame, writerVars
<1>4. ASSUME NEW v \in Peer PROVE LinkInv(v)' /\ PortInv(v)'
  <2>1. SameLink(v) /\ SamePort(v)
    BY <1>1 DEF SameLink, SamePort, writerVars, senderVars, peerVars
  <2> QED
    BY <1>1, <1>3, <2>1, LinkSame, PortSame
<1> QED
  BY <1>2, <1>3, <1>4, WriterStays

LEMMA StutterInv == ASSUME RemoteInv, UNCHANGED vars PROVE RemoteInv'
<1> USE DEF RemoteInv
<1>1. UNCHANGED <<writerVars, senderVars, peerVars, full, readBuffer, net, back, ended, peerEnded>>
  BY DEF vars
<1>2. Types'
  BY <1>1 DEF Types, WriterTypes, SenderTypes, PeerTypes, writerVars, senderVars, peerVars
<1>3. WriterSame /\ UNCHANGED <<wpc, wp, messagesSent, nextBufferToRead>>
  BY <1>1 DEF WriterSame, writerVars
<1>4. ASSUME NEW v \in Peer PROVE LinkInv(v)' /\ PortInv(v)'
  <2>1. SameLink(v) /\ SamePort(v)
    BY <1>1 DEF SameLink, SamePort, writerVars, senderVars, peerVars
  <2> QED
    BY <1>1, <1>3, <2>1, LinkSame, PortSame
<1> QED
  BY <1>2, <1>3, <1>4, WriterStays

LEMMA InitTypes == ASSUME Init PROVE Types
<1> USE RemoteAssumption DEF Init, All
<1>1. 0 \in Buffer /\ 1 \in Peer
  BY DEF Buffer, Peer
<1>2. WriterTypes
  <2>1. content \in [Buffer -> Int] /\ order \in [Buffer -> Nat]
    BY DEF Initial
  <2>2. messagesSent \in [Peer -> Nat] /\ nextBufferToRead \in [Peer -> Buffer]
    BY <1>1
  <2>3. wpc = "lock" /\ wp = 1 /\ written = 0 /\ writeBuffer = 0 /\ ended = FALSE
    OBVIOUS
  <2> QED
    BY <1>1, <2>1, <2>2, <2>3 DEF WriterTypes
<1>3. SenderTypes
  <2>1. <<>> \in Seq(Outgoing) /\ <<>> \in Seq(Carried) /\ <<>> \in Seq(Nat)
    OBVIOUS
  <2>2. \A b \in Buffer : (~ StartsWriteReady(0, 0, b, RingSize)) \in BOOLEAN
    OBVIOUS
  <2> QED
    BY <1>1, <2>1, <2>2 DEF SenderTypes
<1>4. PeerTypes
  <2>1. <<>> \in Seq(Sample)
    OBVIOUS
  <2>2. port \in [Peer -> Seq(Int)]
    <3>1. ASSUME NEW v \in Peer PROVE [i \in 1 .. Lag[v] |-> Initial] \in Seq(Int)
      <4>1. Lag[v] \in Nat /\ Initial \in Int
        BY DEF Initial
      <4>2. [i \in 1 .. Lag[v] |-> Initial] \in [1 .. Lag[v] -> Int]
        BY <4>1
      <4> QED
        BY <4>1, <4>2
    <3>2. port = [v \in Peer |-> [i \in 1 .. Lag[v] |-> Initial]]
      OBVIOUS
    <3> QED
      BY <3>1, <3>2
  <2> QED
    BY <2>1, <2>2 DEF PeerTypes, NoSample
<1> QED
  BY <1>2, <1>3, <1>4 DEF Types

LEMMA InitInv == ASSUME Init PROVE RemoteInv
<1>0. Types
  BY InitTypes
<1>1. /\ wpc = "lock" /\ written = 0 /\ writeBuffer = 0 /\ Aged(0) = 0 /\ wp = 1 /\ ~ ended
      /\ 0 \in Buffer
  BY RemoteAssumption DEF Init, Aged, At, Buffer
<1>2. WriterInv
  BY <1>1 DEF Init, All, WriterInv
<1>3. ASSUME NEW v \in Peer PROVE LinkInv(v)
  <2>1. /\ sendQ[v] = <<>> /\ sending[v] = None /\ items[v] = 0 /\ ~ failed[v] /\ net[v] = <<>>
        /\ back[v] = <<>> /\ queue[v] = <<>> /\ used[v] = 0 /\ expected[v] = 0
        /\ dpc[v] = "pull" /\ messagesSent[v] = 0 /\ readBuffer[v] = 0
    BY DEF Init, All
  <2>2. InHand(v) = 0 /\ Reported(v, 0) = 0
    BY <2>1, Messages DEF InHand, Reported
  <2>3. SendInv(v, 0)
    <3>1. Numbered(<<>>, 0, 0, Held) /\ 0 + InHand(v) = 0
      BY <2>2, NumberedEmpty
    <3>2. ~ IsData(sending[v])
      BY <2>1, Messages
    <3> QED
      BY <2>1, <3>1, <3>2 DEF SendInv
  <2>4. NetInv(v, 0, 0, 0)
    BY <2>1, NumberedEmpty DEF NetInv
  <2>5. UsedInv(v, 0)
    BY <2>1, <2>2, SummedEmpty DEF UsedInv
  <2>6. RingInv(v, 0) /\ BacklogInv(v, 0)
    BY <1>1, <2>1, <2>2, RemoteAssumption DEF RingInv, BacklogInv, Backlog
  <2> QED
    BY <2>3, <2>4, <2>5, <2>6 DEF LinkInv
<1>4. ASSUME NEW v \in Peer PROVE PortInv(v)
  <2>1. /\ expected[v] = 0 /\ dpc[v] = "pull" /\ taken[v] = NoSample /\ con[v] = 0
        /\ port[v] = [i \in 1 .. Lag[v] |-> Initial]
    BY DEF Init, All
  <2>2. Lag[v] \in Nat /\ Lag[v] <= PortSize(v)
    BY RemoteAssumption DEF PortSize
  <2>3. Len(port[v]) = Lag[v] /\ \A i \in 1 .. Lag[v] : port[v][i] = Initial
    BY <2>1, <2>2
  <2>4. Delivered(v) = 0
    BY <2>1, <2>2, <2>3 DEF Delivered
  <2>5. \A i \in 1 .. Lag[v] : Due(con[v] + i - 1 - Lag[v]) = Initial
    BY <2>1, <2>2 DEF Due, Initial
  <2> QED
    BY <2>1, <2>2, <2>3, <2>4, <2>5 DEF PortInv
<1> QED
  BY <1>0, <1>2, <1>3, <1>4 DEF RemoteInv

\* The invariant of the samples' way: every queue holds an interval of their numbers, the
\* intervals join, the ring holds what is unsent and the accounts of what was used agree.
THEOREM RemoteInvariant == Spec => []RemoteInv
<1>1. Init => RemoteInv
  BY InitInv
<1>2. RemoteInv /\ [Next]_vars => RemoteInv'
  <2> SUFFICES ASSUME RemoteInv, [Next]_vars PROVE RemoteInv'
    OBVIOUS
  <2>1. CASE \E p \in Peer : PeerStep(p)
    BY <2>1, PeerStepInv
  <2> QED
    BY <2>1, WriterStepInv, SignalInv, StutterInv DEF Next, PeerStep
<1> QED
  BY <1>1, <1>2, PTL DEF Spec

-----------------------------------------------------------------------------
(* Order, and the buffers that messages share.                             *)

\* The messages of a peer that wait here, with the one in the sender's hands.
LEMMA UnsentNumbered ==
    ASSUME Types, NEW p \in Peer, NEW c \in Nat, SendInv(p, c)
    PROVE  Unsent(p) \in Seq(Outgoing) /\ Numbered(Unsent(p), c, messagesSent[p], Held)
<1>1. sendQ[p] \in Seq(Outgoing) /\ sending[p] \in Outgoing \cup {None}
  BY DEF Types, SenderTypes
<1>2. Numbered(sendQ[p], c + InHand(p), messagesSent[p], Held)
  BY DEF SendInv
<1>3. CASE sending[p] = None
  <2>1. Unsent(p) = sendQ[p]
    BY <1>1, <1>3 DEF Unsent
  <2>2. c + InHand(p) = c
    BY <1>3, Messages DEF InHand
  <2> QED
    BY <1>1, <1>2, <2>1, <2>2
<1>4. CASE sending[p] # None
  <2> DEFINE m == sending[p]
  <2>1. m \in Outgoing /\ Unsent(p) = <<m>> \o sendQ[p]
    BY <1>1, <1>4 DEF Unsent
  <2>2. c + InHand(p) = IF IsData(m) THEN c + 1 ELSE c
    BY DEF InHand
  <2>3. IsData(m) => <<m, c>> \in Held
    BY DEF SendInv
  <2> HIDE DEF m
  <2>4. Numbered(sendQ[p], IF IsData(m) THEN c + 1 ELSE c, messagesSent[p], Held)
    BY <1>2, <2>2
  <2>5. Numbered(<<m>> \o sendQ[p], c, messagesSent[p], Held)
    BY <1>1, <2>1, <2>3, <2>4, NumberedCons
  <2>6. <<m>> \o sendQ[p] \in Seq(Outgoing)
    BY <1>1, <2>1
  <2> QED
    BY <2>1, <2>5, <2>6
<1> QED
  BY <1>3, <1>4

\* Where the n-th sample that waits to be sent is.
LEMMA UnsentHeld ==
    ASSUME Types, WriterInv, NEW p \in Peer, NEW a \in Nat, NEW b \in Nat, NEW c \in Nat,
           SendInv(p, c), NetInv(p, a, b, c), UsedInv(p, c), RingInv(p, c),
           NEW n, Track(Unsent(p), n, c, messagesSent[p]),
           \A i \in 1 .. Len(Unsent(p)) :
               IsData(Unsent(p)[i]) => <<Unsent(p)[i], n[i]>> \in Held,
           NEW i \in 1 .. Len(Unsent(p)), IsData(Unsent(p)[i])
    PROVE  /\ n[i] \in c .. messagesSent[p] - 1 /\ written - n[i] \in 1 .. RingSize
           /\ wpc = "fill" => written - n[i] < RingSize
           /\ Unsent(p)[i].buffer = Aged(written - n[i]) /\ written - n[i] \in 0 .. RingSize
<1>1. Unsent(p) \in Seq(Outgoing)
  BY UnsentNumbered
<1>2. Len(Unsent(p)) \in Nat
  BY <1>1
<1>3. /\ n[i] \in Nat /\ n[1] = c /\ n[Len(Unsent(p)) + 1] = messagesSent[p]
      /\ n[1] <= n[i] /\ n[i + 1] <= n[Len(Unsent(p)) + 1] /\ n[i + 1] = n[i] + 1
  <2>1. /\ i \in 1 .. Len(Unsent(p)) + 1 /\ i + 1 \in 1 .. Len(Unsent(p)) + 1
        /\ 1 \in 1 .. Len(Unsent(p)) + 1 /\ Len(Unsent(p)) + 1 \in 1 .. Len(Unsent(p)) + 1
        /\ 1 <= i /\ i + 1 <= Len(Unsent(p)) + 1
    BY <1>2
  <2> QED
    BY <2>1 DEF Track
<1>4. /\ messagesSent[p] <= written /\ written - c \in 0 .. RingSize /\ messagesSent[p] \in Nat
      /\ written \in Nat
  BY Unsents DEF Types, WriterTypes
<1>5. n[i] \in c .. messagesSent[p] - 1
  BY <1>3, <1>4
<1>6. written - n[i] \in 1 .. RingSize /\ written - n[i] \in 0 .. RingSize
  <2> DEFINE k == n[i]
             m == messagesSent[p]
  <2>1. k \in c .. m - 1 /\ m \in Nat /\ m <= written /\ RingSize \in Nat
    BY <1>4, <1>5, RemoteAssumption
  <2> HIDE DEF k, m
  <2>2. k \in Nat /\ c <= k /\ k < written
    BY <1>4, <2>1
  <2>3. written - k >= 1 /\ written - k <= RingSize
    BY <1>4, <2>1, <2>2
  <2>4. written - k \in 1 .. RingSize /\ written - k \in 0 .. RingSize
    BY <1>4, <2>1, <2>2, <2>3
  <2> QED
    BY <2>4 DEF k
<1>7. wpc = "fill" => written - n[i] < RingSize
  <2>1. wpc = "fill" => written - c < RingSize
    BY DEF RingInv
  <2> QED
    BY <1>4, <1>5, <2>1, RemoteAssumption
<1>8. Unsent(p)[i].buffer = Aged(written - n[i])
  BY DEF Held
<1> QED
  BY <1>5, <1>6, <1>7, <1>8

LEMMA InvUndisturbed == RemoteInv => StreamUndisturbed
<1> SUFFICES ASSUME RemoteInv, wpc = "fill", NEW p \in Peer, NEW i \in DOMAIN Unsent(p),
                    Unsent(p)[i] = Data(writeBuffer)
             PROVE  FALSE
  BY DEF StreamUndisturbed
<1> USE DEF RemoteInv
<1>1. PICK a, b, c \in Nat : SendInv(p, c) /\ NetInv(p, a, b, c) /\ UsedInv(p, c)
                             /\ RingInv(p, c) /\ BacklogInv(p, c)
  BY DEF LinkInv
<1>2. Unsent(p) \in Seq(Outgoing) /\ Numbered(Unsent(p), c, messagesSent[p], Held)
  BY <1>1, UnsentNumbered
<1>3. PICK n : /\ Track(Unsent(p), n, c, messagesSent[p])
               /\ \A k \in 1 .. Len(Unsent(p)) :
                      IsData(Unsent(p)[k]) => <<Unsent(p)[k], n[k]>> \in Held
  BY <1>2 DEF Numbered
<1>4. i \in 1 .. Len(Unsent(p)) /\ writeBuffer \in Buffer
  BY <1>2 DEF Types, WriterTypes
<1>5. IsData(Unsent(p)[i]) /\ Unsent(p)[i].buffer = writeBuffer
  BY <1>4, Messages
<1>6. /\ written - n[i] \in 1 .. RingSize /\ written - n[i] < RingSize
      /\ Aged(written - n[i]) = writeBuffer
  BY <1>1, <1>3, <1>4, <1>5, UnsentHeld
<1> QED
  BY <1>4, <1>6, RemoteAssumption DEF Aged, At, Buffer

\* Nothing is copied, and nothing is overwritten before it has been sent.
THEOREM RemoteUndisturbed == Spec => []StreamUndisturbed
BY RemoteInvariant, InvUndisturbed, PTL

LEMMA InvOrder == RemoteInv => InOrder
<1> SUFFICES ASSUME RemoteInv, NEW p \in Peer
             PROVE
        LET data == {i \in DOMAIN Unsent(p) : Unsent(p)[i].tag = "PUSHDATA"}
        IN /\ \A i \in data : (\A j \in data : i <= j) => Unsent(p)[i].buffer = readBuffer[p]
           /\ \A i, j \in data :
                i < j /\ (\A k \in data : k <= i \/ j <= k) =>
                    Unsent(p)[j].buffer = Down(Unsent(p)[i].buffer, RingSize)
           /\ wpc = "push" /\ p = wp => (nextBufferToRead[p] = readBuffer[p] <=> data = {})
           /\ queue[p] # <<>> => Head(queue[p]).order = expected[p]
  BY DEF InOrder
<1> USE DEF RemoteInv
<1> DEFINE u == Unsent(p)
           data == {i \in DOMAIN u : u[i].tag = "PUSHDATA"}
<1>1. PICK a, b, c \in Nat : SendInv(p, c) /\ NetInv(p, a, b, c) /\ UsedInv(p, c)
                             /\ RingInv(p, c) /\ BacklogInv(p, c)
  BY DEF LinkInv
<1>2. u \in Seq(Outgoing) /\ Numbered(u, c, messagesSent[p], Held)
  BY <1>1, UnsentNumbered
<1>3. PICK n : /\ Track(u, n, c, messagesSent[p])
               /\ \A i \in 1 .. Len(u) : IsData(u[i]) => <<u[i], n[i]>> \in Held
  BY <1>2 DEF Numbered
<1>4. /\ Len(u) \in Nat
      /\ \A i \in data : i \in 1 .. Len(u) /\ IsData(u[i])
      /\ \A i \in 1 .. Len(u) : IsData(u[i]) => i \in data
  BY <1>2 DEF IsData
<1>5. ASSUME NEW i \in data
      PROVE  /\ n[i] \in c .. messagesSent[p] - 1 /\ written - n[i] \in 1 .. RingSize
             /\ u[i].buffer = Aged(written - n[i])
  <2>1. i \in 1 .. Len(u) /\ IsData(u[i])
    BY <1>4
  <2> HIDE DEF data
  <2> QED
    BY <1>1, <1>3, <2>1, UnsentHeld
<1> HIDE DEF u, data
<1>6. ASSUME NEW i \in data, \A j \in data : i <= j PROVE u[i].buffer = readBuffer[p]
  <2>1. i \in 1 .. Len(u) /\ i \in 1 .. Len(u) + 1 /\ 1 \in 1 .. Len(u) + 1
    BY <1>4
  <2>2. ~ n[1] < n[i]
    <3>1. SUFFICES ASSUME n[1] < n[i] PROVE FALSE
      OBVIOUS
    <3>2. PICK k \in 1 .. i - 1 : k \in 1 .. Len(u) /\ IsData(u[k])
      BY <1>3, <2>1, <3>1 DEF Track
    <3>3. k \in data
      BY <1>4, <3>2
    <3> QED
      BY <1>6, <2>1, <3>2, <3>3
  <2>3. n[i] = c /\ c # messagesSent[p]
    <3>1. n[1] = c /\ n[i] \in c .. messagesSent[p] - 1 /\ messagesSent[p] \in Nat
      BY <1>3, <1>5 DEF Track, Types, WriterTypes
    <3> QED
      BY <2>2, <3>1
  <2> QED
    BY <1>1, <1>5, <2>3 DEF RingInv
<1>7. ASSUME NEW i \in data, NEW j \in data, i < j, \A k \in data : k <= i \/ j <= k
      PROVE  u[j].buffer = Down(u[i].buffer, RingSize)
  <2>1. /\ i \in 1 .. Len(u) /\ j \in 1 .. Len(u) /\ i + 1 <= j
        /\ i + 1 \in 1 .. Len(u) + 1 /\ j \in 1 .. Len(u) + 1
    BY <1>4, <1>7
  <2>2. n[i + 1] = n[i] + 1 /\ n[i + 1] <= n[j] /\ n[j] \in Nat
    BY <1>3, <1>4, <2>1 DEF Track
  <2>3. ~ n[i + 1] < n[j]
    <3>1. SUFFICES ASSUME n[i + 1] < n[j] PROVE FALSE
      OBVIOUS
    <3>2. PICK k \in i + 1 .. j - 1 : k \in 1 .. Len(u) /\ IsData(u[k])
      BY <1>3, <2>1, <3>1 DEF Track
    <3>3. k \in data
      BY <1>4, <3>2
    <3>4. ~ k <= i /\ ~ j <= k
      BY <2>1, <3>2
    <3> QED
      BY <1>7, <3>3, <3>4
  <2>4. /\ written - n[i] \in 1 .. RingSize /\ u[i].buffer = Aged(written - n[i])
        /\ u[j].buffer = Aged(written - n[j]) /\ n[i] \in Int /\ written \in Nat
    BY <1>5 DEF Types, WriterTypes
  <2>5. written - n[j] = (written - n[i]) - 1
    BY <2>2, <2>3, <2>4
  <2>6. Down(Aged(written - n[i]), RingSize) = Aged(written - n[i] - 1)
    <3>1. writeBuffer \in Buffer
      BY DEF Types, WriterTypes
    <3> QED
      BY <2>4, <3>1, AgedDown
  <2> QED
    BY <2>4, <2>5, <2>6
<1>8. ASSUME queue[p] # <<>> PROVE Head(queue[p]).order = expected[p]
  <2>1. dpc[p] # "done"
    BY <1>1, <1>8 DEF NetInv
  <2> QED
    BY <1>1, <1>8, <2>1, PullInOrder
<1>9. data = {} <=> c = messagesSent[p]
  <2>1. /\ Len(u) + 1 \in 1 .. Len(u) + 1 /\ 1 \in 1 .. Len(u) + 1
        /\ n[1] = c /\ n[Len(u) + 1] = messagesSent[p] /\ n[1] <= n[Len(u) + 1]
    BY <1>3, <1>4 DEF Track
  <2>2. CASE data = {}
    <3>1. ~ n[1] < n[Len(u) + 1]
      <4>1. SUFFICES ASSUME n[1] < n[Len(u) + 1] PROVE FALSE
        OBVIOUS
      <4>2. PICK k \in 1 .. Len(u) + 1 - 1 : k \in 1 .. Len(u) /\ IsData(u[k])
        BY <1>3, <2>1, <4>1 DEF Track
      <4> QED
        BY <1>4, <2>2, <4>2
    <3>2. c \in Nat /\ messagesSent[p] \in Nat
      BY DEF Types, WriterTypes
    <3> QED
      BY <2>1, <2>2, <3>1, <3>2
  <2>3. CASE data # {}
    <3>1. PICK i \in data : TRUE
      BY <2>3
    <3>2. n[i] \in c .. messagesSent[p] - 1 /\ messagesSent[p] \in Nat
      BY <1>5 DEF Types, WriterTypes
    <3> QED
      BY <2>3, <3>2
  <2> QED
    BY <2>2, <2>3
<1>10. ASSUME wpc = "push", p = wp PROVE nextBufferToRead[p] = readBuffer[p] <=> data = {}
  <2>1. /\ messagesSent[p] = written - 1 /\ nextBufferToRead[p] = Aged(written - messagesSent[p])
        /\ readBuffer[p] = Aged(written - c) /\ written - c <= RingSize
    <3>1. ~ p < wp
      BY <1>10 DEF Types, WriterTypes, Peer
    <3>2. messagesSent[p] = written - (IF p < wp THEN 0 ELSE 1)
      BY <1>10 DEF WriterInv
    <3>3. nextBufferToRead[p] = Aged(written - messagesSent[p])
      BY DEF WriterInv
    <3>4. readBuffer[p] = Aged(written - c) /\ written - c <= RingSize
      BY <1>1, <1>10 DEF RingInv
    <3> QED
      BY <3>1, <3>2, <3>3, <3>4
  <2>2. written \in Nat /\ c \in Nat /\ c <= messagesSent[p] /\ writeBuffer \in Buffer
    BY <1>1, <1>2, NumberedRange DEF Types, WriterTypes
  <2>3. /\ written - messagesSent[p] = 1 /\ written - c \in 1 .. RingSize
        /\ 1 \in 0 .. RingSize /\ written - c \in 0 .. RingSize
        /\ (c = messagesSent[p] <=> written - c = 1)
    BY <2>1, <2>2, RemoteAssumption
  <2>4. Aged(1) = Aged(written - c) <=> written - c = 1
    BY <2>2, <2>3, AgedInjective
  <2> QED
    BY <1>9, <2>1, <2>3, <2>4
<1> QED
  BY <1>6, <1>7, <1>8, <1>10 DEF u, data

\* Messages leave in the order of the ring, so "disagreement whilst doing comms" occurs for no
\* sender, and for a push on a failed channel just if it left messages unsent; and no sample
\* is delivered out of order.
THEOREM RemoteInOrder == Spec => []InOrder
BY RemoteInvariant, InvOrder, PTL

-----------------------------------------------------------------------------
(* The channel that the reader in the peer voice sees.                     *)

StreamStep(p) == [Stream(p)!Next]_(Stream(p)!channelVars)

LEMMA StreamStutter ==
    ASSUME NEW p \in Peer, written' = written, con'[p] = con[p], taken'[p] = taken[p]
    PROVE  StreamStep(p)
BY DEF StreamStep, Stream!channelVars

\* At most a ring of samples waits here, the congestion limit is on the way or unreported,
\* and a ring is in the port.
LEMMA StreamPublish ==
    ASSUME RemoteInv, NEW p \in Peer, Publish
    PROVE  StreamStep(p)
<1> USE DEF RemoteInv
<1>1. PICK a, b, c \in Nat : SendInv(p, c) /\ NetInv(p, a, b, c) /\ UsedInv(p, c)
                             /\ RingInv(p, c) /\ BacklogInv(p, c)
  BY DEF LinkInv
<1>2. /\ wpc = "fill" /\ written' = written + 1 /\ con' = con /\ taken' = taken
  BY DEF Publish, peerVars
<1>3. messagesSent[p] = written /\ written - Reported(p, c) <= Backlog
  BY <1>1, <1>2 DEF WriterInv, BacklogInv
<1>4. Reported(p, c) \in Nat /\ Reported(p, c) <= expected[p] /\ expected[p] \in Nat
  BY <1>1, Numbers
<1>5. expected[p] <= Delivered(p) + 1 /\ Len(port[p]) <= PortSize(p)
  BY DEF PortInv
<1>6. /\ written \in Nat /\ con[p] \in Nat /\ Len(port[p]) \in Nat /\ Lag[p] \in Nat
      /\ PortSize(p) \in Nat /\ PushDataMaxItems \in Nat /\ RingSize \in Nat
  BY RemoteAssumption, PortSizeRange DEF Types, WriterTypes, PeerTypes
<1> DEFINE r == Reported(p, c)
           e == expected[p]
           l == Len(port[p])
           k == con[p]
           g == Lag[p]
           z == PortSize(p)
<1>7. /\ r \in Nat /\ e \in Nat /\ l \in Nat /\ k \in Nat /\ g \in Nat /\ z \in Nat
      /\ written - r <= PushDataMaxItems + RingSize /\ r <= e /\ e <= (l + k - g) + 1 /\ l <= z
  BY <1>3, <1>4, <1>5, <1>6 DEF Backlog, Delivered
<1> HIDE DEF r, e, l, k, g, z
<1>8. written + g - k < PushDataMaxItems + RingSize + z + 2
  BY <1>6, <1>7
<1>9. Stream(p)!Publish
  BY <1>2, <1>8 DEF Stream!Publish, g, k, z
<1> QED
  BY <1>9 DEF StreamStep, Stream!Next

\* What the reader takes is the sample due to it: the port holds it, so it was published.
LEMMA StreamTake ==
    ASSUME RemoteInv, NEW p \in Peer, Take(p)
    PROVE  StreamStep(p)
<1> USE DEF RemoteInv
<1>1. PICK a, b, c \in Nat : SendInv(p, c) /\ NetInv(p, a, b, c) /\ UsedInv(p, c)
                             /\ RingInv(p, c) /\ BacklogInv(p, c)
  BY DEF LinkInv
<1>2. /\ taken[p] = NoSample /\ port[p] # <<>> /\ taken'[p] = Head(port[p])
      /\ written' = written /\ con' = con
  BY DEF Take, Types, PeerTypes, Set, writerVars
<1>3. port[p] \in Seq(Int) /\ con[p] \in Nat /\ Lag[p] \in Nat /\ written \in Nat
      /\ messagesSent[p] \in Nat
  BY PortSizeRange DEF Types, PeerTypes, WriterTypes
<1>4. Len(port[p]) \in Nat \ {0} /\ Head(port[p]) = port[p][1] /\ 1 \in 1 .. Len(port[p])
  BY <1>2, <1>3
<1>5. taken'[p] = Due(con[p] - Lag[p])
  <2>1. port[p][1] = Due(con[p] + 1 - 1 - Lag[p])
    BY <1>4 DEF PortInv
  <2>2. con[p] + 1 - 1 - Lag[p] = con[p] - Lag[p]
    BY <1>3
  <2> QED
    BY <1>2, <1>4, <2>1, <2>2
<1>6. con[p] < written + Lag[p]
  <2>1. Len(port[p]) + con[p] - Lag[p] <= expected[p]
    BY DEF PortInv, Delivered
  <2>2. /\ expected[p] <= a /\ a <= b /\ b <= c /\ expected[p] \in Nat
        /\ c \in 0 .. messagesSent[p] /\ messagesSent[p] <= written
    BY <1>1, Numbers, Unsents
  <2>3. expected[p] <= written
    BY <1>3, <2>2
  <2> DEFINE l == Len(port[p])
             k == con[p]
             g == Lag[p]
             e == expected[p]
  <2>4. /\ l \in Nat \ {0} /\ k \in Nat /\ g \in Nat /\ e \in Nat /\ e <= written
        /\ l + k - g <= e
    BY <1>3, <1>4, <2>1, <2>2, <2>3
  <2> HIDE DEF l, k, g, e
  <2>5. k < written + g
    BY <1>3, <2>4
  <2> QED
    BY <2>5 DEF k, g
<1>7. Stream(p)!Take
  BY <1>2, <1>5, <1>6 DEF Stream!Take, Stream!NoSample, NoSample, Stream!Content, Stream!Initial,
     Due, Initial
<1> QED
  BY <1>7 DEF StreamStep, Stream!Next

LEMMA StreamGiveBack ==
    ASSUME RemoteInv, NEW p \in Peer, GiveBack(p)
    PROVE  StreamStep(p)
<1>1. /\ taken[p] # NoSample /\ taken'[p] = NoSample /\ con'[p] = con[p] + 1
      /\ written' = written
  BY DEF GiveBack, RemoteInv, Types, PeerTypes, Set, writerVars
<1>2. Stream(p)!GiveBack
  BY <1>1 DEF Stream!GiveBack, Stream!NoSample, NoSample
<1> QED
  BY <1>2 DEF StreamStep, Stream!Next

LEMMA RemoteStepImplements ==
    ASSUME RemoteInv, [Next]_vars, NEW v \in Peer PROVE StreamStep(v)
<1> USE DEF RemoteInv, SamePort, WriterSame
<1>1. CASE Writer
  <2>1. CASE Publish
    BY <2>1, StreamPublish
  <2>2. CASE ~ Publish
    <3>1. written' = written /\ UNCHANGED peerVars
      BY <1>1, <2>2 DEF Writer, WriteLock, Fire, HoldUp, GoAhead, Queue, PushDropped, Leave, writerVars
    <3> QED
      BY <3>1, StreamStutter DEF peerVars
  <2> QED
    BY <2>1, <2>2
<1>2. ASSUME NEW p \in Peer, PeerStep(p) PROVE StreamStep(v)
  <2>1. CASE v # p
    <3>1. written' = written /\ con'[v] = con[v] /\ taken'[v] = taken[v]
      BY <1>2, <2>1, OthersSame
    <3> QED
      BY <3>1, StreamStutter
  <2>2. CASE v = p
    <3>1. CASE Take(p)
      BY <2>2, <3>1, StreamTake
    <3>2. CASE GiveBack(p)
      BY <2>2, <3>2, StreamGiveBack
    <3>3. CASE ~ Take(p) /\ ~ GiveBack(p)
      <4>1. written' = written /\ con' = con /\ taken' = taken
        BY <1>2, <3>3
           DEF PeerStep, Sender, Receiver, Deliverer, Reader, SenderPull, SenderSend, SenderFails,
               ReceivePushData, ReceiveQuery, ReceiveUsedData, DelivererPull, Deliver, GiveUp,
               PeerEnds, writerVars, peerVars
      <4> QED
        BY <4>1, StreamStutter
    <3> QED
      BY <3>1, <3>2, <3>3
  <2> QED
    BY <2>1, <2>2
<1>3. CASE SignalArrives \/ UNCHANGED vars
  <2>1. written' = written /\ con' = con /\ taken' = taken
    BY <1>3 DEF SignalArrives, vars, writerVars, peerVars
  <2> QED
    BY <2>1, StreamStutter
<1> QED
  BY <1>1, <1>2, <1>3 DEF Next, PeerStep

\* The reader of the output in another voice sees a bounded first-in first-out channel:
\* no sample is lost, repeated or out of step on the way, whatever fails or ends.
THEOREM RemoteImplementsStreams == Spec => ImplementsStreams
<1>1. Init => \A p \in Peer : Stream(p)!Init
  <2> SUFFICES ASSUME Init, NEW p \in Peer PROVE Stream(p)!Init
    OBVIOUS
  <2>1. written = 0 /\ con[p] = 0 /\ taken[p] = NoSample
    BY DEF Init, All
  <2> QED
    BY <2>1 DEF Stream!Init, Stream!NoSample, NoSample
<1>2. RemoteInv /\ [Next]_vars => [\A p \in Peer : [Stream(p)!Next]_(Stream(p)!channelVars)]_vars
  BY RemoteStepImplements DEF StreamStep
<1> QED
  BY <1>1, <1>2, RemoteInvariant, PTL DEF Spec, ImplementsStreams

-----------------------------------------------------------------------------
(* The estimate of a peer's backlog.                                       *)

LEMMA Least ==
    ASSUME NEW S, S \subseteq Nat, S # {}
    PROVE  \E m \in S : \A k \in S : m <= k
<1>1. PICK m \in S : \A k \in S : ~ (<<k, m>> \in OpToRel(<, Nat))
  BY NatLessThanWellFounded, WFMin
<1>2. \A k \in S : ~ (k < m)
  BY <1>1 DEF OpToRel
<1> QED
  BY <1>2

\* An interval of the numbers has as many samples as its ends tell.
LEMMA NumberedCount ==
    ASSUME NEW M, NEW s \in Seq(M), NEW lo, NEW hi, NEW G, Numbered(s, lo, hi, G)
    PROVE  Cardinality({i \in DOMAIN s : IsData(s[i])}) = hi - lo
<1>1. PICK n : Track(s, n, lo, hi)
  BY DEF Numbered
<1> DEFINE Datas(k) == {i \in 1 .. k : IsData(s[i])}
           Wrong == {k \in 0 .. Len(s) : Cardinality(Datas(k)) # n[k + 1] - lo}
<1>2. Len(s) \in Nat /\ DOMAIN s = 1 .. Len(s)
  OBVIOUS
<1>3. /\ n \in [1 .. Len(s) + 1 -> Nat] /\ n[1] = lo /\ n[Len(s) + 1] = hi
      /\ \A i \in 1 .. Len(s) : n[i + 1] = IF IsData(s[i]) THEN n[i] + 1 ELSE n[i]
  BY <1>1 DEF Track
<1>4. ASSUME NEW k \in 0 .. Len(s), k \in Wrong, \A i \in Wrong : k <= i PROVE FALSE
  <2>1. k # 0
    <3>1. Datas(0) = {} /\ Cardinality({}) = 0
      BY FS_EmptySet
    <3>2. n[0 + 1] - lo = 0
      BY <1>2, <1>3
    <3> QED
      BY <1>4, <3>1, <3>2
  <2>2. /\ k \in 1 .. Len(s) /\ k - 1 \in 0 .. Len(s) /\ (k - 1) + 1 = k
        /\ k \in 1 .. Len(s) + 1 /\ k + 1 \in 1 .. Len(s) + 1
    BY <1>2, <2>1
  <2>3. Cardinality(Datas(k - 1)) = n[k] - lo
    <3>1. k - 1 \notin Wrong
      BY <1>4, <2>2
    <3> QED
      BY <2>2, <3>1
  <2>4. /\ n[k] \in Nat /\ n[k + 1] \in Nat /\ lo \in Nat
        /\ n[k + 1] = IF IsData(s[k]) THEN n[k] + 1 ELSE n[k]
    <3>1. n[k] \in Nat /\ n[k + 1] \in Nat
      BY <1>3, <2>2
    <3>2. lo \in Nat
      BY <1>2, <1>3
    <3>3. n[k + 1] = IF IsData(s[k]) THEN n[k] + 1 ELSE n[k]
      BY <1>3, <2>2
    <3> QED
      BY <3>1, <3>2, <3>3
  <2>5. Datas(k) = (IF IsData(s[k]) THEN Datas(k - 1) \cup {k} ELSE Datas(k - 1))
        /\ k \notin Datas(k - 1)
    BY <2>2
  <2>6. IsFiniteSet(Datas(k - 1))
    <3>1. k - 1 \in Int
      BY <2>2
    <3>2. IsFiniteSet(1 .. k - 1)
      BY <3>1, FS_Interval
    <3>3. Datas(k - 1) \subseteq 1 .. k - 1
      OBVIOUS
    <3> HIDE DEF Datas
    <3> QED
      BY <3>2, <3>3, FS_Subset
  <2>7. Cardinality(Datas(k - 1) \cup {k}) = Cardinality(Datas(k - 1)) + 1
    <3> HIDE DEF Datas
    <3> QED
      BY <2>5, <2>6, FS_AddElement
  <2>8. Cardinality(Datas(k)) = n[k + 1] - lo
    <3> HIDE DEF Datas
    <3> QED
      BY <2>3, <2>4, <2>5, <2>7
  <2> QED
    BY <1>4, <2>8
<1>5. Wrong = {}
  <2>1. Wrong \subseteq Nat /\ Wrong \subseteq 0 .. Len(s)
    BY <1>2
  <2>2. Wrong # {} => \E k \in Wrong : \A i \in Wrong : k <= i
    <3> HIDE DEF Wrong
    <3> QED
      BY <2>1, Least
  <2> QED
    BY <1>4, <2>1, <2>2
<1>6. Len(s) \in 0 .. Len(s)
  BY <1>2
<1>7. Cardinality(Datas(Len(s))) = n[Len(s) + 1] - lo
  BY <1>5, <1>6
<1> QED
  BY <1>2, <1>3, <1>7

\* The recursive function in Total is the one function of its kind, if there is one.
LEMMA TotalExists ==
    ASSUME NEW s \in Seq(Nat), NEW g,
           g = [i \in 0 .. Len(s) |-> IF i = 0 THEN 0 ELSE g[i - 1] + s[i]]
    PROVE  \E sum : /\ Total(s) = sum[Len(s)]
                    /\ sum = [i \in 0 .. Len(s) |-> IF i = 0 THEN 0 ELSE sum[i - 1] + s[i]]
<1> DEFINE sum[i \in 0 .. Len(s)] == IF i = 0 THEN 0 ELSE sum[i - 1] + s[i]
           Is(f) == f = [i \in 0 .. Len(s) |-> IF i = 0 THEN 0 ELSE f[i - 1] + s[i]]
<1>1. Total(s) = sum[Len(s)]
  BY DEF Total
<1>2. sum = CHOOSE f : Is(f)
  BY DEF sum
<1>3. Is(CHOOSE f : Is(f))
  <2>1. Is(g)
    OBVIOUS
  <2> HIDE DEF Is
  <2> QED
    BY <2>1
<1> HIDE DEF sum
<1>4. Is(sum)
  <2> HIDE DEF Is
  <2> QED
    BY <1>2, <1>3
<1> QED
  BY <1>1, <1>4

LEMMA SummedTotal ==
    ASSUME NEW s \in Seq(Nat), NEW lo, NEW hi, Summed(s, lo, hi)
    PROVE  Total(s) = hi - lo
<1>1. PICK n : /\ n \in [1 .. Len(s) + 1 -> Nat] /\ n[1] = lo /\ n[Len(s) + 1] = hi
               /\ \A i \in 1 .. Len(s) : n[i + 1] = n[i] + s[i]
  BY DEF Summed
<1> DEFINE g == [i \in 0 .. Len(s) |-> n[i + 1] - lo]
<1>2. Len(s) \in Nat /\ \A i \in 1 .. Len(s) : s[i] \in Nat
  OBVIOUS
<1>3. lo \in Nat /\ \A i \in 0 .. Len(s) : i + 1 \in 1 .. Len(s) + 1 /\ n[i + 1] \in Nat
  <2>1. 1 \in 1 .. Len(s) + 1
    BY <1>2
  <2>2. lo \in Nat
    BY <1>1, <2>1
  <2>3. ASSUME NEW i \in 0 .. Len(s) PROVE i + 1 \in 1 .. Len(s) + 1
    BY <1>2
  <2>4. ASSUME NEW i \in 0 .. Len(s) PROVE n[i + 1] \in Nat
    BY <1>1, <2>3
  <2> QED
    BY <2>2, <2>3, <2>4
<1>4. ASSUME NEW i \in 0 .. Len(s) PROVE g[i] = IF i = 0 THEN 0 ELSE g[i - 1] + s[i]
  <2>1. CASE i = 0
    BY <1>1, <1>3, <2>1
  <2>2. CASE i # 0
    <3>1. i \in 1 .. Len(s) /\ i - 1 \in 0 .. Len(s) /\ (i - 1) + 1 = i
      BY <1>2, <2>2
    <3>2. g[i] = n[i + 1] - lo /\ g[i - 1] = n[i] - lo /\ n[i + 1] = n[i] + s[i]
      BY <1>1, <3>1
    <3>3. n[i] \in Nat /\ s[i] \in Nat
      BY <1>2, <1>3, <3>1
    <3> HIDE DEF g
    <3> QED
      BY <1>3, <2>2, <3>2, <3>3
  <2> QED
    BY <2>1, <2>2
<1>5. g = [i \in 0 .. Len(s) |-> IF i = 0 THEN 0 ELSE g[i - 1] + s[i]]
  BY <1>4
<1>6. PICK sum : /\ Total(s) = sum[Len(s)]
                 /\ sum = [i \in 0 .. Len(s) |-> IF i = 0 THEN 0 ELSE sum[i - 1] + s[i]]
  <2>1. DOMAIN g = 0 .. Len(s)
    OBVIOUS
  <2> HIDE DEF g
  <2> QED
    BY <1>5, TotalExists
<1>7. \A i \in 0 .. Len(s) : sum[i] = IF i = 0 THEN 0 ELSE sum[i - 1] + s[i]
  BY <1>6
<1> DEFINE Wrong == {i \in 0 .. Len(s) : sum[i] # g[i]}
<1>8. ASSUME NEW k \in 0 .. Len(s), k \in Wrong, \A i \in Wrong : k <= i PROVE FALSE
  <2>1. k # 0
    <3>1. 0 \in 0 .. Len(s)
      BY <1>2
    <3>2. sum[0] = 0 /\ g[0] = 0
      BY <1>4, <1>7, <3>1
    <3> HIDE DEF g
    <3> QED
      BY <1>8, <3>2
  <2>2. k - 1 \in 0 .. Len(s) /\ k - 1 < k
    BY <1>2, <2>1
  <2>3. sum[k - 1] = g[k - 1]
    <3>1. k - 1 \notin Wrong
      BY <1>8, <2>2
    <3> HIDE DEF g
    <3> QED
      BY <2>2, <3>1
  <2>4. sum[k] = sum[k - 1] + s[k] /\ g[k] = g[k - 1] + s[k]
    <3> HIDE DEF g
    <3> QED
      BY <1>4, <1>7, <2>1
  <2> HIDE DEF g
  <2> QED
    BY <1>8, <2>3, <2>4
<1>9. Wrong = {}
  <2>1. Wrong \subseteq Nat /\ Wrong \subseteq 0 .. Len(s)
    BY <1>2
  <2>2. Wrong # {} => \E k \in Wrong : \A i \in Wrong : k <= i
    <3> HIDE DEF Wrong
    <3> QED
      BY <2>1, Least
  <2> HIDE DEF g
  <2> QED
    BY <1>8, <2>1, <2>2
<1>10. Len(s) \in 0 .. Len(s)
  BY <1>2
<1>11. sum[Len(s)] = n[Len(s) + 1] - lo
  BY <1>9, <1>10
<1> QED
  BY <1>1, <1>6, <1>11

LEMMA InvEstimate == RemoteInv => EstimateCovers
<1> SUFFICES ASSUME RemoteInv, NEW p \in Peer
             PROVE  LET counted == (IF sending[p] \notin {None, Query} THEN 1 ELSE 0)
                          + Cardinality({i \in DOMAIN net[p] : net[p][i].tag = "PUSHDATA"})
                          + Len(queue[p]) + used[p] + Total(back[p])
                    IN /\ items[p] >= counted
                       /\ dpc[p] # "done" /\ ~ failed[p] => items[p] = counted
  BY DEF EstimateCovers
<1>1. PICK a, b, c \in Nat : SendInv(p, c) /\ NetInv(p, a, b, c) /\ UsedInv(p, c)
  BY DEF RemoteInv, LinkInv
<1>2. Types
  BY DEF RemoteInv
<1>3. /\ net[p] \in Seq(Carried) /\ queue[p] \in Seq(Sample) /\ back[p] \in Seq(Nat)
      /\ used[p] \in Nat /\ expected[p] \in Nat /\ items[p] \in Int
      /\ sending[p] \in Outgoing \cup {None}
  BY <1>2 DEF Types, SenderTypes, PeerTypes
<1>4. InHand(p) = IF sending[p] \notin {None, Query} THEN 1 ELSE 0
  BY <1>3 DEF InHand, IsData, Outgoing, None, Query, Data
<1>5. Cardinality({i \in DOMAIN net[p] : net[p][i].tag = "PUSHDATA"}) = b - a
  <2>1. Cardinality({i \in DOMAIN net[p] : IsData(net[p][i])}) = b - a
    BY <1>1, <1>3, NumberedCount DEF NetInv
  <2> QED
    BY <2>1 DEF IsData
<1>6. IF dpc[p] = "done" THEN Len(queue[p]) = 0 ELSE Len(queue[p]) = a - expected[p]
  <2>1. CASE dpc[p] = "done"
    BY <1>1, <2>1 DEF NetInv
  <2>2. CASE dpc[p] # "done"
    <3>1. Cardinality({i \in DOMAIN queue[p] : IsData(queue[p][i])}) = a - expected[p]
      BY <1>1, <1>3, <2>2, NumberedCount DEF NetInv
    <3>2. {i \in DOMAIN queue[p] : IsData(queue[p][i])} = 1 .. Len(queue[p])
      <4>1. DOMAIN queue[p] = 1 .. Len(queue[p])
        BY <1>3
      <4>2. \A i \in 1 .. Len(queue[p]) : queue[p][i] \in Sample
        BY <1>3
      <4> QED
        BY <4>1, <4>2 DEF IsData, Sample
    <3>3. Cardinality(1 .. Len(queue[p])) = Len(queue[p])
      <4>1. Len(queue[p]) \in Nat
        BY <1>3
      <4> QED
        BY <4>1, FS_Interval
    <3> QED
      BY <2>2, <3>1, <3>2, <3>3
  <2> QED
    BY <2>1, <2>2
<1>7. Total(back[p]) = expected[p] - used[p] - Reported(p, c)
  BY <1>1, <1>3, SummedTotal DEF UsedInv
<1>8. /\ b <= c /\ (~ failed[p] => b = c)
      /\ expected[p] <= a
  BY <1>1, <1>2, Numbers DEF NetInv
<1>9. Reported(p, c) = c + InHand(p) - items[p] /\ InHand(p) \in Nat
  BY DEF Reported, InHand
<1> DEFINE hand  == IF sending[p] \notin {None, Query} THEN 1 ELSE 0
           way   == Cardinality({i \in DOMAIN net[p] : net[p][i].tag = "PUSHDATA"})
           total == Total(back[p])
           long  == Len(queue[p])
           rep   == Reported(p, c)
<1>10. hand \in Nat /\ way = b - a /\ total = expected[p] - used[p] - rep
       /\ rep = c + hand - items[p] /\ b <= c /\ expected[p] <= a
  BY <1>4, <1>5, <1>7, <1>8, <1>9
<1>11. IF dpc[p] = "done" THEN long = 0 ELSE long = a - expected[p]
  BY <1>6
<1>12. used[p] \in Nat /\ expected[p] \in Nat /\ items[p] \in Int
  BY <1>3
<1>13. ~ failed[p] => b = c
  BY <1>8
<1> SUFFICES /\ items[p] >= hand + way + long + used[p] + total
             /\ dpc[p] # "done" /\ ~ failed[p] => items[p] = hand + way + long + used[p] + total
  OBVIOUS
<1> HIDE DEF RemoteInv, hand, way, total, long, rep
<1>14. hand + way + long + used[p] + total = items[p] + b - c - a + expected[p] + long
  <2>1. long \in Int
    BY <1>11, <1>12
  <2> QED
    BY <1>10, <1>12, <2>1
<1>15. CASE dpc[p] = "done"
  BY <1>10, <1>11, <1>12, <1>14, <1>15
<1>16. CASE dpc[p] # "done"
  <2>1. long = a - expected[p]
    BY <1>11, <1>16
  <2>2. hand + way + long + used[p] + total = items[p] + b - c
    BY <1>12, <1>14, <2>1
  <2>3. items[p] >= items[p] + b - c
    BY <1>10, <1>12
  <2>4. ~ failed[p] => items[p] + b - c = items[p]
    BY <1>12, <1>13
  <2> QED
    BY <2>2, <2>3, <2>4
<1> QED
  BY <1>15, <1>16

\* The writer's estimate of what a peer has not used covers the samples on the way to it, and is
\* exact unless the channel fails or the peer discards its queue, however many replies are late.
THEOREM RemoteEstimate == Spec => []EstimateCovers
BY RemoteInvariant, InvEstimate, PTL
=============================================================================
