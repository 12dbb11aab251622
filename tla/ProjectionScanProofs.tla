------------------------ MODULE ProjectionScanProofs ------------------------
(***************************************************************************)
(* Proofs about projections: keys are totally ordered, the key range of a  *)
(* prefix scan holds exactly the keys with the prefix, a patch means what  *)
(* its mutations say, and a reader that pages through a projection while   *)
(* patches commit misses no key that is there throughout.                  *)
(***************************************************************************)
EXTENDS ProjectionScan, FiniteSetTheorems, SequenceTheorems, WellFoundedInduction, TLAPS

\* A nonempty set of naturals has a least element.
LEMMA LeastOf ==
    ASSUME NEW S \in SUBSET Nat, S # {}
    PROVE  \E m \in S : \A n \in S : m <= n
<1>1. PICK m \in S : \A n \in S : <<n, m>> \notin OpToRel(<, Nat)
  BY WFMin, NatLessThanWellFounded
<1>2. \A n \in S : ~(n < m)
  BY <1>1 DEF OpToRel
<1> QED
  BY <1>2

-----------------------------------------------------------------------------
(* The order of the keys *)

\* The bytes of a key.
LEMMA KeyBytes ==
    ASSUME NEW a \in Keys
    PROVE  Len(a) \in Nat /\ \A i \in 1 .. Len(a) : a[i] \in 0 .. MaxByte
<1>1. PICK B : B = 0 .. MaxByte
  OBVIOUS
<1>2. a \in Seq(B)
  BY <1>1 DEF Keys
<1>3. \A i \in 1 .. Len(a) : a[i] \in B
  BY <1>2, ElementOfSeq
<1> QED
  BY <1>1, <1>2, <1>3

\* Two keys agree in their first n bytes.
Agree(a, b, n) == n <= Len(a) /\ n <= Len(b) /\ \A i \in 1 .. n : a[i] = b[i]

\* a is less than b because of what follows n equal bytes.
LessAt(a, b, n) ==
    /\ Agree(a, b, n)
    /\ n < Len(b)
    /\ n = Len(a) \/ a[n + 1] < b[n + 1]

\* The parts of two keys of the same length are equal when their bytes are.
LEMMA SameStart ==
    ASSUME NEW a \in Keys, NEW b \in Keys, NEW n \in Nat, n <= Len(a), n <= Len(b)
    PROVE  SubSeq(a, 1, n) = SubSeq(b, 1, n) <=> \A i \in 1 .. n : a[i] = b[i]
<1> DEFINE B == 0 .. MaxByte
           s == SubSeq(a, 1, n)
           t == SubSeq(b, 1, n)
<1>1. a \in Seq(B) /\ b \in Seq(B)
  BY DEF Keys
<1>2. \A i \in 1 .. n : i \in 1 .. Len(a) /\ i \in 1 .. Len(b)
  BY <1>1
<1> HIDE DEF B
<1>3. \A i \in 1 .. n : a[i] \in B /\ b[i] \in B
  BY <1>1, <1>2, ElementOfSeq
<1>4. /\ s \in Seq(B) /\ Len(s) = IF 1 <= n THEN n - 1 + 1 ELSE 0
      /\ \A i \in 1 .. n - 1 + 1 : s[i] = a[1 + i - 1]
  BY <1>3, SubSeqProperties
<1>5. /\ t \in Seq(B) /\ Len(t) = IF 1 <= n THEN n - 1 + 1 ELSE 0
      /\ \A i \in 1 .. n - 1 + 1 : t[i] = b[1 + i - 1]
  BY <1>3, SubSeqProperties
<1> HIDE DEF s, t
<1>6. Len(s) = n /\ Len(t) = n
  BY <1>4, <1>5
<1>7. \A i \in 1 .. n : i \in 1 .. n - 1 + 1 /\ 1 + i - 1 = i
  OBVIOUS
<1>8. \A i \in 1 .. n : s[i] = a[i] /\ t[i] = b[i]
  BY <1>4, <1>5, <1>7
<1>9. ASSUME s = t PROVE \A i \in 1 .. n : a[i] = b[i]
  BY <1>8, <1>9
<1>10. ASSUME \A i \in 1 .. n : a[i] = b[i] PROVE s = t
  BY <1>4, <1>5, <1>6, <1>8, <1>10, SeqEqual
<1> QED
  BY <1>9, <1>10 DEF s, t

\* A prefix is what a key starts with.
LEMMA PrefixMeaning ==
    ASSUME NEW a \in Keys, NEW b \in Keys
    PROVE  IsPrefix(a, b) <=> Agree(a, b, Len(a))
<1>1. Len(a) \in Nat /\ Len(b) \in Nat
  BY DEF Keys
<1> QED
  BY <1>1, SameStart DEF IsPrefix, Agree

\* KeyLess in these terms.
LEMMA KeyLessMeaning ==
    ASSUME NEW a \in Keys, NEW b \in Keys
    PROVE  KeyLess(a, b) <=> \E n \in Nat : LessAt(a, b, n)
<1> PICK l, m : l = Len(a) /\ m = Len(b)
  OBVIOUS
<1>0. a \in Seq(0 .. MaxByte) /\ b \in Seq(0 .. MaxByte)
  BY DEF Keys
<1>1. l \in Nat /\ m \in Nat /\ DOMAIN a = 1 .. l /\ DOMAIN b = 1 .. m
  BY <1>0
<1>2. ASSUME IsStrictPrefix(a, b) PROVE LessAt(a, b, Len(a))
  <2>1. Agree(a, b, Len(a)) /\ a # b
    BY <1>2, PrefixMeaning DEF IsStrictPrefix
  <2>2. Len(a) # Len(b)
    BY <1>0, <2>1, SeqEqual DEF Agree
  <2>3. Len(a) < Len(b)
    BY <1>1, <2>1, <2>2 DEF Agree
  <2> QED
    BY <2>1, <2>3 DEF LessAt
<1>3. ASSUME NEW i \in DOMAIN a \cap DOMAIN b,
             a[i] < b[i], SubSeq(a, 1, i - 1) = SubSeq(b, 1, i - 1)
      PROVE  LessAt(a, b, i - 1) /\ i - 1 \in Nat
  <2>1. i - 1 \in Nat /\ i - 1 < Len(a) /\ i - 1 < Len(b) /\ i - 1 + 1 = i
    BY <1>1
  <2>2. \A j \in 1 .. i - 1 : a[j] = b[j]
    BY <1>3, <2>1, SameStart
  <2> QED
    BY <1>1, <1>3, <2>1, <2>2 DEF LessAt, Agree
<1>4. ASSUME NEW n \in Nat, LessAt(a, b, n) PROVE KeyLess(a, b)
  <2>1. CASE n = Len(a)
    BY <1>1, <1>4, <2>1, PrefixMeaning DEF LessAt, KeyLess, IsStrictPrefix
  <2>2. CASE n # Len(a)
    <3>1. n + 1 \in DOMAIN a \cap DOMAIN b /\ n + 1 - 1 = n
      <4>1. n <= l /\ n < m
        BY <1>4 DEF LessAt, Agree
      <4>2. n + 1 \in 1 .. l /\ n + 1 \in 1 .. m
        BY <1>1, <2>2, <4>1
      <4> QED
        BY <1>1, <4>2
    <3>2. SubSeq(a, 1, n) = SubSeq(b, 1, n)
      BY <1>4, SameStart DEF LessAt, Agree
    <3>3. a[n + 1] < b[n + 1]
      BY <1>4, <2>2 DEF LessAt
    <3> QED
      BY <3>1, <3>2, <3>3 DEF KeyLess
  <2> QED
    BY <2>1, <2>2
<1> QED
  BY <1>1, <1>2, <1>3, <1>4 DEF KeyLess

\* There is a place up to which two keys agree and not beyond.
LEMMA FirstDifference ==
    ASSUME NEW a \in Keys, NEW b \in Keys
    PROVE  \E n \in Nat : /\ Agree(a, b, n)
                          /\ n = Len(a) \/ n = Len(b) \/ a[n + 1] # b[n + 1]
<1> DEFINE ends == {n \in Nat : n = Len(a) \/ n = Len(b) \/ a[n + 1] # b[n + 1]}
<1>1. Len(a) \in Nat /\ Len(b) \in Nat
  BY DEF Keys
<1>2. PICK n \in ends : \A m \in ends : n <= m
  <2>1. ends \in SUBSET Nat /\ ends # {}
    BY <1>1
  <2> HIDE DEF ends
  <2> QED
    BY <2>1, LeastOf
<1>3. n \in Nat /\ n <= Len(a) /\ n <= Len(b)
  BY <1>1, <1>2
<1>4. \A i \in 1 .. n : a[i] = b[i]
  <2> TAKE i \in 1 .. n
  <2>1. i - 1 \in Nat /\ ~(n <= i - 1) /\ i - 1 + 1 = i
    BY <1>3
  <2>2. i - 1 \notin ends
    BY <1>2, <2>1
  <2> QED
    BY <2>1, <2>2
<1> QED
  BY <1>2, <1>3, <1>4 DEF Agree

\* No key is less than itself.
LEMMA KeyIrreflexive ==
    ASSUME NEW a \in Keys
    PROVE  ~KeyLess(a, a)
<1>1. Len(a) \in Nat /\ a \in Seq(0 .. MaxByte)
  BY DEF Keys
<1>2. ASSUME NEW n \in Nat, LessAt(a, a, n) PROVE FALSE
  <2>1. n + 1 \in 1 .. Len(a) /\ n < Len(a) /\ a[n + 1] < a[n + 1]
    BY <1>1, <1>2 DEF LessAt
  <2>2. a[n + 1] \in 0 .. MaxByte
    BY <1>1, <2>1, ElementOfSeq
  <2> QED
    BY <2>1, <2>2, ScanAssumption
<1> QED
  BY <1>2, KeyLessMeaning

\* The order is transitive.
LEMMA KeyTransitive ==
    ASSUME NEW a \in Keys, NEW b \in Keys, NEW c \in Keys, KeyLess(a, b), KeyLess(b, c)
    PROVE  KeyLess(a, c)
<1>1. /\ Len(a) \in Nat /\ Len(b) \in Nat /\ Len(c) \in Nat
      /\ \A i \in 1 .. Len(a) : a[i] \in 0 .. MaxByte
      /\ \A i \in 1 .. Len(b) : b[i] \in 0 .. MaxByte
      /\ \A i \in 1 .. Len(c) : c[i] \in 0 .. MaxByte
  BY KeyBytes
<1>2. PICK n \in Nat : LessAt(a, b, n)
  BY KeyLessMeaning
<1>3. PICK m \in Nat : LessAt(b, c, m)
  BY KeyLessMeaning
<1>4. CASE n < m
  <2>1. Agree(a, c, n) /\ n < Len(c)
    BY <1>1, <1>2, <1>3, <1>4 DEF LessAt, Agree
  <2>2. b[n + 1] = c[n + 1]
    BY <1>3, <1>4 DEF LessAt, Agree
  <2>3. LessAt(a, c, n)
    BY <1>2, <2>1, <2>2 DEF LessAt
  <2> QED
    BY <2>3, KeyLessMeaning
<1>5. CASE m < n
  <2>1. Agree(a, c, m) /\ m < Len(c)
    BY <1>1, <1>2, <1>3, <1>5 DEF LessAt, Agree
  <2>2. a[m + 1] = b[m + 1] /\ m # Len(b)
    BY <1>1, <1>2, <1>5 DEF LessAt, Agree
  <2>3. LessAt(a, c, m)
    BY <1>3, <2>1, <2>2 DEF LessAt
  <2> QED
    BY <2>3, KeyLessMeaning
<1>6. CASE m = n
  <2>1. Agree(a, c, n) /\ n < Len(c) /\ n # Len(b)
    BY <1>1, <1>2, <1>3, <1>6 DEF LessAt, Agree
  <2>2. n = Len(a) \/ a[n + 1] < c[n + 1]
    <3>1. CASE n = Len(a)
      BY <3>1
    <3>2. CASE n # Len(a)
      <4>1. a[n + 1] < b[n + 1] /\ b[n + 1] < c[n + 1]
        BY <1>2, <1>3, <1>6, <2>1, <3>2 DEF LessAt
      <4>2. n + 1 \in 1 .. Len(a) /\ n + 1 \in 1 .. Len(b) /\ n + 1 \in 1 .. Len(c)
        BY <1>1, <1>2, <2>1, <3>2 DEF LessAt, Agree
      <4>3. a[n + 1] \in Int /\ b[n + 1] \in Int /\ c[n + 1] \in Int
        BY <1>1, <4>2
      <4> QED
        BY <4>1, <4>3
    <3> QED
      BY <3>1, <3>2
  <2>3. LessAt(a, c, n)
    BY <2>1, <2>2 DEF LessAt
  <2> QED
    BY <2>3, KeyLessMeaning
<1> QED
  BY <1>4, <1>5, <1>6

\* Of two different keys one is less.
LEMMA KeyTotal ==
    ASSUME NEW a \in Keys, NEW b \in Keys, a # b
    PROVE  KeyLess(a, b) \/ KeyLess(b, a)
<1>1. /\ Len(a) \in Nat /\ Len(b) \in Nat
      /\ a \in Seq(0 .. MaxByte) /\ b \in Seq(0 .. MaxByte)
  BY DEF Keys
<1>2. PICK n \in Nat : /\ Agree(a, b, n)
                       /\ n = Len(a) \/ n = Len(b) \/ a[n + 1] # b[n + 1]
  BY FirstDifference
<1>3. Agree(b, a, n)
  BY <1>2 DEF Agree
<1>4. CASE n = Len(a)
  <2>1. n # Len(b)
    BY <1>1, <1>2, <1>4, SeqEqual DEF Agree
  <2> QED
    BY <1>1, <1>2, <1>4, <2>1, KeyLessMeaning DEF LessAt, Agree
<1>5. CASE n # Len(a) /\ n = Len(b)
  BY <1>1, <1>2, <1>3, <1>5, KeyLessMeaning DEF LessAt, Agree
<1>6. CASE n # Len(a) /\ n # Len(b)
  <2>1. n + 1 \in 1 .. Len(a) /\ n + 1 \in 1 .. Len(b) /\ n < Len(a) /\ n < Len(b)
    BY <1>1, <1>2, <1>6 DEF Agree
  <2>2. a[n + 1] \in 0 .. MaxByte /\ b[n + 1] \in 0 .. MaxByte
    BY <1>1, <2>1, ElementOfSeq
  <2>3. a[n + 1] < b[n + 1] \/ b[n + 1] < a[n + 1]
    BY <1>2, <1>6, <2>2, ScanAssumption
  <2> QED
    BY <1>2, <1>3, <2>1, <2>3, KeyLessMeaning DEF LessAt
<1> QED
  BY <1>4, <1>5, <1>6

\* What is not less than a key differs from it by a greater byte, or goes on.
LEMMA NotLess ==
    ASSUME NEW a \in Keys, NEW b \in Keys, ~KeyLess(b, a),
           NEW n \in Nat, Agree(a, b, n), n < Len(a)
    PROVE  n < Len(b) /\ a[n + 1] <= b[n + 1]
<1>1. ~LessAt(b, a, n)
  BY KeyLessMeaning
<1>2. Agree(b, a, n) /\ n # Len(b) /\ ~(b[n + 1] < a[n + 1])
  BY <1>1 DEF LessAt, Agree
<1>3. /\ Len(a) \in Nat /\ \A i \in 1 .. Len(a) : a[i] \in 0 .. MaxByte
      /\ Len(b) \in Nat /\ \A i \in 1 .. Len(b) : b[i] \in 0 .. MaxByte
  BY KeyBytes
<1>4. n < Len(b)
  BY <1>2, <1>3 DEF Agree
<1>5. n + 1 \in 1 .. Len(a) /\ n + 1 \in 1 .. Len(b)
  BY <1>3, <1>4
<1>6. a[n + 1] \in 0 .. MaxByte /\ b[n + 1] \in 0 .. MaxByte
  BY <1>3, <1>5
<1> QED
  BY <1>2, <1>4, <1>6, ScanAssumption

\* The prefix is in the range of its scan.
LEMMA PrefixNotLess ==
    ASSUME NEW a \in Keys, NEW b \in Keys, Agree(a, b, Len(a))
    PROVE  ~KeyLess(b, a)
<1>1. /\ Len(a) \in Nat /\ Len(b) \in Nat
      /\ \A i \in 1 .. Len(a) : a[i] \in 0 .. MaxByte
  BY KeyBytes
<1>2. ASSUME NEW n \in Nat, LessAt(b, a, n) PROVE FALSE
  <2>1. n < Len(a) /\ n # Len(b) /\ b[n + 1] < a[n + 1]
    BY <1>1, <1>2 DEF LessAt, Agree
  <2>2. n + 1 \in 1 .. Len(a)
    BY <1>1, <2>1
  <2>3. b[n + 1] = a[n + 1] /\ a[n + 1] \in 0 .. MaxByte
    BY <1>1, <2>2 DEF Agree
  <2> QED
    BY <2>1, <2>3, ScanAssumption
<1> QED
  BY <1>2, KeyLessMeaning

\* A key that is not less than the prefix and agrees with it up to a place behind
\* which the prefix has only the largest byte starts with the prefix.
LEMMA OnlyLargestFollow ==
    ASSUME NEW a \in Keys, NEW b \in Keys, ~KeyLess(b, a),
           NEW i \in Nat, Agree(a, b, i),
           \A j \in 1 .. Len(a) : i < j => a[j] = MaxByte
    PROVE  Agree(a, b, Len(a))
<1>1. /\ Len(a) \in Nat /\ Len(b) \in Nat
      /\ \A j \in 1 .. Len(b) : b[j] \in 0 .. MaxByte
  BY KeyBytes
<1>2. PICK n \in Nat : /\ Agree(a, b, n)
                       /\ n = Len(a) \/ n = Len(b) \/ a[n + 1] # b[n + 1]
  BY FirstDifference
<1>3. CASE n = Len(a)
  BY <1>2, <1>3
<1>4. CASE n # Len(a)
  <2>1. n < Len(a)
    BY <1>1, <1>2, <1>4 DEF Agree
  <2>2. n < Len(b) /\ a[n + 1] <= b[n + 1]
    BY <1>2, <2>1, NotLess
  <2>3. n + 1 \in 1 .. Len(a) /\ n + 1 \in 1 .. Len(b)
    BY <1>1, <2>1, <2>2
  <2>4. a[n + 1] # b[n + 1]
    BY <1>1, <1>2, <1>4, <2>2
  <2>5. ~(n + 1 <= i)
    BY <2>3, <2>4 DEF Agree
  <2>6. a[n + 1] = MaxByte
    BY <2>3, <2>5
  <2>7. b[n + 1] \in 0 .. MaxByte
    BY <1>1, <2>3
  <2> QED
    BY <2>2, <2>4, <2>6, <2>7, ScanAssumption
<1> QED
  BY <1>3, <1>4

\* prefix_upper_bound: either nothing but the largest byte, and no bound, or the
\* prefix up to its last other byte, which is incremented.
LEMMA BoundMeaning ==
    ASSUME NEW prefix \in Keys
    PROVE  \/ /\ PrefixUpperBound(prefix) = {}
              /\ \A j \in 1 .. Len(prefix) : prefix[j] = MaxByte
           \/ \E i \in 1 .. Len(prefix), e \in Keys :
                 /\ PrefixUpperBound(prefix) = {e}
                 /\ prefix[i] # MaxByte
                 /\ \A j \in 1 .. Len(prefix) : i < j => prefix[j] = MaxByte
                 /\ Len(e) = i /\ e[i] = prefix[i] + 1
                 /\ \A j \in 1 .. i - 1 : e[j] = prefix[j]
<1> PICK l : l = Len(prefix)
  OBVIOUS
<1>0. l \in Nat /\ DOMAIN prefix = 1 .. l
  BY DEF Keys
<1>1. \A j \in 1 .. l : prefix[j] \in 0 .. MaxByte
  BY KeyBytes
<1> DEFINE below == {i \in 1 .. l : prefix[i] # MaxByte}
           Bound(i) == [SubSeq(prefix, 1, i) EXCEPT ![i] = @ + 1]
<1>2. PrefixUpperBound(prefix)
        = {Bound(i) : i \in {i \in below : \A j \in below : j <= i}}
  BY <1>0 DEF PrefixUpperBound
<1>3. CASE below = {}
  BY <1>2, <1>3
<1>4. CASE below # {}
  <2>1. PICK i \in below : \A j \in below : j <= i
    <3> DEFINE back == {l - j : j \in below}
    <3>1. back \in SUBSET Nat /\ back # {}
      BY <1>0, <1>4
    <3>2. PICK m \in back : \A n \in back : m <= n
      <4> HIDE DEF back
      <4> QED
        BY <3>1, LeastOf
    <3>3. PICK i \in below : m = l - i
      BY <3>2
    <3>4. \A j \in below : l - i <= l - j
      BY <3>2, <3>3
    <3>5. \A j \in below : j \in Nat
      BY <1>0
    <3> HIDE DEF below, back
    <3> QED
      BY <1>0, <3>3, <3>4, <3>5
  <2>2. i \in 1 .. l /\ i \in Nat /\ prefix[i] # MaxByte
    BY <1>0, <2>1
  <2>3. \A j \in 1 .. l : i < j => prefix[j] = MaxByte
    <3> TAKE j \in 1 .. l
    <3> HAVE i < j
    <3>1. ~(j <= i)
      BY <1>0, <2>2
    <3> QED
      BY <2>1, <3>1
  <2>4. PrefixUpperBound(prefix) = {Bound(i)}
    <3>1. \A k \in below : (\A j \in below : j <= k) => k = i
      <4> TAKE k \in below
      <4> HAVE \A j \in below : j <= k
      <4>1. i <= k /\ k <= i /\ i \in Nat /\ k \in Nat
        BY <1>0, <2>1
      <4> QED
        BY <4>1
    <3> HIDE DEF below, Bound
    <3> QED
      BY <1>2, <2>1, <3>1
  <2> DEFINE s == SubSeq(prefix, 1, i)
             e == Bound(i)
  <2>5. Len(s) = i /\ s \in Keys /\ \A j \in 1 .. i : s[j] = prefix[j]
    <3>1. PICK B : B = 0 .. MaxByte
      OBVIOUS
    <3>2. \A j \in 1 .. i : prefix[j] \in B
      BY <1>0, <1>1, <2>2, <3>1
    <3>3. /\ s \in Seq(B)
          /\ Len(s) = IF 1 <= i THEN i - 1 + 1 ELSE 0
          /\ \A j \in 1 .. i - 1 + 1 : s[j] = prefix[1 + j - 1]
      BY <2>2, <3>2, SubSeqProperties
    <3>4. \A j \in 1 .. i : j \in 1 .. i - 1 + 1 /\ 1 + j - 1 = j
      BY <2>2
    <3> HIDE DEF s
    <3>5. Len(s) = i
      BY <2>2, <3>3
    <3> QED
      BY <3>1, <3>3, <3>4, <3>5 DEF Keys
  <2> HIDE DEF s
  <2>6. e = [s EXCEPT ![i] = @ + 1]
    BY DEF s
  <2> HIDE DEF e
  <2>7. prefix[i] + 1 \in 0 .. MaxByte
    BY <1>1, <2>2, ScanAssumption
  <2>8. e \in Keys /\ Len(e) = i /\ e[i] = prefix[i] + 1
    BY <2>2, <2>5, <2>6, <2>7 DEF Keys
  <2>9. \A j \in 1 .. i - 1 : e[j] = prefix[j]
    <3> TAKE j \in 1 .. i - 1
    <3>1. j \in 1 .. i /\ j # i
      BY <2>2
    <3> QED
      BY <2>5, <2>6, <3>1 DEF Keys
  <2> QED
    BY <2>2, <2>3, <2>4, <2>8, <2>9 DEF e
<1> QED
  BY <1>3, <1>4

\* The range of a prefix scan holds exactly the keys with the prefix.
LEMMA PrefixIsRange ==
    ASSUME NEW prefix \in Keys, NEW k \in Keys
    PROVE  IsPrefix(prefix, k)
             <=> ~KeyLess(k, prefix) /\ \A e \in PrefixUpperBound(prefix) : KeyLess(k, e)
<1>1. /\ Len(prefix) \in Nat /\ \A j \in 1 .. Len(prefix) : prefix[j] \in 0 .. MaxByte
      /\ Len(k) \in Nat /\ \A j \in 1 .. Len(k) : k[j] \in 0 .. MaxByte
  BY KeyBytes
<1>2. CASE /\ PrefixUpperBound(prefix) = {}
           /\ \A j \in 1 .. Len(prefix) : prefix[j] = MaxByte
  <2>1. ASSUME IsPrefix(prefix, k) PROVE ~KeyLess(k, prefix)
    BY <2>1, PrefixMeaning, PrefixNotLess
  <2>2. ASSUME ~KeyLess(k, prefix) PROVE IsPrefix(prefix, k)
    <3>1. Agree(prefix, k, 0)
      BY <1>1 DEF Agree
    <3> QED
      BY <1>2, <2>2, <3>1, OnlyLargestFollow, PrefixMeaning
  <2> QED
    BY <1>2, <2>1, <2>2
<1>3. ASSUME NEW i \in 1 .. Len(prefix), NEW e \in Keys,
             PrefixUpperBound(prefix) = {e}, prefix[i] # MaxByte,
             \A j \in 1 .. Len(prefix) : i < j => prefix[j] = MaxByte,
             Len(e) = i, e[i] = prefix[i] + 1, \A j \in 1 .. i - 1 : e[j] = prefix[j]
      PROVE  IsPrefix(prefix, k) <=> ~KeyLess(k, prefix) /\ KeyLess(k, e)
  <2>1. i \in Nat /\ i - 1 \in Nat /\ i - 1 + 1 = i /\ i <= Len(prefix) /\ i - 1 < Len(prefix)
    BY <1>1
  <2>2. ASSUME IsPrefix(prefix, k) PROVE ~KeyLess(k, prefix) /\ KeyLess(k, e)
    <3>1. Agree(prefix, k, Len(prefix))
      BY <2>2, PrefixMeaning
    <3>2. Agree(k, e, i - 1)
      BY <1>1, <1>3, <2>1, <3>1 DEF Agree
    <3>3. k[i] = prefix[i] /\ prefix[i] \in 0 .. MaxByte
      BY <1>1, <3>1 DEF Agree
    <3>4. k[i] < e[i]
      BY <1>3, <3>3, ScanAssumption
    <3>5. LessAt(k, e, i - 1)
      BY <1>3, <2>1, <3>2, <3>4 DEF LessAt
    <3> QED
      BY <2>1, <3>1, <3>5, KeyLessMeaning, PrefixNotLess
  <2>3. ASSUME ~KeyLess(k, prefix), KeyLess(k, e) PROVE IsPrefix(prefix, k)
    <3>1. PICK n \in Nat : LessAt(k, e, n)
      BY <2>3, KeyLessMeaning
    <3>2. n < i /\ n <= Len(k) /\ n < Len(prefix)
      BY <1>1, <1>3, <2>1, <3>1 DEF LessAt, Agree
    <3>3. Agree(prefix, k, n)
      <4>1. \A j \in 1 .. n : j \in 1 .. i - 1
        BY <2>1, <3>2
      <4> QED
        BY <1>1, <1>3, <3>1, <3>2, <4>1 DEF LessAt, Agree
    <3>4. n < Len(k) /\ prefix[n + 1] <= k[n + 1]
      BY <2>3, <3>2, <3>3, NotLess
    <3>5. k[n + 1] < e[n + 1]
      BY <1>1, <3>1, <3>4 DEF LessAt
    <3>6. n + 1 \in 1 .. Len(prefix) /\ n + 1 \in 1 .. Len(k)
      BY <1>1, <3>2, <3>4
    <3>7. prefix[n + 1] \in 0 .. MaxByte /\ k[n + 1] \in 0 .. MaxByte
      BY <1>1, <3>6
    <3>8. n = i - 1
      <4>1. ASSUME n # i - 1 PROVE FALSE
        <5>1. n + 1 \in 1 .. i - 1
          BY <2>1, <3>2, <4>1
        <5>2. e[n + 1] = prefix[n + 1]
          BY <1>3, <5>1
        <5> QED
          BY <3>4, <3>5, <3>7, <5>2, ScanAssumption
      <4> QED
        BY <4>1
    <3>9. k[i] = prefix[i]
      <4>1. prefix[i] <= k[i] /\ k[i] < prefix[i] + 1 /\ prefix[i] \in Int /\ k[i] \in Int
        BY <1>3, <2>1, <3>4, <3>5, <3>7, <3>8, ScanAssumption
      <4> QED
        BY <4>1
    <3>10. Agree(prefix, k, i)
      <4>1. i <= Len(k)
        BY <1>1, <2>1, <3>4, <3>8
      <4>2. \A j \in 1 .. i : j = i \/ j \in 1 .. n
        BY <2>1, <3>8
      <4> QED
        BY <2>1, <3>3, <3>9, <4>1, <4>2 DEF Agree
    <3> QED
      BY <1>3, <2>1, <2>3, <3>10, OnlyLargestFollow, PrefixMeaning
  <2> QED
    BY <2>2, <2>3
<1> QED
  BY <1>2, <1>3, BoundMeaning

-----------------------------------------------------------------------------
(* ORDER BY key *)

\* A smaller key has fewer keys before it.
LEMMA FewerBefore ==
    ASSUME NEW keys \in SUBSET Keys, IsFiniteSet(keys),
           NEW a \in keys, NEW b \in keys, KeyLess(a, b)
    PROVE  Cardinality(KeysBefore(keys, a)) < Cardinality(KeysBefore(keys, b))
<1>1. KeysBefore(keys, a) \in SUBSET KeysBefore(keys, b)
  BY KeyTransitive DEF KeysBefore
<1>2. a \in KeysBefore(keys, b) /\ a \notin KeysBefore(keys, a)
  BY KeyIrreflexive DEF KeysBefore
<1>3. KeysBefore(keys, b) \in SUBSET keys
  BY DEF KeysBefore
<1>4. IsFiniteSet(KeysBefore(keys, b))
  BY <1>3, FS_Subset
<1>5. /\ Cardinality(KeysBefore(keys, a)) <= Cardinality(KeysBefore(keys, b))
      /\ Cardinality(KeysBefore(keys, a)) # Cardinality(KeysBefore(keys, b))
      /\ IsFiniteSet(KeysBefore(keys, a))
  BY <1>1, <1>2, <1>4, FS_Subset
<1>6. Cardinality(KeysBefore(keys, a)) \in Nat /\ Cardinality(KeysBefore(keys, b)) \in Nat
  BY <1>4, <1>5, FS_CardinalityType
<1> QED
  BY <1>5, <1>6

\* Every number below the number of keys is the number of keys before one of them.
LEMMA KeyOfRank ==
    ASSUME NEW keys \in SUBSET Keys, IsFiniteSet(keys)
    PROVE  /\ \A k \in keys : Cardinality(KeysBefore(keys, k)) + 1 \in 1 .. Cardinality(keys)
           /\ \A i \in 1 .. Cardinality(keys) :
                 \E k \in keys : Cardinality(KeysBefore(keys, k)) + 1 = i
<1> PICK n : n = Cardinality(keys)
  OBVIOUS
<1> DEFINE f == [k \in keys |-> Cardinality(KeysBefore(keys, k)) + 1]
<1>1. n \in Nat
  BY FS_CardinalityType
<1>2. \A k \in keys : Cardinality(KeysBefore(keys, k)) \in Nat /\ Cardinality(KeysBefore(keys, k)) < n
  <2> TAKE k \in keys
  <2>1. KeysBefore(keys, k) \in SUBSET keys /\ k \notin KeysBefore(keys, k)
    BY KeyIrreflexive DEF KeysBefore
  <2>2. /\ IsFiniteSet(KeysBefore(keys, k))
        /\ Cardinality(KeysBefore(keys, k)) <= Cardinality(keys)
        /\ Cardinality(KeysBefore(keys, k)) # Cardinality(keys)
    BY <2>1, FS_Subset
  <2>3. Cardinality(KeysBefore(keys, k)) \in Nat
    BY <2>2, FS_CardinalityType
  <2> QED
    BY <1>1, <2>2, <2>3
<1>3. f \in [keys -> 1 .. n]
  BY <1>1, <1>2
<1>4. \A a, b \in keys : f[a] = f[b] => a = b
  <2> TAKE a, b \in keys
  <2> HAVE f[a] = f[b]
  <2>1. Cardinality(KeysBefore(keys, a)) = Cardinality(KeysBefore(keys, b))
    BY <1>2
  <2>2. ~KeyLess(a, b) /\ ~KeyLess(b, a)
    BY <1>2, <2>1, FewerBefore
  <2> QED
    BY <2>2, KeyTotal
<1>5. f \in Injection(keys, 1 .. n)
  BY <1>3, <1>4 DEF Injection, IsInjective
<1>6. IsFiniteSet(1 .. n) /\ Cardinality(1 .. n) = n
  BY <1>1, FS_Interval
<1>7. f \in Surjection(keys, 1 .. n)
  BY <1>5, <1>6, FS_Injection
<1>8. \A i \in 1 .. n : \E k \in keys : f[k] = i
  BY <1>7 DEF Surjection
<1> QED
  BY <1>3, <1>8

\* InKeyOrder lists the keys, each once, the smaller before the greater.
LEMMA Ordered ==
    ASSUME NEW keys \in SUBSET Keys, IsFiniteSet(keys)
    PROVE  /\ Cardinality(keys) \in Nat
           /\ InKeyOrder(keys) \in [1 .. Cardinality(keys) -> keys]
           /\ InKeyOrder(keys) \in Seq(keys)
           /\ Len(InKeyOrder(keys)) = Cardinality(keys)
           /\ \A i, j \in 1 .. Cardinality(keys) :
                 i < j => KeyLess(InKeyOrder(keys)[i], InKeyOrder(keys)[j])
           /\ \A k \in keys : \E i \in 1 .. Cardinality(keys) : InKeyOrder(keys)[i] = k
<1> PICK n : n = Cardinality(keys)
  OBVIOUS
<1> DEFINE o == InKeyOrder(keys)
<1>1. n \in Nat
  BY FS_CardinalityType
<1>2. o = [i \in 1 .. n |-> CHOOSE k \in keys : Cardinality(KeysBefore(keys, k)) = i - 1]
  BY DEF InKeyOrder
<1>3. \A k \in keys : Cardinality(KeysBefore(keys, k)) \in Nat
  <2> TAKE k \in keys
  <2>1. KeysBefore(keys, k) \in SUBSET keys
    BY DEF KeysBefore
  <2> QED
    BY <2>1, FS_Subset, FS_CardinalityType
<1>4. \A i \in 1 .. n : o[i] \in keys /\ Cardinality(KeysBefore(keys, o[i])) = i - 1
  <2> TAKE i \in 1 .. n
  <2>1. PICK k \in keys : Cardinality(KeysBefore(keys, k)) + 1 = i
    BY KeyOfRank
  <2>2. Cardinality(KeysBefore(keys, k)) = i - 1
    BY <1>1, <1>3, <2>1
  <2> HIDE DEF o
  <2> QED
    BY <1>2, <2>2
<1>5. o \in [1 .. n -> keys]
  BY <1>2, <1>4
<1> HIDE DEF o
<1>6. o \in Seq(keys) /\ Len(o) = n
  BY <1>1, <1>5
<1>7. \A i, j \in 1 .. n : i < j => KeyLess(o[i], o[j])
  <2> TAKE i, j \in 1 .. n
  <2> HAVE i < j
  <2>1. o[i] \in keys /\ o[j] \in keys
    BY <1>4
  <2>2. /\ Cardinality(KeysBefore(keys, o[i])) = i - 1
        /\ Cardinality(KeysBefore(keys, o[j])) = j - 1
    BY <1>4
  <2>3. ASSUME KeyLess(o[j], o[i]) PROVE FALSE
    <3>1. Cardinality(KeysBefore(keys, o[j])) < Cardinality(KeysBefore(keys, o[i]))
      BY <2>1, <2>3, FewerBefore
    <3> QED
      BY <2>2, <3>1
  <2>4. o[i] # o[j]
    BY <2>2
  <2> QED
    BY <2>1, <2>3, <2>4, KeyTotal
<1>8. \A k \in keys : \E i \in 1 .. n : o[i] = k
  <2> TAKE k \in keys
  <2>1. PICK i : i = Cardinality(KeysBefore(keys, k)) + 1
    OBVIOUS
  <2>2. i \in 1 .. n /\ Cardinality(KeysBefore(keys, k)) = i - 1
    BY <1>3, <2>1, KeyOfRank
  <2>3. o[i] \in keys /\ Cardinality(KeysBefore(keys, o[i])) = Cardinality(KeysBefore(keys, k))
    BY <1>4, <2>2
  <2>4. ~KeyLess(o[i], k) /\ ~KeyLess(k, o[i])
    BY <1>3, <2>3, FewerBefore
  <2>5. o[i] = k
    BY <2>3, <2>4, KeyTotal
  <2> QED
    BY <2>2, <2>5
<1> QED
  BY <1>1, <1>5, <1>6, <1>7, <1>8 DEF o

-----------------------------------------------------------------------------
(* Pages *)

\* A table maps finitely many keys.
IsTable(entries) == DOMAIN entries \in SUBSET Keys /\ IsFiniteSet(DOMAIN entries)

\* The keys with the prefix behind the cursor.
Ahead(projection, prefix, after) ==
    {k \in KeysWithPrefix(projection, prefix) : \A a \in after : KeyLess(a, k)}

AtMost(n, limit) == IF limit < n THEN limit ELSE n

\* A page is the beginning of them, in order.
LEMMA PageMeaning ==
    ASSUME NEW projection, IsTable(projection_entries[projection]),
           NEW prefix \in Keys, NEW after, NEW limit \in Nat,
           NEW rows, rows = Ahead(projection, prefix, after),
           NEW page, page = ScanPrefixPage(projection, prefix, after, limit)
    PROVE  /\ rows \in SUBSET Keys /\ IsFiniteSet(rows)
           /\ rows \in SUBSET DOMAIN projection_entries[projection]
           /\ DOMAIN page = 1 .. AtMost(Cardinality(rows), limit)
           /\ Len(page) = AtMost(Cardinality(rows), limit)
           /\ page = <<>> <=> AtMost(Cardinality(rows), limit) = 0
           /\ \A i \in DOMAIN page : page[i].key = InKeyOrder(rows)[i]
<1> DEFINE entries == projection_entries[projection]
           found == {k \in DOMAIN entries : /\ \A s \in {prefix} : ~KeyLess(k, s)
                                            /\ \A e \in PrefixUpperBound(prefix) : KeyLess(k, e)
                                            /\ \A a \in after : KeyLess(a, k)}
<1>1. \A k \in DOMAIN entries :
        IsPrefix(prefix, k)
          <=> ~KeyLess(k, prefix) /\ \A e \in PrefixUpperBound(prefix) : KeyLess(k, e)
  BY PrefixIsRange DEF IsTable
<1>2. found = rows
  BY <1>1 DEF Ahead, KeysWithPrefix
<1>3. rows \in SUBSET DOMAIN entries
  BY DEF Ahead, KeysWithPrefix
<1>4. rows \in SUBSET Keys /\ IsFiniteSet(rows)
  BY <1>3, FS_Subset DEF IsTable
<1>5. Len(InKeyOrder(rows)) = Cardinality(rows)
  BY <1>4, Ordered
<1>6. page = [i \in 1 .. IF limit < Len(InKeyOrder(found)) THEN limit ELSE Len(InKeyOrder(found)) |->
                [key |-> InKeyOrder(found)[i], value |-> entries[InKeyOrder(found)[i]]]]
  BY DEF ScanPrefixPage, Scan
<1> HIDE DEF found
<1>7. page = [i \in 1 .. AtMost(Cardinality(rows), limit) |->
                [key |-> InKeyOrder(rows)[i], value |-> entries[InKeyOrder(rows)[i]]]]
  BY <1>2, <1>5, <1>6 DEF AtMost
<1>8. \A i \in DOMAIN page : page[i].key = InKeyOrder(rows)[i]
  BY <1>7
<1>9. AtMost(Cardinality(rows), limit) \in Nat
  BY <1>4, FS_CardinalityType DEF AtMost
<1>10. /\ DOMAIN page = 1 .. AtMost(Cardinality(rows), limit)
       /\ Len(page) = AtMost(Cardinality(rows), limit)
       /\ page = <<>> <=> AtMost(Cardinality(rows), limit) = 0
  <2>1. PICK n, S : /\ n = AtMost(Cardinality(rows), limit)
                    /\ S = {[key |-> InKeyOrder(rows)[i], value |-> entries[InKeyOrder(rows)[i]]] : i \in 1 .. n}
    OBVIOUS
  <2>2. n \in Nat /\ page \in [1 .. n -> S]
    BY <1>7, <1>9, <2>1
  <2>3. page \in Seq(S) /\ Len(page) = n
    BY <2>2
  <2>4. DOMAIN page = 1 .. n /\ (page = <<>> <=> n = 0)
    BY <2>2, <2>3
  <2> QED
    BY <2>1, <2>3, <2>4
<1> QED
  BY <1>3, <1>4, <1>8, <1>10 DEF entries

\* A scan with room for the whole table finds every key with the prefix.
LEMMA WholeScan ==
    ASSUME NEW projection, IsTable(projection_entries[projection]), NEW prefix \in Keys
    PROVE  LET all == ScanPrefixPage(projection, prefix, {},
                                     Cardinality(DOMAIN projection_entries[projection]))
           IN {all[i].key : i \in DOMAIN all} = KeysWithPrefix(projection, prefix)
<1> PICK size : size = Cardinality(DOMAIN projection_entries[projection])
  OBVIOUS
<1> PICK rows, all : /\ rows = Ahead(projection, prefix, {})
                     /\ all = ScanPrefixPage(projection, prefix, {}, size)
  OBVIOUS
<1>1. rows = KeysWithPrefix(projection, prefix)
  BY DEF Ahead
<1>2. /\ rows \in SUBSET Keys /\ IsFiniteSet(rows)
      /\ rows \in SUBSET DOMAIN projection_entries[projection]
      /\ DOMAIN all = 1 .. AtMost(Cardinality(rows), size)
      /\ \A i \in DOMAIN all : all[i].key = InKeyOrder(rows)[i]
  <2> size \in Nat
    BY FS_CardinalityType DEF IsTable
  <2> QED
    BY PageMeaning
<1>3. Cardinality(rows) <= size /\ Cardinality(rows) \in Nat /\ size \in Nat
  BY <1>2, FS_Subset, FS_CardinalityType DEF IsTable
<1>4. AtMost(Cardinality(rows), size) = Cardinality(rows)
  BY <1>3 DEF AtMost
<1>5. /\ InKeyOrder(rows) \in [1 .. Cardinality(rows) -> rows]
      /\ \A k \in rows : \E i \in 1 .. Cardinality(rows) : InKeyOrder(rows)[i] = k
  BY <1>2, Ordered
<1>6. {all[i].key : i \in DOMAIN all} = rows
  <2>1. \A i \in DOMAIN all : all[i].key \in rows
    BY <1>2, <1>4, <1>5
  <2>2. ASSUME NEW k \in rows PROVE \E i \in DOMAIN all : all[i].key = k
    <3>1. PICK i \in 1 .. Cardinality(rows) : InKeyOrder(rows)[i] = k
      BY <1>5
    <3>2. i \in DOMAIN all
      BY <1>2, <1>4
    <3> QED
      BY <1>2, <3>1, <3>2
  <2> QED
    BY <2>1, <2>2
<1> QED
  BY <1>1, <1>6

-----------------------------------------------------------------------------
(* The reader *)

Reading == [active : {TRUE}, projection : Projections, prefix : ScanPrefixes, limit : Limits,
            after : SUBSET Keys, seen : Seq(Keys), stable : SUBSET Keys, done : BOOLEAN]

Increasing(keys) == \A i, j \in DOMAIN keys : i < j => KeyLess(keys[i], keys[j])

\* The cursor is the last key seen.  What was there throughout has been seen or
\* lies behind the cursor, and has been seen when the scan is done.
ReadingOK(r, tables) ==
    /\ r \in Reading
    /\ Increasing(r.seen)
    /\ r.after = IF r.seen = <<>> THEN {} ELSE {r.seen[Len(r.seen)]}
    /\ \A k \in r.stable : k \in DOMAIN tables[r.projection] /\ IsPrefix(r.prefix, k)
    /\ \A k \in r.stable : (\E i \in DOMAIN r.seen : r.seen[i] = k) \/ \A a \in r.after : KeyLess(a, k)
    /\ r.done => \A k \in r.stable : \E i \in DOMAIN r.seen : r.seen[i] = k

TablesOK(tables) ==
    /\ tables = [p \in Projections |-> tables[p]]
    /\ \A p \in Projections : IsTable(tables[p])

ScanInv ==
    /\ TablesOK(projection_entries)
    /\ reader = NoReader \/ ReadingOK(reader, projection_entries)

\* Keys that all lie behind the last one of an increasing sequence continue it.
LEMMA Continued ==
    ASSUME NEW seen \in Seq(Keys), NEW keys \in Seq(Keys), Increasing(seen), Increasing(keys),
           seen # <<>> => \A j \in DOMAIN keys : KeyLess(seen[Len(seen)], keys[j])
    PROVE  /\ seen \o keys \in Seq(Keys)
           /\ Len(seen \o keys) = Len(seen) + Len(keys)
           /\ Increasing(seen \o keys)
           /\ \A i \in DOMAIN seen : i \in DOMAIN (seen \o keys) /\ (seen \o keys)[i] = seen[i]
           /\ \A j \in DOMAIN keys : /\ Len(seen) + j \in DOMAIN (seen \o keys)
                                     /\ (seen \o keys)[Len(seen) + j] = keys[j]
<1> PICK m, n, all : m = Len(seen) /\ n = Len(keys) /\ all = seen \o keys
  OBVIOUS
<1>1. m \in Nat /\ n \in Nat /\ DOMAIN seen = 1 .. m /\ DOMAIN keys = 1 .. n
  OBVIOUS
<1>2. /\ all \in Seq(Keys) /\ Len(all) = m + n
      /\ \A i \in 1 .. m + n : all[i] = IF i <= m THEN seen[i] ELSE keys[i - m]
  BY ConcatProperties
<1>3. DOMAIN all = 1 .. m + n
  BY <1>2
<1>4. \A i \in 1 .. m : all[i] = seen[i] /\ i \in 1 .. m + n
  BY <1>1, <1>2
<1>5. \A j \in 1 .. n : all[m + j] = keys[j] /\ m + j \in 1 .. m + n
  BY <1>1, <1>2
<1>6. Increasing(all)
  <2> SUFFICES ASSUME NEW i \in 1 .. m + n, NEW j \in 1 .. m + n, i < j
               PROVE  KeyLess(all[i], all[j])
    BY <1>3 DEF Increasing
  <2>1. CASE j <= m
    <3>1. i \in 1 .. m /\ j \in 1 .. m
      BY <1>1, <2>1
    <3> QED
      BY <1>1, <1>4, <3>1 DEF Increasing
  <2>2. CASE i <= m /\ ~(j <= m)
    <3>1. i \in 1 .. m /\ j - m \in 1 .. n /\ m \in 1 .. m /\ j = m + (j - m)
      BY <1>1, <2>2
    <3>2. all[i] = seen[i] /\ all[j] = keys[j - m] /\ seen # <<>>
      BY <1>1, <1>4, <1>5, <3>1
    <3>3. seen[i] \in Keys /\ seen[m] \in Keys /\ keys[j - m] \in Keys
      BY <1>1, <3>1, ElementOfSeq
    <3>4. KeyLess(seen[m], keys[j - m])
      BY <1>1, <3>1, <3>2
    <3>5. i = m \/ KeyLess(seen[i], seen[m])
      <4>1. i = m \/ i < m
        BY <1>1, <3>1
      <4>2. i \in DOMAIN seen /\ m \in DOMAIN seen
        BY <1>1, <3>1
      <4> QED
        BY <4>1, <4>2 DEF Increasing
    <3> QED
      BY <3>2, <3>3, <3>4, <3>5, KeyTransitive
  <2>3. CASE ~(i <= m) /\ ~(j <= m)
    <3>1. /\ i - m \in 1 .. n /\ j - m \in 1 .. n /\ i - m < j - m
          /\ i = m + (i - m) /\ j = m + (j - m)
      BY <1>1, <2>3
    <3>2. all[i] = keys[i - m] /\ all[j] = keys[j - m]
      BY <1>5, <3>1
    <3> QED
      BY <1>1, <3>1, <3>2 DEF Increasing
  <2> QED
    BY <1>1, <2>1, <2>2, <2>3
<1> QED
  BY <1>1, <1>2, <1>3, <1>4, <1>5, <1>6

\* A page continues what the reader has seen, and leaves no stable key behind.
LEMMA NextPageKeeps ==
    ASSUME ScanInv, NextPage
    PROVE  ReadingOK(reader', projection_entries)
<1> PICK p, prefix, limit, after, seen :
        /\ p = reader.projection /\ prefix = reader.prefix /\ limit = reader.limit
        /\ after = reader.after /\ seen = reader.seen
  OBVIOUS
<1>1. ReadingOK(reader, projection_entries) /\ reader \in Reading
  BY DEF ScanInv, NextPage, NoReader, ReadingOK
<1>2. /\ p \in Projections /\ prefix \in ScanPrefixes /\ limit \in Limits
      /\ after \in SUBSET Keys /\ seen \in Seq(Keys) /\ reader.stable \in SUBSET Keys
  BY <1>1 DEF Reading
<1>3. prefix \in Keys /\ limit \in Nat
  BY <1>2, ScanAssumption
<1>4. IsTable(projection_entries[p])
  BY <1>2 DEF ScanInv, TablesOK
<1> PICK rows, page, n :
        /\ rows = Ahead(p, prefix, after)
        /\ page = ScanPrefixPage(p, prefix, after, limit)
        /\ n = AtMost(Cardinality(rows), limit)
  OBVIOUS
<1> DEFINE keys == [i \in DOMAIN page |-> page[i].key]
<1>5. /\ rows \in SUBSET Keys /\ IsFiniteSet(rows)
      /\ DOMAIN page = 1 .. n /\ Len(page) = n /\ (page = <<>> <=> n = 0)
      /\ \A i \in 1 .. n : page[i].key = InKeyOrder(rows)[i]
  BY <1>3, <1>4, PageMeaning
<1>6. /\ Cardinality(rows) \in Nat
      /\ InKeyOrder(rows) \in [1 .. Cardinality(rows) -> rows]
      /\ \A i, j \in 1 .. Cardinality(rows) : i < j => KeyLess(InKeyOrder(rows)[i], InKeyOrder(rows)[j])
      /\ \A k \in rows : \E i \in 1 .. Cardinality(rows) : InKeyOrder(rows)[i] = k
  BY <1>5, Ordered
<1>7. n \in Nat /\ n <= Cardinality(rows) /\ (n < limit => n = Cardinality(rows))
  BY <1>3, <1>6 DEF AtMost
<1>9. \A i \in 1 .. n : i \in 1 .. Cardinality(rows) /\ keys[i] = InKeyOrder(rows)[i] /\ keys[i] \in rows
  BY <1>5, <1>6, <1>7
<1>10. keys = [i \in 1 .. n |-> keys[i]]
  BY <1>5
<1>11. /\ reader' = [reader EXCEPT !.seen = seen \o keys,
                                   !.after = IF page = <<>> THEN after ELSE {Last(keys)},
                                   !.done = Len(page) < limit]
       /\ reader.done = FALSE
  BY <1>1 DEF NextPage, Reading
<1> HIDE DEF keys
<1>12. keys \in Seq(Keys) /\ Len(keys) = n /\ DOMAIN keys = 1 .. n
  <2>1. keys \in [1 .. n -> Keys]
    BY <1>5, <1>9, <1>10
  <2> QED
    BY <1>7, <2>1
<1>13. Increasing(keys)
  BY <1>6, <1>9, <1>12 DEF Increasing
<1>14. \A k \in rows : \A a \in after : KeyLess(a, k)
  BY DEF Ahead
<1>15. /\ Increasing(seen)
       /\ after = IF seen = <<>> THEN {} ELSE {seen[Len(seen)]}
       /\ \A k \in reader.stable : k \in DOMAIN projection_entries[p] /\ IsPrefix(prefix, k)
       /\ \A k \in reader.stable : (\E i \in DOMAIN seen : seen[i] = k) \/ \A a \in after : KeyLess(a, k)
  BY <1>1 DEF ReadingOK
<1>16. seen # <<>> => \A j \in DOMAIN keys : KeyLess(seen[Len(seen)], keys[j])
  BY <1>9, <1>12, <1>14, <1>15
<1> PICK all, m : all = seen \o keys /\ m = Len(seen)
  OBVIOUS
<1>17. /\ all \in Seq(Keys) /\ Len(all) = m + n /\ Increasing(all) /\ m \in Nat
       /\ \A i \in DOMAIN seen : i \in DOMAIN all /\ all[i] = seen[i]
       /\ \A j \in 1 .. n : m + j \in DOMAIN all /\ all[m + j] = keys[j]
  <2>1. /\ seen \o keys \in Seq(Keys)
        /\ Len(seen \o keys) = Len(seen) + Len(keys)
        /\ Increasing(seen \o keys)
        /\ \A i \in DOMAIN seen : i \in DOMAIN (seen \o keys) /\ (seen \o keys)[i] = seen[i]
        /\ \A j \in DOMAIN keys : /\ Len(seen) + j \in DOMAIN (seen \o keys)
                                  /\ (seen \o keys)[Len(seen) + j] = keys[j]
    BY <1>2, <1>12, <1>13, <1>15, <1>16, Continued
  <2>2. m \in Nat
    BY <1>2
  <2> QED
    BY <1>12, <2>1, <2>2
<1>18. /\ reader'.active = reader.active /\ reader'.projection = p /\ reader'.prefix = prefix
       /\ reader'.limit = limit /\ reader'.stable = reader.stable
       /\ reader'.seen = all
       /\ reader'.after = IF n = 0 THEN after ELSE {keys[n]}
       /\ reader'.done = (n < limit)
  BY <1>1, <1>5, <1>11, <1>12 DEF Reading, Last
<1>19. reader' \in Reading
  <2>1. n # 0 => keys[n] \in Keys
    BY <1>5, <1>7, <1>9
  <2>2. (IF page = <<>> THEN after ELSE {Last(keys)}) \in SUBSET Keys
    BY <1>2, <1>5, <1>12, <2>1 DEF Last
  <2>3. seen \o keys \in Seq(Keys)
    BY <1>17
  <2>4. (Len(page) < limit) \in BOOLEAN
    OBVIOUS
  <2> QED
    BY <1>1, <1>11, <2>2, <2>3, <2>4 DEF Reading
<1>20. reader'.after = IF all = <<>> THEN {} ELSE {all[Len(all)]}
  <2>1. CASE n = 0
    <3>1. m = 0 <=> seen = <<>>
      BY <1>2
    <3>2. Len(all) = m /\ (all = <<>> <=> m = 0)
      BY <1>17, <2>1
    <3>3. m # 0 => all[m] = seen[m]
      BY <1>2, <1>17
    <3> QED
      BY <1>15, <1>18, <2>1, <3>1, <3>2, <3>3
  <2>2. CASE n # 0
    <3>1. n \in 1 .. n
      BY <1>7, <2>2
    <3>2. all[Len(all)] = keys[n] /\ Len(all) # 0
      BY <1>17, <3>1
    <3>3. all # <<>>
      BY <3>2
    <3> QED
      BY <1>18, <2>2, <3>2, <3>3
  <2> QED
    BY <2>1, <2>2
<1>21. \A k \in reader.stable :
          \/ \E i \in DOMAIN all : all[i] = k
          \/ /\ \A a \in reader'.after : KeyLess(a, k)
             /\ ~(n < limit)
  <2> TAKE k \in reader.stable
  <2>1. CASE \E i \in DOMAIN seen : seen[i] = k
    BY <1>17, <2>1
  <2>2. CASE \A a \in after : KeyLess(a, k)
    <3>1. k \in rows
      BY <1>15, <2>2 DEF Ahead, KeysWithPrefix
    <3>2. PICK i \in 1 .. Cardinality(rows) : InKeyOrder(rows)[i] = k
      BY <1>6, <3>1
    <3>3. CASE i \in 1 .. n
      <4>1. keys[i] = k
        BY <1>9, <3>2, <3>3
      <4> QED
        BY <1>17, <3>3, <4>1
    <3>4. CASE i \notin 1 .. n
      <4>1. n < i /\ ~(n < limit)
        BY <1>6, <1>7, <3>4
      <4>2. n # 0 => KeyLess(keys[n], k)
        <5> HAVE n # 0
        <5>1. n \in 1 .. n
          BY <1>7
        <5>2. n \in 1 .. Cardinality(rows) /\ keys[n] = InKeyOrder(rows)[n]
          BY <1>9, <5>1
        <5> QED
          BY <1>6, <3>2, <4>1, <5>2
      <4> QED
        BY <1>18, <2>2, <4>1, <4>2
    <3> QED
      BY <3>3, <3>4
  <2> QED
    BY <1>15, <2>1, <2>2
<1>22. reader'.done => \A k \in reader'.stable : \E i \in DOMAIN reader'.seen : reader'.seen[i] = k
  <2> HAVE reader'.done
  <2>1. n < limit
    BY <1>18, Zenon
  <2> QED
    BY <1>18, <1>21, <2>1
<1>23. \A k \in reader'.stable :
          (\E i \in DOMAIN reader'.seen : reader'.seen[i] = k) \/ \A a \in reader'.after : KeyLess(a, k)
  BY <1>18, <1>21
<1>24. \A k \in reader'.stable :
          k \in DOMAIN projection_entries[reader'.projection] /\ IsPrefix(reader'.prefix, k)
  BY <1>15, <1>18
<1>25. Increasing(reader'.seen)
  BY <1>17, <1>18
<1>26. reader'.after = IF reader'.seen = <<>> THEN {} ELSE {reader'.seen[Len(reader'.seen)]}
  BY <1>18, <1>20
<1> QED
  BY <1>19, <1>22, <1>23, <1>24, <1>25, <1>26 DEF ReadingOK

-----------------------------------------------------------------------------
(* Patches *)

\* What the four mutations do to a table, and the keys they name.
LEMMA PutDoes ==
    ASSUME NEW entries, NEW m, m.kind = "Put"
    PROVE  /\ KeysOf(m) = {m.key} /\ ~IsBoundary(m)
           /\ ApplyMutation(entries, m) = PutEntry(entries, m.key, m.value)
BY ZenonT(20) DEF KeysOf, ApplyMutation, IsBoundary

LEMMA DeleteDoes ==
    ASSUME NEW entries, NEW m, m.kind = "Delete"
    PROVE  /\ KeysOf(m) = {m.key} /\ ~IsBoundary(m)
           /\ ApplyMutation(entries, m) = [k \in DOMAIN entries \ {m.key} |-> entries[k]]
BY ZenonT(20) DEF KeysOf, ApplyMutation, IsBoundary

LEMMA ClearDoes ==
    ASSUME NEW entries, NEW m, m.kind = "Clear"
    PROVE  /\ KeysOf(m) = {} /\ IsBoundary(m)
           /\ ApplyMutation(entries, m) = NoEntries
BY ZenonT(20) DEF KeysOf, ApplyMutation, IsBoundary

LEMMA ReplaceDoes ==
    ASSUME NEW entries, NEW m, m.kind = "Replace"
    PROVE  /\ KeysOf(m) = {m.entries[i].key : i \in DOMAIN m.entries} /\ IsBoundary(m)
           /\ ApplyMutation(entries, m) = TableOf(m.entries)
BY ZenonT(20) DEF KeysOf, ApplyMutation, IsBoundary

\* A mutation turns a table into a table.
LEMMA AppliedIsTable ==
    ASSUME NEW entries, IsTable(entries), NEW m, IsMutation(m)
    PROVE  IsTable(ApplyMutation(entries, m))
<1>1. CASE m.kind = "Put"
  <2>1. ApplyMutation(entries, m) = PutEntry(entries, m.key, m.value)
    BY <1>1, PutDoes
  <2>2. DOMAIN ApplyMutation(entries, m) = DOMAIN entries \cup {m.key}
    BY <2>1 DEF PutEntry
  <2>3. m.key \in Keys
    BY <1>1 DEF IsMutation
  <2>4. IsFiniteSet(DOMAIN entries \cup {m.key})
    BY FS_AddElement DEF IsTable
  <2> QED
    BY <2>2, <2>3, <2>4 DEF IsTable
<1>2. CASE m.kind = "Delete"
  <2>1. DOMAIN ApplyMutation(entries, m) = DOMAIN entries \ {m.key}
    <3>1. ApplyMutation(entries, m) = [k \in DOMAIN entries \ {m.key} |-> entries[k]]
      BY <1>2, DeleteDoes
    <3> QED
      BY <3>1
  <2>2. IsFiniteSet(DOMAIN entries \ {m.key})
    BY FS_RemoveElement DEF IsTable
  <2> QED
    BY <2>1, <2>2 DEF IsTable
<1>3. CASE m.kind = "Clear"
  <2>1. DOMAIN NoEntries = {}
    BY DEF NoEntries
  <2> QED
    BY <1>3, <2>1, ClearDoes, FS_EmptySet DEF IsTable
<1>4. CASE m.kind = "Replace"
  <2> PICK rows, n : rows = m.entries /\ n = Len(rows)
    OBVIOUS
  <2>1. rows \in Seq({rows[i] : i \in DOMAIN rows}) /\ \A i \in DOMAIN rows : rows[i].key \in Keys
    BY <1>4 DEF IsMutation
  <2>2. n \in Nat /\ DOMAIN rows = 1 .. n
    BY <2>1
  <2> DEFINE named == {rows[i].key : i \in DOMAIN rows}
             f == [i \in DOMAIN rows |-> rows[i].key]
  <2>3. DOMAIN TableOf(rows) = named /\ named \in SUBSET Keys
    BY <2>1 DEF TableOf
  <2>4. f \in Surjection(DOMAIN rows, named)
    BY DEF Surjection
  <2>5. IsFiniteSet(DOMAIN rows)
    BY <2>2, FS_Interval
  <2>6. IsFiniteSet(named)
    BY <2>4, <2>5, FS_Surjection
  <2> QED
    BY <1>4, <2>3, <2>6, ReplaceDoes DEF IsTable
<1> QED
  BY <1>1, <1>2, <1>3, <1>4 DEF IsMutation

\* A Put or Delete says what it does, and touches no other key.
LEMMA AppliedToOneKey ==
    ASSUME NEW entries, NEW m, IsMutation(m), ~IsBoundary(m)
    PROVE  /\ m.kind \in {"Put", "Delete"} /\ KeysOf(m) = {m.key}
           /\ Holds(m, ApplyMutation(entries, m))
           /\ DOMAIN ApplyMutation(entries, m) \ {m.key} = DOMAIN entries \ {m.key}
           /\ \A k \in DOMAIN entries \ {m.key} : ApplyMutation(entries, m)[k] = entries[k]
<1>1. CASE m.kind = "Put"
  <2>1. ApplyMutation(entries, m)
          = [k \in DOMAIN entries \cup {m.key} |-> IF k = m.key THEN m.value ELSE entries[k]]
    <3>1. ApplyMutation(entries, m) = PutEntry(entries, m.key, m.value)
      BY <1>1, PutDoes
    <3> QED
      BY <3>1 DEF PutEntry
  <2> QED
    BY <1>1, <2>1, PutDoes DEF Holds
<1>2. CASE m.kind = "Delete"
  <2>1. ApplyMutation(entries, m) = [k \in DOMAIN entries \ {m.key} |-> entries[k]]
    BY <1>2, DeleteDoes
  <2> QED
    BY <1>2, <2>1, DeleteDoes DEF Holds
<1>3. m.kind \in {"Put", "Delete"}
  BY DEF IsMutation, IsBoundary
<1> QED
  BY <1>1, <1>2, <1>3

\* The keys of a Replace differ.
KeysDiffer(m) ==
    m.kind = "Replace" =>
        \A i, j \in DOMAIN m.entries : i < j => m.entries[i].key # m.entries[j].key

\* A Clear leaves nothing, a Replace whose keys differ leaves what it says.
LEMMA AppliedBoundary ==
    ASSUME NEW entries, NEW m, IsMutation(m), IsBoundary(m), KeysDiffer(m)
    PROVE  /\ Holds(m, ApplyMutation(entries, m))
           /\ DOMAIN ApplyMutation(entries, m) = KeysOf(m)
<1>1. CASE m.kind = "Clear"
  BY <1>1, ClearDoes DEF Holds, NoEntries
<1>2. CASE m.kind = "Replace"
  <2> PICK rows, n : rows = m.entries /\ n = Len(rows)
    OBVIOUS
  <2>1. n \in Nat /\ DOMAIN rows = 1 .. n
    BY <1>2 DEF IsMutation
  <2>2. \A i, j \in DOMAIN rows : rows[i].key = rows[j].key => i = j
    <3> TAKE i, j \in DOMAIN rows
    <3> HAVE rows[i].key = rows[j].key
    <3>1. ~(i < j) /\ ~(j < i)
      BY <1>2 DEF KeysDiffer
    <3> QED
      BY <2>1, <3>1
  <2>3. /\ DOMAIN TableOf(rows) = {rows[i].key : i \in DOMAIN rows}
        /\ \A i \in DOMAIN rows :
              TableOf(rows)[rows[i].key]
                = rows[CHOOSE j \in DOMAIN rows : rows[j].key = rows[i].key].value
    BY DEF TableOf
  <2>4. \A i \in DOMAIN rows : (CHOOSE j \in DOMAIN rows : rows[j].key = rows[i].key) = i
    BY <2>2
  <2>5. ASSUME NEW i \in DOMAIN rows
        PROVE  /\ rows[i].key \in DOMAIN TableOf(rows)
               /\ TableOf(rows)[rows[i].key] = rows[i].value
    <3>1. TableOf(rows)[rows[i].key]
            = rows[CHOOSE j \in DOMAIN rows : rows[j].key = rows[i].key].value
      BY <2>3
    <3>2. rows[i].key \in DOMAIN TableOf(rows)
      BY <2>3
    <3> QED
      BY <2>4, <3>1, <3>2
  <2>6. /\ ApplyMutation(entries, m) = TableOf(rows)
        /\ KeysOf(m) = {rows[i].key : i \in DOMAIN rows}
    BY <1>2, ReplaceDoes
  <2> PICK table : table = TableOf(rows)
    OBVIOUS
  <2>7. \A i \in DOMAIN m.entries : /\ m.entries[i].key \in DOMAIN table
                                    /\ table[m.entries[i].key] = m.entries[i].value
    BY <2>5
  <2>8. Holds(m, table)
    BY <1>2, <2>7 DEF Holds
  <2> QED
    BY <2>3, <2>6, <2>8
<1> QED
  BY <1>1, <1>2 DEF IsBoundary

\* One turn of the loop over the mutations.
Turn(f, entries, mutations, n) ==
    IF n = 0 THEN entries ELSE ApplyMutation(f[n - 1], mutations[n])

IsLoop(f, entries, mutations, n) == f = [i \in 0 .. n |-> Turn(f, entries, mutations, i)]

\* The loop has an outcome after every turn.
LEMMA TablesExist ==
    ASSUME NEW entries, NEW mutations, NEW n \in Nat
    PROVE  \E f : IsLoop(f, entries, mutations, n)
<1> USE DEF IsLoop
<1> DEFINE Good(k) == \E f : f = [i \in 0 .. k |-> Turn(f, entries, mutations, i)]
           bad == {k \in Nat : ~Good(k)}
<1> SUFFICES ASSUME bad # {} PROVE FALSE
  OBVIOUS
<1>1. PICK m \in bad : \A k \in bad : m <= k
  <2>1. bad \in SUBSET Nat
    OBVIOUS
  <2> HIDE DEF bad
  <2> QED
    BY <2>1, LeastOf
<1>2. m \in Nat /\ ~Good(m)
  OBVIOUS
<1>3. CASE m = 0
  <2> DEFINE f == [i \in 0 .. 0 |-> entries]
  <2>1. f = [i \in 0 .. 0 |-> Turn(f, entries, mutations, i)]
    BY DEF Turn
  <2> QED
    BY <1>2, <1>3, <2>1
<1>4. CASE m # 0
  <2>1. m - 1 \in Nat /\ ~(m <= m - 1)
    BY <1>2, <1>4
  <2>2. Good(m - 1)
    BY <1>1, <2>1
  <2>3. PICK g : g = [i \in 0 .. m - 1 |-> Turn(g, entries, mutations, i)]
    BY <2>2
  <2> DEFINE f == [i \in 0 .. m |-> IF i < m THEN g[i] ELSE Turn(g, entries, mutations, m)]
  <2>4. \A i \in 0 .. m : f[i] = Turn(f, entries, mutations, i)
    <3> TAKE i \in 0 .. m
    <3>1. CASE i = 0
      BY <2>1, <2>3, <3>1, <1>4 DEF Turn
    <3>2. CASE i # 0 /\ i < m
      <4>1. i \in 0 .. m - 1 /\ i - 1 \in 0 .. m /\ i - 1 < m
        BY <3>2, <1>2
      <4>2. f[i] = g[i] /\ f[i - 1] = g[i - 1]
        BY <3>2, <4>1
      <4>3. g[i] = Turn(g, entries, mutations, i)
        BY <2>3, <4>1
      <4> QED
        BY <3>2, <4>2, <4>3 DEF Turn
    <3>3. CASE i = m
      <4>1. f[m] = Turn(g, entries, mutations, m) /\ f[m - 1] = g[m - 1]
        BY <1>2, <1>4
      <4> QED
        BY <1>4, <3>3, <4>1 DEF Turn
    <3> QED
      BY <1>2, <3>1, <3>2, <3>3
  <2>5. f = [i \in 0 .. m |-> f[i]]
    OBVIOUS
  <2>6. f = [i \in 0 .. m |-> Turn(f, entries, mutations, i)]
    <3> HIDE DEF f
    <3> QED
      BY <2>4, <2>5
  <2> QED
    BY <1>2, <2>6
<1> QED
  BY <1>3, <1>4

\* The tables of TablesOf, one mutation after the other.
LEMMA TablesStep ==
    ASSUME NEW entries, NEW S, NEW mutations \in Seq(S)
    PROVE  /\ TablesOf(entries, mutations)[0] = entries
           /\ \A n \in 1 .. Len(mutations) :
                 TablesOf(entries, mutations)[n]
                   = ApplyMutation(TablesOf(entries, mutations)[n - 1], mutations[n])
<1>1. Len(mutations) \in Nat
  OBVIOUS
<1>2. \E f : IsLoop(f, entries, mutations, Len(mutations))
  BY <1>1, TablesExist
<1>3. TablesOf(entries, mutations)
        = [i \in 0 .. Len(mutations) |-> Turn(TablesOf(entries, mutations), entries, mutations, i)]
  BY <1>2 DEF TablesOf, Turn, IsLoop
<1>4. \A i \in 0 .. Len(mutations) :
        TablesOf(entries, mutations)[i] = Turn(TablesOf(entries, mutations), entries, mutations, i)
  BY <1>3
<1> QED
  BY <1>1, <1>4 DEF Turn

\* They are tables.
LEMMA TablesType ==
    ASSUME NEW entries, IsTable(entries), NEW S, NEW mutations \in Seq(S),
           \A i \in 1 .. Len(mutations) : IsMutation(mutations[i]),
           NEW n \in 0 .. Len(mutations)
    PROVE  IsTable(TablesOf(entries, mutations)[n])
<1> PICK tables, l : tables = TablesOf(entries, mutations) /\ l = Len(mutations)
  OBVIOUS
<1>0. l \in Nat
  OBVIOUS
<1> DEFINE bad == {k \in 0 .. l : ~IsTable(tables[k])}
<1> SUFFICES ASSUME bad # {} PROVE FALSE
  OBVIOUS
<1>1. PICK m \in bad : \A k \in bad : m <= k
  <2>1. bad \in SUBSET Nat
    OBVIOUS
  <2> HIDE DEF bad
  <2> QED
    BY <2>1, LeastOf
<1>2. m \in 0 .. l /\ ~IsTable(tables[m])
  OBVIOUS
<1>3. m # 0
  BY <1>2, TablesStep
<1>4. m - 1 \in 0 .. l /\ ~(m <= m - 1) /\ m \in 1 .. l
  BY <1>0, <1>2, <1>3
<1>5. IsTable(tables[m - 1])
  BY <1>1, <1>4
<1>6. tables[m] = ApplyMutation(tables[m - 1], mutations[m]) /\ IsMutation(mutations[m])
  BY <1>4, TablesStep
<1> QED
  BY <1>2, <1>5, <1>6, AppliedIsTable

\* The keys named by the mutations from first to n.
NamedBy(mutations, first, n) == UNION {KeysOf(mutations[i]) : i \in first .. n}

\* The table after n mutations says what those from first on say; it has no other
\* key than the old ones, and maps them as before.
SoFar(before, old, mutations, first, n, table) ==
    /\ \A i \in first .. n : Holds(mutations[i], table)
    /\ DOMAIN table \ NamedBy(mutations, first, n) = old \ NamedBy(mutations, first, n)
    /\ \A k \in DOMAIN table \ NamedBy(mutations, first, n) : table[k] = before[k]

\* What a mutation says stays true of a table that differs in no key it names.
LEMMA HoldsStill ==
    ASSUME NEW m, IsMutation(m), NEW table, NEW after, Holds(m, table),
           \A k \in KeysOf(m) : /\ k \in DOMAIN after <=> k \in DOMAIN table
                                /\ k \in DOMAIN table => after[k] = table[k]
    PROVE  Holds(m, after)
<1>1. CASE m.kind = "Put"
  <2>1. m.key \in KeysOf(m)
    BY <1>1, PutDoes
  <2> QED
    BY <1>1, <2>1 DEF Holds
<1>2. CASE m.kind = "Delete"
  <2>1. m.key \in KeysOf(m)
    BY <1>2, DeleteDoes
  <2> QED
    BY <1>2, <2>1 DEF Holds
<1>3. CASE m.kind = "Clear"
  BY <1>3 DEF Holds
<1>4. CASE m.kind = "Replace"
  <2>1. KeysOf(m) = {m.entries[i].key : i \in DOMAIN m.entries}
    BY <1>4, ReplaceDoes
  <2>2. \A i \in DOMAIN m.entries : m.entries[i].key \in KeysOf(m)
    BY <2>1
  <2>3. \A i \in DOMAIN m.entries : /\ m.entries[i].key \in DOMAIN table
                                    /\ table[m.entries[i].key] = m.entries[i].value
    BY <1>4 DEF Holds
  <2>4. \A i \in DOMAIN m.entries : /\ m.entries[i].key \in DOMAIN after
                                    /\ after[m.entries[i].key] = m.entries[i].value
    BY <2>2, <2>3
  <2> QED
    BY <1>4, <2>4 DEF Holds
<1> QED
  BY <1>1, <1>2, <1>3, <1>4 DEF IsMutation

\* The next Put or Delete adds to what the table says and takes nothing back,
\* because validate has accepted the patch.
LEMMA PatchGoesOn ==
    ASSUME NEW S, NEW mutations \in Seq(S),
           \A i \in 1 .. Len(mutations) : IsMutation(mutations[i]),
           ~Contradictory(mutations),
           NEW first \in Nat \ {0}, NEW n \in Nat, first <= n + 1, n + 1 <= Len(mutations),
           \A b \in first + 1 .. n : ~IsBoundary(mutations[b]),
           ~IsBoundary(mutations[n + 1]),
           NEW before, NEW old, NEW table,
           SoFar(before, old, mutations, first, n, table)
    PROVE  SoFar(before, old, mutations, first, n + 1, ApplyMutation(table, mutations[n + 1]))
<1> PICK m, key, after, named :
        /\ m = mutations[n + 1] /\ key = m.key /\ after = ApplyMutation(table, m)
        /\ named = NamedBy(mutations, first, n)
  OBVIOUS
<1>1. Len(mutations) \in Nat /\ DOMAIN mutations = 1 .. Len(mutations)
  OBVIOUS
<1>2. n + 1 \in 1 .. Len(mutations) /\ \A i \in first .. n : i \in 1 .. Len(mutations) /\ i < n + 1
  BY <1>1
<1>3. IsMutation(m) /\ ~IsBoundary(m)
  BY <1>2
<1>4. /\ KeysOf(m) = {key} /\ Holds(m, after)
      /\ DOMAIN after \ {key} = DOMAIN table \ {key}
      /\ \A k \in DOMAIN table \ {key} : after[k] = table[k]
  BY <1>3, AppliedToOneKey
<1>5. \A i \in first .. n : key \notin KeysOf(mutations[i])
  <2> SUFFICES ASSUME NEW i \in first .. n, key \in KeysOf(mutations[i]) PROVE FALSE
    OBVIOUS
  <2>1. i \in DOMAIN mutations /\ n + 1 \in DOMAIN mutations /\ i < n + 1
    BY <1>1, <1>2
  <2>2. \A b \in i + 1 .. n + 1 - 1 : ~IsBoundary(mutations[b])
    <3>1. \A b \in i + 1 .. n + 1 - 1 : b \in first + 1 .. n
      OBVIOUS
    <3> QED
      BY <3>1
  <2>3. KeysOf(mutations[i]) \cap KeysOf(mutations[n + 1]) # {}
    BY <1>4
  <2> QED
    BY <1>3, <2>1, <2>2, <2>3 DEF Contradictory
<1>6. \A i \in first .. n : Holds(mutations[i], after)
  <2> TAKE i \in first .. n
  <2>1. IsMutation(mutations[i]) /\ Holds(mutations[i], table)
    BY <1>2 DEF SoFar
  <2>2. \A k \in KeysOf(mutations[i]) : k # key
    BY <1>5
  <2>3. \A k \in KeysOf(mutations[i]) : /\ k \in DOMAIN after <=> k \in DOMAIN table
                                        /\ k \in DOMAIN table => after[k] = table[k]
    BY <1>4, <2>2
  <2> QED
    BY <2>1, <2>3, HoldsStill
<1>7. \A i \in first .. n + 1 : Holds(mutations[i], after)
  <2> TAKE i \in first .. n + 1
  <2>1. i \in first .. n \/ i = n + 1
    OBVIOUS
  <2> QED
    BY <1>4, <1>6, <2>1
<1>8. NamedBy(mutations, first, n + 1) = named \cup {key}
  <2>1. \A i \in first .. n + 1 : i \in first .. n \/ i = n + 1
    OBVIOUS
  <2>2. first .. n \subseteq first .. n + 1 /\ n + 1 \in first .. n + 1
    OBVIOUS
  <2>3. KeysOf(mutations[n + 1]) = {key}
    BY <1>4
  <2>4. \A k : k \in named <=> \E i \in first .. n : k \in KeysOf(mutations[i])
    BY DEF NamedBy
  <2>5. \A k : k \in NamedBy(mutations, first, n + 1) <=> \E i \in first .. n + 1 : k \in KeysOf(mutations[i])
    BY DEF NamedBy
  <2>6. \A k : k \in NamedBy(mutations, first, n + 1) <=> k \in named \cup {key}
    BY <2>1, <2>2, <2>3, <2>4, <2>5
  <2> QED
    BY <2>6
<1>9. DOMAIN table \ named = old \ named /\ \A k \in DOMAIN table \ named : table[k] = before[k]
  BY DEF SoFar
<1>10. DOMAIN after \ (named \cup {key}) = old \ (named \cup {key})
  BY <1>4, <1>9
<1>11. \A k \in DOMAIN after \ (named \cup {key}) : after[k] = before[k]
  BY <1>4, <1>9
<1> QED
  BY <1>7, <1>8, <1>10, <1>11 DEF SoFar

\* From some turn on there are only Puts and Deletes: what holds then holds at
\* the end.
LEMMA PatchEnds ==
    ASSUME NEW S, NEW mutations \in Seq(S),
           \A i \in 1 .. Len(mutations) : IsMutation(mutations[i]),
           ~Contradictory(mutations),
           NEW before, NEW old,
           NEW first \in Nat \ {0}, NEW start \in 0 .. Len(mutations), first <= start + 1,
           \A b \in 1 .. Len(mutations) : first < b => ~IsBoundary(mutations[b]),
           first <= start \/ \A b \in 1 .. Len(mutations) : ~IsBoundary(mutations[b]),
           SoFar(before, old, mutations, first, start, TablesOf(before, mutations)[start])
    PROVE  SoFar(before, old, mutations, first, Len(mutations), Patched(before, mutations))
<1> PICK tables, l : tables = TablesOf(before, mutations) /\ l = Len(mutations)
  OBVIOUS
<1>0. l \in Nat
  OBVIOUS
<1> DEFINE bad == {k \in start .. l : ~SoFar(before, old, mutations, first, k, tables[k])}
<1> SUFFICES ASSUME bad # {} PROVE FALSE
  <2>1. l \in start .. l
    BY <1>0
  <2> QED
    BY <2>1 DEF Patched
<1>1. PICK m \in bad : \A k \in bad : m <= k
  <2>1. bad \in SUBSET Nat
    BY <1>0
  <2> HIDE DEF bad
  <2> QED
    BY <2>1, LeastOf
<1>2. m \in start .. l /\ ~SoFar(before, old, mutations, first, m, tables[m])
  OBVIOUS
<1>3. m # start
  BY <1>2
<1> PICK n : n = m - 1
  OBVIOUS
<1>4. n \in start .. l /\ n \in Nat /\ m = n + 1 /\ n + 1 \in 1 .. l /\ ~(m <= n)
      /\ first <= n + 1 /\ n + 1 <= l
  BY <1>0, <1>2, <1>3
<1>5. SoFar(before, old, mutations, first, n, tables[n])
  BY <1>1, <1>4
<1>6. tables[n + 1] = ApplyMutation(tables[n], mutations[n + 1])
  <2>1. \A k \in 1 .. Len(mutations) :
          TablesOf(before, mutations)[k] = ApplyMutation(TablesOf(before, mutations)[k - 1], mutations[k])
    BY TablesStep
  <2>2. n + 1 - 1 = n
    BY <1>4
  <2> QED
    BY <1>4, <2>1, <2>2
<1>7. ~IsBoundary(mutations[n + 1])
  <2>1. first < n + 1 \/ \A b \in 1 .. Len(mutations) : ~IsBoundary(mutations[b])
    BY <1>4
  <2> QED
    BY <1>4, <2>1
<1>8. \A b \in first + 1 .. n : ~IsBoundary(mutations[b])
  <2>1. \A b \in first + 1 .. n : b \in 1 .. l /\ first < b
    BY <1>4
  <2> QED
    BY <2>1
<1>9. SoFar(before, old, mutations, first, n + 1, ApplyMutation(tables[n], mutations[n + 1]))
  BY <1>4, <1>5, <1>7, <1>8, PatchGoesOn
<1> QED
  BY <1>2, <1>4, <1>6, <1>9

\* A nonempty set of numbers up to l has a greatest element.
LEMMA GreatestOf ==
    ASSUME NEW l \in Nat, NEW S \in SUBSET (1 .. l), S # {}
    PROVE  Max(S) \in S /\ \A j \in S : j <= Max(S)
<1> DEFINE back == {l - j : j \in S}
<1>1. back \in SUBSET Nat /\ back # {}
  <2>1. \A j \in S : j \in 1 .. l
    OBVIOUS
  <2>2. \A j \in S : l - j \in Nat
    BY <2>1
  <2> QED
    BY <2>2
<1>2. PICK m \in back : \A n \in back : m <= n
  <2> HIDE DEF back
  <2> QED
    BY <1>1, LeastOf
<1>3. PICK i \in S : m = l - i
  BY <1>2
<1>4. \A j \in S : l - i <= l - j
  BY <1>2, <1>3
<1>5. \A j \in S : i >= j
  <2> TAKE j \in S
  <2>1. j \in 1 .. l /\ i \in 1 .. l /\ l - i <= l - j
    BY <1>4
  <2> QED
    BY <2>1
<1>6. Max(S) \in S /\ \A j \in S : Max(S) >= j
  BY <1>5 DEF Max
<1>7. \A j \in S : j \in Nat
  OBVIOUS
<1> QED
  BY <1>6, <1>7

\* An accepted patch means what its mutations say.
LEMMA PatchMeans ==
    ASSUME NEW mutations \in Patches, ~Contradictory(mutations), NEW before,
           NEW boundaries, boundaries = {i \in DOMAIN mutations : IsBoundary(mutations[i])},
           NEW first, first = IF boundaries = {} THEN 1 ELSE Max(boundaries),
           NEW after, after = Patched(before, mutations)
    PROVE  SoFar(before, IF boundaries = {} THEN DOMAIN before ELSE {},
                 mutations, first, Len(mutations), after)
<1> PICK S, l : S = {mutations[i] : i \in DOMAIN mutations} /\ l = Len(mutations)
  OBVIOUS
<1>1. /\ mutations \in Seq(S) /\ l \in Nat /\ DOMAIN mutations = 1 .. l
      /\ \A i \in 1 .. l : IsMutation(mutations[i])
  <2>1. mutations \in Seq(S) /\ \A i \in DOMAIN mutations : IsMutation(mutations[i])
    BY ScanAssumption
  <2>2. l \in Nat /\ DOMAIN mutations = 1 .. l
    BY <2>1
  <2> QED
    BY <2>1, <2>2
<1>2. CASE boundaries = {}
  <2>1. \A b \in 1 .. l : ~IsBoundary(mutations[b])
    BY <1>1, <1>2
  <2>2. NamedBy(mutations, 1, 0) = {}
    BY DEF NamedBy
  <2>3. SoFar(before, DOMAIN before, mutations, 1, 0, before)
    BY <2>2 DEF SoFar
  <2>4. TablesOf(before, mutations)[0] = before
    BY <1>1, TablesStep
  <2>5. 0 \in 0 .. l /\ 1 \in Nat \ {0} /\ 1 <= 0 + 1
    BY <1>1
  <2>6. SoFar(before, DOMAIN before, mutations, 1, l, Patched(before, mutations))
    BY <1>1, <2>1, <2>3, <2>4, <2>5, PatchEnds
  <2> QED
    BY <1>2, <2>6
<1>3. CASE boundaries # {}
  <2>1. boundaries \in SUBSET (1 .. l)
    BY <1>1
  <2>2. first \in boundaries /\ \A j \in boundaries : j <= first
    BY <1>1, <1>3, <2>1, GreatestOf
  <2>3. first \in 1 .. l /\ IsBoundary(mutations[first])
    BY <2>1, <2>2
  <2>4. first \in Nat \ {0} /\ first \in 0 .. l /\ first - 1 \in 0 .. l /\ first <= first + 1
        /\ first <= first
    BY <1>1, <2>3
  <2>5. \A b \in 1 .. l : first < b => ~IsBoundary(mutations[b])
    <3> SUFFICES ASSUME NEW b \in 1 .. l, first < b, IsBoundary(mutations[b]) PROVE FALSE
      OBVIOUS
    <3>1. b \in boundaries
      BY <1>1
    <3>2. b <= first
      BY <2>2, <3>1
    <3> QED
      BY <2>4, <3>2
  <2> PICK m, table : m = mutations[first] /\ table = TablesOf(before, mutations)[first]
    OBVIOUS
  <2> PICK prior : prior = TablesOf(before, mutations)[first - 1]
    OBVIOUS
  <2>6. table = ApplyMutation(prior, m)
    <3>1. \A n \in 1 .. Len(mutations) :
            TablesOf(before, mutations)[n]
              = ApplyMutation(TablesOf(before, mutations)[n - 1], mutations[n])
      BY <1>1, TablesStep
    <3> QED
      BY <2>3, <3>1
  <2>7. IsMutation(m) /\ IsBoundary(m)
    BY <1>1, <2>3
  <2>8. KeysDiffer(m)
    BY <1>1, <2>3 DEF Contradictory, KeysDiffer
  <2>9. Holds(m, table) /\ DOMAIN table = KeysOf(m)
    BY <2>6, <2>7, <2>8, AppliedBoundary
  <2>10. \A i \in first .. first : i = first
    BY <2>4
  <2>11. NamedBy(mutations, first, first) = KeysOf(m)
    <3>1. first \in first .. first
      BY <2>4
    <3> QED
      BY <2>10, <3>1 DEF NamedBy
  <2>12. SoFar(before, {}, mutations, first, first, table)
    BY <2>9, <2>10, <2>11 DEF SoFar
  <2>13. SoFar(before, {}, mutations, first, l, Patched(before, mutations))
    BY <1>1, <2>4, <2>5, <2>12, PatchEnds
  <2> QED
    BY <1>3, <2>13
<1> QED
  BY <1>2, <1>3

\* A patch turns a table into a table.
LEMMA PatchedIsTable ==
    ASSUME NEW mutations \in Patches, NEW before, IsTable(before)
    PROVE  IsTable(Patched(before, mutations))
<1> PICK S, l : S = {mutations[i] : i \in DOMAIN mutations} /\ l = Len(mutations)
  OBVIOUS
<1>1. mutations \in Seq(S) /\ \A i \in DOMAIN mutations : IsMutation(mutations[i])
  BY ScanAssumption
<1>2. l \in Nat /\ DOMAIN mutations = 1 .. l /\ l \in 0 .. l
  BY <1>1
<1>3. IsTable(TablesOf(before, mutations)[l])
  BY <1>1, <1>2, TablesType
<1> QED
  BY <1>3 DEF Patched

-----------------------------------------------------------------------------
(* The invariant *)

\* Initially every table is empty and nobody reads.
LEMMA ScanInit == InitScan => ScanInv
<1> SUFFICES ASSUME InitScan PROVE ScanInv
  OBVIOUS
<1>1. DOMAIN NoEntries = {}
  BY DEF NoEntries
<1>2. IsTable(NoEntries)
  BY <1>1, FS_EmptySet DEF IsTable
<1>3. projection_entries = [p \in Projections |-> NoEntries] /\ reader = NoReader
  BY DEF InitScan, InitProjections
<1>4. TablesOK(projection_entries)
  BY <1>2, <1>3 DEF TablesOK
<1> QED
  BY <1>3, <1>4 DEF ScanInv

\* A patch leaves tables, and the reader's stable keys are those it leaves.
LEMMA CommitPatchKeeps ==
    ASSUME ScanInv, NEW projection \in Projections, NEW version, NEW mutations \in Patches,
           CommitPatch(projection, version, mutations)
    PROVE  ScanInv'
<1> PICK tables, tables_ :
        tables = projection_entries /\ tables_ = [tables EXCEPT ![projection] = Patched(@, mutations)]
  OBVIOUS
<1>1. projection_entries' = tables_
  BY DEF CommitPatch, ApplyProjectionPatch
<1>2. TablesOK(tables)
  BY DEF ScanInv
<1>3. IsTable(Patched(tables[projection], mutations))
  BY <1>2, PatchedIsTable DEF TablesOK
<1>4. /\ tables_[projection] = Patched(tables[projection], mutations)
      /\ \A p \in Projections : p # projection => tables_[p] = tables[p]
      /\ tables_ = [p \in Projections |-> tables_[p]]
  BY <1>2 DEF TablesOK
<1>5. TablesOK(tables_)
  <2> SUFFICES ASSUME NEW p \in Projections PROVE IsTable(tables_[p])
    BY <1>4 DEF TablesOK
  <2> QED
    BY <1>2, <1>3, <1>4 DEF TablesOK
<1>6. CASE reader = NoReader
  <2>1. reader' = NoReader
    BY <1>6 DEF CommitPatch, NoReader
  <2> QED
    BY <1>1, <1>5, <2>1 DEF ScanInv
<1>7. CASE ReadingOK(reader, tables)
  <2>1. reader \in Reading
    BY <1>7 DEF ReadingOK
  <2>2. CASE reader.projection = projection
    <3>1. reader' = [reader EXCEPT !.stable = @ \cap DOMAIN tables_[projection]]
      BY <1>1, <2>1, <2>2 DEF CommitPatch, Reading
    <3>2. /\ reader' \in Reading
          /\ reader'.stable = reader.stable \cap DOMAIN tables_[projection]
          /\ reader'.projection = projection /\ reader'.prefix = reader.prefix
          /\ reader'.seen = reader.seen /\ reader'.after = reader.after
          /\ reader'.done = reader.done
      BY <2>1, <2>2, <3>1 DEF Reading
    <3>3. ReadingOK(reader', tables_)
      BY <1>7, <3>2 DEF ReadingOK
    <3> QED
      BY <1>1, <1>5, <3>3 DEF ScanInv
  <2>3. CASE reader.projection # projection
    <3>1. reader' = reader
      BY <2>3 DEF CommitPatch
    <3>2. tables_[reader.projection] = tables[reader.projection]
      BY <1>4, <2>1, <2>3 DEF Reading
    <3>3. ReadingOK(reader', tables_)
      BY <1>7, <3>1, <3>2 DEF ReadingOK
    <3> QED
      BY <1>1, <1>5, <3>3 DEF ScanInv
  <2> QED
    BY <2>2, <2>3
<1> QED
  BY <1>6, <1>7 DEF ScanInv

\* A scan starts with nothing seen and every key with the prefix stable.
LEMMA StartScanKeeps ==
    ASSUME ScanInv, NEW projection \in Projections, NEW prefix \in ScanPrefixes,
           NEW limit \in Limits, StartScan(projection, prefix, limit)
    PROVE  ScanInv'
<1> PICK tables, stable : tables = projection_entries /\ stable = KeysWithPrefix(projection, prefix)
  OBVIOUS
<1>1. projection_entries' = tables /\ TablesOK(tables)
  BY DEF StartScan, projectionVars, ScanInv
<1>2. reader' = [active |-> TRUE, projection |-> projection, prefix |-> prefix,
                 limit |-> limit, after |-> {}, seen |-> <<>>, stable |-> stable, done |-> FALSE]
  BY DEF StartScan
<1>3. \A k \in stable : k \in DOMAIN tables[projection] /\ IsPrefix(prefix, k)
  BY DEF KeysWithPrefix
<1>4. stable \in SUBSET Keys
  BY <1>1, <1>3 DEF TablesOK, IsTable
<1>5. <<>> \in Seq(Keys)
  OBVIOUS
<1>6. reader' \in Reading
  BY <1>2, <1>4, <1>5 DEF Reading
<1>7. Increasing(<<>>)
  BY DEF Increasing
<1>8. ReadingOK(reader', tables)
  BY <1>2, <1>3, <1>6, <1>7 DEF ReadingOK
<1> QED
  BY <1>1, <1>8 DEF ScanInv

\* The state of a projection and its reader.
THEOREM ScansInvariant == ScanSpec => []ScanInv
<1>1. InitScan => ScanInv
  BY ScanInit
<1>2. ScanInv /\ [NextScan]_scanVars => ScanInv'
  <2> SUFFICES ASSUME ScanInv, [NextScan]_scanVars PROVE ScanInv'
    OBVIOUS
  <2>1. CASE \E p \in Projections, v \in 0 .. MaxVersion, mutations \in Patches :
               CommitPatch(p, v, mutations)
    BY <2>1, CommitPatchKeeps
  <2>2. CASE \E p \in Projections, prefix \in ScanPrefixes, limit \in Limits :
               StartScan(p, prefix, limit)
    BY <2>2, StartScanKeeps
  <2>3. CASE NextPage
    <3>1. ReadingOK(reader', projection_entries)
      BY <2>3, NextPageKeeps
    <3>2. projection_entries' = projection_entries
      BY <2>3 DEF NextPage, projectionVars
    <3> QED
      BY <3>1, <3>2 DEF ScanInv
  <2>4. CASE EndScan
    BY <2>4 DEF EndScan, projectionVars, ScanInv
  <2>5. CASE UNCHANGED scanVars
    BY <2>5 DEF scanVars, projectionVars, ScanInv
  <2> QED
    BY <2>1, <2>2, <2>3, <2>4, <2>5 DEF NextScan
<1> QED
  BY <1>1, <1>2, PTL DEF ScanSpec

\* A prefix scan, compiled to a key range, returns exactly the keys that start
\* with the prefix: for every table, every prefix and every largest byte
\* (prefix_upper_bound and the query of scan_projection).
THEOREM PrefixScansAreExact == ScanSpec => []PrefixScanExact
<1>1. ScanInv => PrefixScanExact
  <2> SUFFICES ASSUME ScanInv, NEW p \in Projections, NEW prefix \in ScanPrefixes
               PROVE  LET all == ScanPrefixPage(p, prefix, {}, Cardinality(DOMAIN projection_entries[p]))
                      IN {all[i].key : i \in DOMAIN all} = KeysWithPrefix(p, prefix)
    BY DEF PrefixScanExact
  <2>1. IsTable(projection_entries[p]) /\ prefix \in Keys
    BY ScanAssumption DEF ScanInv, TablesOK
  <2> QED
    BY <2>1, WholeScan
<1> QED
  BY <1>1, ScansInvariant, PTL

\* A reader that pages with its last key sees no key twice or out of order, and
\* in the end every key that was there all along, whatever patches commit between
\* its pages (the loop around scan_projection_prefix).
THEOREM PagedScansAreComplete == ScanSpec => []PagedScanComplete
<1>1. ScanInv => PagedScanComplete
  <2> SUFFICES ASSUME ScanInv, reader.active PROVE
               /\ \A i, j \in DOMAIN reader.seen : i < j => KeyLess(reader.seen[i], reader.seen[j])
               /\ reader.done => reader.stable \subseteq ToSet(reader.seen)
    BY DEF PagedScanComplete
  <2>1. ReadingOK(reader, projection_entries)
    BY DEF ScanInv, NoReader
  <2> QED
    BY <2>1 DEF ReadingOK, Increasing, ToSet
<1> QED
  BY <1>1, ScansInvariant, PTL

\* Of every table, a patch that validate accepts leaves one of which all its
\* mutations after the last Clear or Replace are true, and no other key changes
\* (apply_projection_patch).
THEOREM PatchesMeanWhatTheySay == ScanSpec => []PatchMeaning
<1>1. PatchMeaning
  <2> SUFFICES ASSUME NEW p \in Projections, NEW mutations \in Patches, ~Contradictory(mutations)
               PROVE
        LET before == projection_entries[p]
            after == Patched(before, mutations)
            boundaries == {i \in DOMAIN mutations : IsBoundary(mutations[i])}
            first == IF boundaries = {} THEN 1 ELSE Max(boundaries)
            named == UNION {KeysOf(mutations[i]) : i \in first .. Len(mutations)}
        IN /\ \A i \in first .. Len(mutations) : Holds(mutations[i], after)
           /\ DOMAIN after \ named = IF boundaries = {} THEN DOMAIN before \ named ELSE {}
           /\ \A k \in DOMAIN after \ named : after[k] = before[k]
    BY DEF PatchMeaning
  <2> PICK before : before = projection_entries[p]
    OBVIOUS
  <2> PICK boundaries, after : /\ boundaries = {i \in DOMAIN mutations : IsBoundary(mutations[i])}
                              /\ after = Patched(before, mutations)
    OBVIOUS
  <2> PICK first : first = IF boundaries = {} THEN 1 ELSE Max(boundaries)
    OBVIOUS
  <2> PICK named : named = UNION {KeysOf(mutations[i]) : i \in first .. Len(mutations)}
    OBVIOUS
  <2>1. SoFar(before, IF boundaries = {} THEN DOMAIN before ELSE {},
              mutations, first, Len(mutations), after)
    BY PatchMeans
  <2>2. named = NamedBy(mutations, first, Len(mutations))
    BY DEF NamedBy
  <2>3. /\ \A i \in first .. Len(mutations) : Holds(mutations[i], after)
        /\ DOMAIN after \ named = IF boundaries = {} THEN DOMAIN before \ named ELSE {}
        /\ \A k \in DOMAIN after \ named : after[k] = before[k]
    BY <2>1, <2>2 DEF SoFar
  <2> QED
    BY <2>3
<1> QED
  BY <1>1, PTL
=============================================================================
