-------------------------- MODULE DiagnosticProofs --------------------------
(***************************************************************************)
(* Proofs that the diagnostic export is gap-free and closed, and lists     *)
(* each steady entry once, for every page size and whatever batches and    *)
(* claims commit between two of its pages.                                 *)
(***************************************************************************)
EXTENDS DiagnosticExport, JobStoreProofs, FiniteSetTheorems, SequenceTheorems

-----------------------------------------------------------------------------
(* ORDER BY and LIMIT *)

\* A table's rows: finitely many, told apart by a number.
Keyed(rows) ==
    /\ IsFiniteSet(rows)
    /\ \A r \in rows : r.at \in Nat
    /\ \A q, r \in rows : q.at = r.at => q = r

\* A smaller number has fewer rows before it.
LEMMA FewerBefore ==
    ASSUME NEW rows, Keyed(rows), NEW a \in rows, NEW b \in rows, a.at < b.at
    PROVE  Cardinality(Before(rows, a.at)) < Cardinality(Before(rows, b.at))
<1>1. Before(rows, a.at) \in SUBSET Before(rows, b.at)
  <2>1. \A q \in rows : q.at \in Nat
    BY DEF Keyed
  <2> QED
    BY <2>1 DEF Before
<1>2. a \in Before(rows, b.at) /\ a \notin Before(rows, a.at)
  BY DEF Before, Keyed
<1>3. Before(rows, b.at) \in SUBSET rows
  BY DEF Before
<1>4. IsFiniteSet(Before(rows, b.at))
  BY <1>3, FS_Subset DEF Keyed
<1>5. /\ Cardinality(Before(rows, a.at)) <= Cardinality(Before(rows, b.at))
      /\ Cardinality(Before(rows, a.at)) # Cardinality(Before(rows, b.at))
      /\ IsFiniteSet(Before(rows, a.at))
  BY <1>1, <1>2, <1>4, FS_Subset
<1>6. Cardinality(Before(rows, a.at)) \in Nat /\ Cardinality(Before(rows, b.at)) \in Nat
  BY <1>4, <1>5, FS_CardinalityType
<1> QED
  BY <1>5, <1>6

\* The numbers of rows before a row are 0, 1, ... without a gap.
LEMMA RowOfRank ==
    ASSUME NEW rows, Keyed(rows)
    PROVE  /\ \A r \in rows : Cardinality(Before(rows, r.at)) + 1 \in 1 .. Cardinality(rows)
           /\ \A r \in rows : Cardinality(Before(rows, r.at)) \in Nat
           /\ \A k \in 1 .. Cardinality(rows) :
                 \E r \in rows : Cardinality(Before(rows, r.at)) + 1 = k
<1> PICK n : n = Cardinality(rows)
  OBVIOUS
<1> DEFINE f == [r \in rows |-> Cardinality(Before(rows, r.at)) + 1]
<1>1. n \in Nat /\ IsFiniteSet(rows)
  BY FS_CardinalityType DEF Keyed
<1>2. \A r \in rows : /\ Cardinality(Before(rows, r.at)) \in Nat
                      /\ Cardinality(Before(rows, r.at)) < n
  <2> TAKE r \in rows
  <2>1. Before(rows, r.at) \in SUBSET rows /\ r \notin Before(rows, r.at)
    BY DEF Before, Keyed
  <2>2. /\ IsFiniteSet(Before(rows, r.at))
        /\ Cardinality(Before(rows, r.at)) <= Cardinality(rows)
        /\ Cardinality(Before(rows, r.at)) # Cardinality(rows)
    BY <1>1, <2>1, FS_Subset
  <2>3. Cardinality(Before(rows, r.at)) \in Nat
    BY <2>2, FS_CardinalityType
  <2> QED
    BY <1>1, <2>2, <2>3
<1>3. f \in [rows -> 1 .. n]
  BY <1>1, <1>2
<1>4. \A a, b \in rows : f[a] = f[b] => a = b
  <2> TAKE a, b \in rows
  <2> HAVE f[a] = f[b]
  <2>1. Cardinality(Before(rows, a.at)) = Cardinality(Before(rows, b.at))
    BY <1>2
  <2>2. ~(a.at < b.at) /\ ~(b.at < a.at)
    BY <1>2, <2>1, FewerBefore
  <2> QED
    BY <2>2 DEF Keyed
<1>5. f \in Injection(rows, 1 .. n)
  BY <1>3, <1>4 DEF Injection, IsInjective
<1>6. IsFiniteSet(1 .. n) /\ Cardinality(1 .. n) = n
  BY <1>1, FS_Interval
<1>7. f \in Surjection(rows, 1 .. n)
  BY <1>5, <1>6, FS_Injection
<1>8. \A k \in 1 .. n : \E r \in rows : f[r] = k
  BY <1>7 DEF Surjection
<1> QED
  BY <1>2, <1>3, <1>8

\* The sequence o lists the n rows, each once, by their numbers.
Listed(rows, n, o) ==
    /\ n \in Nat /\ o \in [1 .. n -> rows] /\ o \in Seq(rows) /\ Len(o) = n
    /\ \A k \in 1 .. n : Cardinality(Before(rows, o[k].at)) = k - 1
    /\ \A i, j \in 1 .. n : i < j => o[i].at < o[j].at
    /\ \A r \in rows : \E k \in 1 .. n : o[k] = r

\* InOrder does.
LEMMA RowsOrdered ==
    ASSUME NEW rows, Keyed(rows), NEW n, n = Cardinality(rows), NEW o, o = InOrder(rows)
    PROVE  Listed(rows, n, o)
<1>1. n \in Nat
  BY FS_CardinalityType DEF Keyed
<1>2. o = [k \in 1 .. n |-> CHOOSE r \in rows : Cardinality(Before(rows, r.at)) = k - 1]
  BY DEF InOrder
<1>3. \A r \in rows : Cardinality(Before(rows, r.at)) \in Nat
  BY RowOfRank
<1>4. \A k \in 1 .. n : o[k] \in rows /\ Cardinality(Before(rows, o[k].at)) = k - 1
  <2> TAKE k \in 1 .. n
  <2>1. PICK r \in rows : Cardinality(Before(rows, r.at)) + 1 = k
    BY RowOfRank
  <2>2. Cardinality(Before(rows, r.at)) = k - 1
    BY <1>1, <1>3, <2>1
  <2> QED
    BY <1>2, <2>2
<1>5. o \in [1 .. n -> rows]
  BY <1>2, <1>4
<1>6. o \in Seq(rows) /\ Len(o) = n
  BY <1>1, <1>5
<1>7. \A i, j \in 1 .. n : i < j => o[i].at < o[j].at
  <2> TAKE i, j \in 1 .. n
  <2> HAVE i < j
  <2>1. o[i] \in rows /\ o[j] \in rows /\ o[i].at \in Nat /\ o[j].at \in Nat
    BY <1>4 DEF Keyed
  <2>2. /\ Cardinality(Before(rows, o[i].at)) = i - 1
        /\ Cardinality(Before(rows, o[j].at)) = j - 1
    BY <1>4
  <2>3. ~(o[j].at < o[i].at)
    BY <2>1, <2>2, FewerBefore
  <2>4. o[i].at # o[j].at
    BY <2>2
  <2> QED
    BY <2>1, <2>3, <2>4
<1>8. \A r \in rows : \E k \in 1 .. n : o[k] = r
  <2> TAKE r \in rows
  <2>1. PICK k : k = Cardinality(Before(rows, r.at)) + 1
    OBVIOUS
  <2>2. k \in 1 .. n /\ Cardinality(Before(rows, r.at)) = k - 1
    BY <1>3, <2>1, RowOfRank
  <2>3. o[k] \in rows /\ Cardinality(Before(rows, o[k].at)) = Cardinality(Before(rows, r.at))
    BY <1>4, <2>2
  <2>4. ~(o[k].at < r.at) /\ ~(r.at < o[k].at)
    BY <1>3, <2>3, FewerBefore
  <2>5. o[k] = r
    BY <2>3, <2>4 DEF Keyed
  <2> QED
    BY <2>2, <2>5
<1> QED
  BY <1>1, <1>4, <1>5, <1>6, <1>7, <1>8 DEF Listed

\* The values of a function on a finite set are finitely many; as many as there
\* are arguments, if they differ.
LEMMA ImageOf ==
    ASSUME NEW S, IsFiniteSet(S), NEW f, f = [x \in S |-> f[x]],
           NEW T, \A x \in S : f[x] \in T, \A y \in T : \E x \in S : f[x] = y
    PROVE  /\ IsFiniteSet(T) /\ Cardinality(T) <= Cardinality(S)
           /\ (\A x, y \in S : f[x] = f[y] => x = y) => Cardinality(T) = Cardinality(S)
<1>1. f \in [S -> T]
  OBVIOUS
<1>2. f \in Surjection(S, T)
  BY <1>1 DEF Surjection
<1>3. (\A x, y \in S : f[x] = f[y] => x = y) => f \in Injection(S, T)
  BY <1>1 DEF Injection, IsInjective
<1> QED
  BY <1>2, <1>3, FS_Surjection

\* Numbers as rows.
LEMMA NumbersAsRows ==
    ASSUME NEW S \in SUBSET Nat, IsFiniteSet(S)
    PROVE  \E rows : /\ Keyed(rows)
                     /\ \A r \in rows : r.at \in S
                     /\ \A i \in S : \E r \in rows : r.at = i
<1> DEFINE rows == {[at |-> i] : i \in S}
           f == [i \in S |-> [at |-> i]]
<1>1. \A i \in S : f[i] \in rows
  OBVIOUS
<1>2. \A r \in rows : \E i \in S : f[i] = r
  OBVIOUS
<1>3. \A r \in rows : r.at \in S /\ r = [at |-> r.at]
  OBVIOUS
<1>4. \A i \in S : [at |-> i] \in rows /\ [at |-> i].at = i
  OBVIOUS
<1>5. f = [i \in S |-> f[i]]
  OBVIOUS
<1> HIDE DEF f, rows
<1>6. IsFiniteSet(rows)
  BY <1>1, <1>2, <1>5, ImageOf
<1>7. Keyed(rows)
  <2>1. \A q, r \in rows : q.at = r.at => q = r
    BY <1>3
  <2>2. \A r \in rows : r.at \in Nat
    BY <1>3
  <2> QED
    BY <1>6, <2>1, <2>2 DEF Keyed
<1> QED
  BY <1>3, <1>4, <1>7

\* Of finitely many numbers one is the greatest.
LEMMA GreatestOf ==
    ASSUME NEW S \in SUBSET Nat, IsFiniteSet(S)
    PROVE  \E m \in S \cup {0} : \A n \in S \cup {0} : m >= n
<1>1. CASE S = {}
  BY <1>1
<1>2. CASE S # {}
  <2>1. PICK rows : /\ Keyed(rows)
                    /\ \A r \in rows : r.at \in S
                    /\ \A i \in S : \E r \in rows : r.at = i
    BY NumbersAsRows
  <2> PICK n, o : n = Cardinality(rows) /\ o = InOrder(rows)
    OBVIOUS
  <2>2. /\ n \in Nat /\ \A k \in 1 .. n : o[k] \in rows
        /\ \A i, j \in 1 .. n : i < j => o[i].at < o[j].at
        /\ \A r \in rows : \E k \in 1 .. n : o[k] = r
    <3>1. Listed(rows, n, o)
      BY <2>1, RowsOrdered
    <3> QED
      BY <3>1 DEF Listed
  <2>3. n \in 1 .. n
    <3>1. PICK i : i \in S
      BY <1>2
    <3>2. PICK r \in rows : r.at = i
      BY <2>1, <3>1
    <3>3. PICK k \in 1 .. n : o[k] = r
      BY <2>2, <3>2
    <3> QED
      BY <2>2, <3>3
  <2>4. o[n].at \in S
    BY <2>1, <2>2, <2>3
  <2>5. \A k \in 1 .. n : o[k].at <= o[n].at
    <3> TAKE k \in 1 .. n
    <3>1. o[k].at \in Nat /\ o[n].at \in Nat
      BY <2>1, <2>2, <2>3
    <3>2. k = n \/ o[k].at < o[n].at
      BY <2>2, <2>3
    <3> QED
      BY <3>1, <3>2
  <2>6. \A i \in S : o[n].at >= i
    <3> TAKE i \in S
    <3>1. PICK r \in rows : r.at = i
      BY <2>1
    <3>2. PICK k \in 1 .. n : o[k] = r
      BY <2>2, <3>1
    <3>3. o[k].at = i
      BY <3>1, <3>2
    <3> QED
      BY <2>4, <2>5, <3>3
  <2>7. \A i \in S \cup {0} : o[n].at >= i
    <3>1. o[n].at \in Nat
      BY <2>4
    <3>2. o[n].at >= 0
      BY <3>1
    <3> QED
      BY <2>6, <3>2
  <2> QED
    BY <2>4, <2>7
<1> QED
  BY <1>1, <1>2

\* There is one row for every number from low to high.
Dense(rows, low, high) ==
    /\ \A r \in rows : r.at \in low .. high
    /\ \A v \in low .. high : \E r \in rows : r.at = v
    /\ \A q, r \in rows : q.at = r.at => q = r

\* As many rows as there are numbers between the first and the last.
LEMMA DenseCount ==
    ASSUME NEW rows, NEW low \in Int, NEW high \in Int, Dense(rows, low, high)
    PROVE  /\ IsFiniteSet(rows)
           /\ Cardinality(rows) = IF low > high THEN 0 ELSE high - low + 1
<1> DEFINE f == [v \in low .. high |-> CHOOSE r \in rows : r.at = v]
<1>1. \A v \in low .. high : f[v] \in rows /\ f[v].at = v
  BY DEF Dense
<1>2. \A r \in rows : \E v \in low .. high : f[v] = r
  BY <1>1 DEF Dense
<1>3. f = [v \in low .. high |-> f[v]]
  OBVIOUS
<1> HIDE DEF f
<1>4. \A v, w \in low .. high : f[v] = f[w] => v = w
  BY <1>1
<1>5. IsFiniteSet(low .. high) /\ Cardinality(low .. high) = IF low > high THEN 0 ELSE high - low + 1
  BY FS_Interval
<1> QED
  BY <1>1, <1>2, <1>3, <1>4, <1>5, ImageOf

\* The first m rows of n.
LEMMA PrefixOf ==
    ASSUME NEW S, NEW n, n \in Nat, NEW o, o \in [1 .. n -> S], NEW m, m \in 0 .. n,
           NEW page, page = SubSeq(o, 1, m)
    PROVE  page \in Seq(S) /\ Len(page) = m /\ \A k \in 1 .. m : page[k] = o[k]
<1> DEFINE first == SubSeq(o, 1, m)
<1>1. \A k \in 1 .. m : o[k] \in S
  OBVIOUS
<1>2. /\ first \in Seq(S)
      /\ Len(first) = IF 1 <= m THEN m - 1 + 1 ELSE 0
      /\ \A k \in 1 .. m - 1 + 1 : first[k] = o[1 + k - 1]
  BY <1>1, SubSeqProperties
<1> HIDE DEF first
<1>3. Len(first) = m
  BY <1>2
<1>4. \A k \in 1 .. m : k \in 1 .. m - 1 + 1 /\ 1 + k - 1 = k
  OBVIOUS
<1>5. \A k \in 1 .. m : first[k] = o[k]
  BY <1>2, <1>4
<1>6. first \in Seq(S) /\ Len(first) = m /\ \A k \in 1 .. m : first[k] = o[k]
  BY <1>2, <1>3, <1>5
<1> QED
  BY <1>6 DEF first

\* A page holds the first rows, each once; a short one, all of them.
Leading(rest, page) ==
    /\ page \in Seq(rest) /\ Len(page) <= EXPORT_PAGE_SIZE
    /\ \A k \in 1 .. Len(page) : Cardinality(Before(rest, page[k].at)) = k - 1
    /\ \A i, j \in 1 .. Len(page) : i < j => page[i].at < page[j].at
    /\ Len(page) < EXPORT_PAGE_SIZE => \A r \in rest : \E k \in 1 .. Len(page) : page[k] = r
    /\ Len(page) = EXPORT_PAGE_SIZE =>
          \A r \in rest : \/ \E k \in 1 .. Len(page) : page[k] = r
                          \/ page[Len(page)].at < r.at

LEMMA PageFacts ==
    ASSUME NEW rest, Keyed(rest), NEW page, page = FirstRows(InOrder(rest), EXPORT_PAGE_SIZE)
    PROVE  Leading(rest, page)
<1> PICK n, o, m : /\ n = Cardinality(rest) /\ o = InOrder(rest)
                   /\ m = IF n < EXPORT_PAGE_SIZE THEN n ELSE EXPORT_PAGE_SIZE
  OBVIOUS
<1>1. Listed(rest, n, o)
  BY RowsOrdered
<1>2. n \in Nat /\ o \in [1 .. n -> rest] /\ o \in Seq(rest) /\ Len(o) = n
  BY <1>1 DEF Listed
<1>3. /\ \A k \in 1 .. n : Cardinality(Before(rest, o[k].at)) = k - 1
      /\ \A i, j \in 1 .. n : i < j => o[i].at < o[j].at
      /\ \A r \in rest : \E k \in 1 .. n : o[k] = r
  BY <1>1 DEF Listed
<1>4. m \in 0 .. n /\ m <= EXPORT_PAGE_SIZE /\ (m < EXPORT_PAGE_SIZE => m = n)
  BY <1>2, ExportAssumption
<1>5. page = SubSeq(o, 1, m)
  BY <1>2 DEF FirstRows
<1>6. \A k \in 1 .. m : k \in 1 .. n /\ o[k] \in rest
  BY <1>2, <1>4
<1>7. page \in Seq(rest) /\ Len(page) = m /\ \A k \in 1 .. m : page[k] = o[k]
  BY <1>2, <1>4, <1>5, PrefixOf
<1>8. ASSUME m = EXPORT_PAGE_SIZE, NEW r \in rest
      PROVE  (\E k \in 1 .. m : page[k] = r) \/ page[m].at < r.at
  <2>1. PICK k \in 1 .. n : o[k] = r
    BY <1>3
  <2>2. m \in 1 .. n /\ m \in 1 .. m
    BY <1>4, <1>8, ExportAssumption
  <2>3. k \in 1 .. m \/ m < k
    BY <2>2
  <2> QED
    BY <1>3, <1>7, <2>1, <2>2, <2>3
<1>9. \A k \in 1 .. m : Cardinality(Before(rest, page[k].at)) = k - 1
  BY <1>3, <1>6, <1>7
<1>10. \A i, j \in 1 .. m : i < j => page[i].at < page[j].at
  BY <1>3, <1>6, <1>7
<1>11. ASSUME m < EXPORT_PAGE_SIZE, NEW r \in rest
      PROVE  \E k \in 1 .. m : page[k] = r
  <2>1. PICK k \in 1 .. n : o[k] = r
    BY <1>3
  <2>2. k \in 1 .. m
    BY <1>4, <1>11
  <2> QED
    BY <1>7, <2>1, <2>2
<1> QED
  BY <1>4, <1>7, <1>8, <1>9, <1>10, <1>11 DEF Leading

\* So a page of the rows behind a cursor.
PageOK(rows, after, page) ==
    /\ page \in Seq(rows) /\ Len(page) <= EXPORT_PAGE_SIZE
    /\ \A k \in 1 .. Len(page) :
          /\ page[k].at \in Nat /\ page[k].at > after
          /\ Cardinality(Before({r \in rows : r.at > after}, page[k].at)) = k - 1
    /\ \A i, j \in 1 .. Len(page) : i < j => page[i].at < page[j].at
    /\ Len(page) < EXPORT_PAGE_SIZE =>
          \A r \in rows : r.at > after => \E k \in 1 .. Len(page) : page[k] = r
    /\ Len(page) = EXPORT_PAGE_SIZE =>
          \A r \in rows : r.at > after => \/ \E k \in 1 .. Len(page) : page[k] = r
                                         \/ page[Len(page)].at < r.at

LEMMA PageIsOK ==
    ASSUME NEW rows, Keyed(rows), NEW after \in Nat, NEW page,
           page = FirstRows(InOrder({r \in rows : r.at > after}), EXPORT_PAGE_SIZE)
    PROVE  PageOK(rows, after, page)
<1> PICK rest : rest = {r \in rows : r.at > after}
  OBVIOUS
<1>1. rest \in SUBSET rows /\ \A r \in rest : r.at > after
  OBVIOUS
<1>2. Keyed(rest)
  BY <1>1, FS_Subset DEF Keyed
<1>3. page = FirstRows(InOrder(rest), EXPORT_PAGE_SIZE)
  OBVIOUS
<1>4. Leading(rest, page)
  BY <1>2, <1>3, PageFacts
<1>5. \A k \in 1 .. Len(page) : page[k] \in rest /\ page[k].at > after
  BY <1>1, <1>4, ElementOfSeq DEF Leading
<1>6. page \in Seq(rows)
  BY <1>1, <1>4, SeqMonotonic DEF Leading
<1>7. (\A r \in rows : r.at > after => r \in rest) /\ \A r \in rest : r.at \in Nat
  BY <1>2 DEF Keyed
<1> QED
  BY <1>4, <1>5, <1>6, <1>7 DEF PageOK, Leading

\* If the rows are numbered 1 .. n, a page continues right behind the cursor, and
\* a short one reaches n.
LEMMA DensePage ==
    ASSUME NEW rows, NEW n \in Nat, Dense(rows, 1, n), NEW after \in Nat, NEW page,
           PageOK(rows, after, page)
    PROVE  /\ \A k \in 1 .. Len(page) : page[k].at = after + k
           /\ Len(page) < EXPORT_PAGE_SIZE => n <= after + Len(page)
<1>1. Len(page) \in Nat /\ \A k \in 1 .. Len(page) : page[k] \in rows /\ page[k].at > after
  <2>1. page \in Seq(rows)
    BY DEF PageOK
  <2>2. Len(page) \in Nat
    BY <2>1
  <2>3. \A k \in 1 .. Len(page) : page[k] \in rows
    BY <2>1, ElementOfSeq
  <2>4. \A k \in 1 .. Len(page) : page[k].at > after
    BY DEF PageOK
  <2> QED
    BY <2>2, <2>3, <2>4
<1>2. \A k \in 1 .. Len(page) : page[k].at = after + k
  <2> TAKE k \in 1 .. Len(page)
  <2> PICK at : at = page[k].at
    OBVIOUS
  <2>1. at \in 1 .. n /\ at > after /\ at \in Int /\ after + 1 \in Int /\ at - 1 \in Int
    BY <1>1 DEF Dense
  <2> PICK front : front = Before({r \in rows : r.at > after}, at)
    OBVIOUS
  <2>2. \A r : r \in front <=> r \in rows /\ r.at > after /\ r.at < at
    BY DEF Before
  <2>3. Dense(front, after + 1, at - 1)
    <3>1. \A r \in rows : r.at \in 1 .. n
      BY DEF Dense
    <3>2. \A r \in front : r.at \in after + 1 .. at - 1
      BY <2>1, <2>2, <3>1
    <3>3. ASSUME NEW v \in after + 1 .. at - 1 PROVE \E r \in front : r.at = v
      <4>1. v \in 1 .. n /\ v > after /\ v < at
        BY <2>1
      <4>2. PICK r \in rows : r.at = v
        BY <4>1 DEF Dense
      <4> QED
        BY <2>2, <4>1, <4>2
    <3>4. \A q, r \in front : q.at = r.at => q = r
      BY <2>2 DEF Dense
    <3> QED
      BY <3>2, <3>3, <3>4 DEF Dense
  <2>4. Cardinality(front) = IF after + 1 > at - 1 THEN 0 ELSE at - 1 - (after + 1) + 1
    BY <2>1, <2>3, DenseCount
  <2>5. Cardinality(front) = k - 1
    BY DEF PageOK
  <2>6. k - 1 = IF after + 1 > at - 1 THEN 0 ELSE at - 1 - (after + 1) + 1
    BY <2>4, <2>5, Zenon
  <2>7. at = after + k
    <3>1. at \in Int /\ at > after /\ k \in Int /\ after \in Nat
      BY <2>1
    <3>2. CASE after + 1 > at - 1
      BY <2>6, <3>1, <3>2
    <3>3. CASE ~(after + 1 > at - 1)
      BY <2>6, <3>1, <3>3
    <3> QED
      BY <3>2, <3>3
  <2> QED
    BY <2>7
<1>3. ASSUME Len(page) < EXPORT_PAGE_SIZE, n > after
      PROVE  n <= after + Len(page)
  <2>1. PICK r \in rows : r.at = n
    BY <1>3 DEF Dense
  <2>2. PICK k \in 1 .. Len(page) : page[k] = r
    BY <1>3, <2>1 DEF PageOK
  <2> QED
    BY <1>1, <1>2, <2>1, <2>2
<1> QED
  BY <1>1, <1>2, <1>3

\* The numbers behind a cursor.
Ahead(numbers, after) == {n \in numbers : n > after}

\* No number is lost between the page and what is ahead of it.
LEMMA PageCount ==
    ASSUME NEW rows, NEW after \in Nat, NEW page, PageOK(rows, after, page),
           NEW numbers \in SUBSET Nat, IsFiniteSet(numbers),
           \A n \in numbers : \E r \in rows : r.at = n
    PROVE  /\ Len(page) < EXPORT_PAGE_SIZE => Cardinality(Ahead(numbers, after)) <= Len(page)
           /\ Len(page) = EXPORT_PAGE_SIZE =>
                 Cardinality(Ahead(numbers, after))
                    <= Len(page) + Cardinality(Ahead(numbers, page[Len(page)].at))
<1> PICK m, f, T : /\ m = Len(page) /\ f = [k \in 1 .. m |-> page[k].at]
                   /\ T = {page[k].at : k \in 1 .. m}
  OBVIOUS
<1>1. m \in Nat
  BY DEF PageOK
<1>2. IsFiniteSet(1 .. m) /\ Cardinality(1 .. m) = m
  <2>1. m \in Int /\ 1 \in Int
    BY <1>1
  <2>2. IsFiniteSet(1 .. m) /\ Cardinality(1 .. m) = IF 1 > m THEN 0 ELSE m - 1 + 1
    BY <2>1, FS_Interval
  <2> QED
    BY <1>1, <2>2
<1>3. /\ f = [k \in 1 .. m |-> f[k]] /\ \A k \in 1 .. m : f[k] \in T
      /\ \A v \in T : \E k \in 1 .. m : f[k] = v
  OBVIOUS
<1>4. IsFiniteSet(T) /\ Cardinality(T) <= Cardinality(1 .. m)
  BY <1>2, <1>3, ImageOf
<1>5. IsFiniteSet(T) /\ Cardinality(T) <= m /\ Cardinality(T) \in Nat
  BY <1>2, <1>4, FS_CardinalityType
<1> PICK ahead, beyond : /\ ahead = Ahead(numbers, after)
                         /\ beyond = Ahead(numbers, page[m].at)
  OBVIOUS
<1>6. IsFiniteSet(beyond)
  <2>1. beyond \in SUBSET numbers
    BY DEF Ahead
  <2> QED
    BY <2>1, FS_Subset
<1>7. ASSUME NEW n \in ahead
      PROVE  /\ m < EXPORT_PAGE_SIZE => n \in T
             /\ m = EXPORT_PAGE_SIZE => n \in T \cup beyond
  <2>1. n \in numbers /\ n > after
    BY DEF Ahead
  <2>2. PICK r \in rows : r.at = n
    BY <2>1
  <2>3. \A k \in 1 .. m : page[k] = r => n \in T
    BY <2>2
  <2>4. m < EXPORT_PAGE_SIZE => n \in T
    BY <2>1, <2>2, <2>3 DEF PageOK
  <2>5. m = EXPORT_PAGE_SIZE => n \in T \/ page[m].at < n
    BY <2>1, <2>2, <2>3 DEF PageOK
  <2>6. ASSUME page[m].at < n, m = EXPORT_PAGE_SIZE PROVE n \in beyond
    <3>1. m \in 1 .. m
      BY <1>1, <2>6, ExportAssumption
    <3>2. n > page[m].at
      BY <2>6
    <3> QED
      BY <2>1, <3>2 DEF Ahead
  <2> QED
    BY <2>4, <2>5, <2>6
<1>8. ASSUME m < EXPORT_PAGE_SIZE PROVE Cardinality(ahead) <= m
  <2>1. ahead \in SUBSET T
    BY <1>7, <1>8
  <2>2. Cardinality(ahead) <= Cardinality(T) /\ IsFiniteSet(ahead)
    BY <1>5, <2>1, FS_Subset
  <2>3. Cardinality(ahead) \in Nat
    BY <2>2, FS_CardinalityType
  <2> QED
    BY <1>1, <1>5, <2>2, <2>3
<1>9. ASSUME m = EXPORT_PAGE_SIZE PROVE Cardinality(ahead) <= m + Cardinality(beyond)
  <2> PICK both : both = T \cup beyond
    OBVIOUS
  <2>1. ahead \in SUBSET both
    BY <1>7, <1>9
  <2>2. /\ IsFiniteSet(both)
        /\ Cardinality(both) = Cardinality(T) + Cardinality(beyond) - Cardinality(T \cap beyond)
    BY <1>5, <1>6, FS_Union
  <2>3. IsFiniteSet(T \cap beyond)
    <3>1. T \cap beyond \in SUBSET T
      OBVIOUS
    <3> QED
      BY <1>5, <3>1, FS_Subset
  <2>4. Cardinality(T \cap beyond) \in Nat /\ Cardinality(beyond) \in Nat
    BY <1>6, <2>3, FS_CardinalityType
  <2>5. Cardinality(ahead) <= Cardinality(both) /\ IsFiniteSet(ahead)
    BY <2>1, <2>2, FS_Subset
  <2>6. Cardinality(ahead) \in Nat
    BY <2>5, FS_CardinalityType
  <2> QED
    BY <1>1, <1>5, <2>2, <2>4, <2>5, <2>6
<1> QED
  BY <1>8, <1>9

\* What a page adds to the rows written.
Appended(given, page, result) ==
    /\ Len(given) \in Nat /\ DOMAIN given = 1 .. Len(given) /\ Len(page) \in Nat
    /\ result \in Seq(Range(result)) /\ Len(result) = Len(given) + Len(page)
    /\ DOMAIN result = 1 .. Len(given) + Len(page)
    /\ \A i \in 1 .. Len(given) : result[i] = given[i]
    /\ \A k \in 1 .. Len(page) : result[Len(given) + k] = page[k].row
    /\ \A i \in DOMAIN result :
          i \in DOMAIN given \/ \E k \in 1 .. Len(page) : i = Len(given) + k
    /\ \A x : x \in Range(result) <=>
          x \in Range(given) \/ \E k \in 1 .. Len(page) : x = page[k].row

\* A sequence is one of its own elements.
LEMMA OwnRange ==
    ASSUME NEW S, NEW s, s \in Seq(S)
    PROVE  s \in Seq(Range(s))
<1>1. /\ Len(s) \in Nat /\ DOMAIN s = 1 .. Len(s)
      /\ s = [i \in 1 .. Len(s) |-> s[i]]
  OBVIOUS
<1>2. \A i \in 1 .. Len(s) : s[i] \in Range(s)
  BY <1>1 DEF Range
<1>3. s \in [1 .. Len(s) -> Range(s)]
  BY <1>1, <1>2
<1> QED
  BY <1>1, <1>3

LEMMA PageAppended ==
    ASSUME NEW given, given \in Seq(Range(given)), NEW P, NEW page \in Seq(P), NEW result,
           result = given \o [i \in DOMAIN page |-> page[i].row]
    PROVE  Appended(given, page, result)
<1> PICK added, m, n : /\ added = [i \in DOMAIN page |-> page[i].row]
                       /\ m = Len(given) /\ n = Len(page)
  OBVIOUS
<1>1. /\ m \in Nat /\ DOMAIN given = 1 .. m /\ n \in Nat /\ DOMAIN page = 1 .. n
  OBVIOUS
<1>2. DOMAIN added = 1 .. n /\ \A k \in 1 .. n : added[k] = page[k].row
  BY <1>1
<1>3. added \in Seq(Range(added)) /\ Len(added) = n
  <2>1. added \in [1 .. n -> Range(added)]
    BY <1>1, <1>2 DEF Range
  <2> QED
    BY <1>1, <2>1
<1> PICK all : all = Range(given) \cup Range(added)
  OBVIOUS
<1>4. given \in Seq(all) /\ added \in Seq(all)
  BY <1>3, SeqMonotonic
<1>5. /\ result \in Seq(all) /\ Len(result) = m + n
      /\ \A i \in 1 .. m + n : result[i] = IF i <= m THEN given[i] ELSE added[i - m]
  <2>1. result = given \o added
    OBVIOUS
  <2> QED
    BY <1>3, <1>4, <2>1, ConcatProperties
<1>6. DOMAIN result = 1 .. m + n
  BY <1>1, <1>5
<1>7. \A i \in 1 .. m : result[i] = given[i]
  BY <1>1, <1>5
<1>8. \A k \in 1 .. n : result[m + k] = page[k].row
  <2> TAKE k \in 1 .. n
  <2>1. m + k \in 1 .. m + n /\ ~(m + k <= m) /\ m + k - m = k
    BY <1>1
  <2> QED
    BY <1>2, <1>5, <2>1
<1>9. \A i \in 1 .. m + n : i \in 1 .. m \/ \E k \in 1 .. n : i = m + k
  <2> TAKE i \in 1 .. m + n
  <2>1. i \in 1 .. m \/ (i - m \in 1 .. n /\ i = m + (i - m))
    BY <1>1
  <2> QED
    BY <2>1
<1>10. result \in Seq(Range(result))
  BY <1>5, OwnRange
<1>11. \A x : x \in Range(result) <=>
         x \in Range(given) \/ \E k \in 1 .. n : x = page[k].row
  <2> TAKE x
  <2>1. ASSUME x \in Range(result)
        PROVE  x \in Range(given) \/ \E k \in 1 .. n : x = page[k].row
    <3>1. PICK i \in 1 .. m + n : x = result[i]
      BY <1>6, <2>1 DEF Range
    <3> QED
      BY <1>1, <1>7, <1>8, <1>9, <3>1 DEF Range
  <2>2. ASSUME x \in Range(given) PROVE x \in Range(result)
    <3>1. PICK i \in 1 .. m : x = given[i]
      BY <1>1, <2>2 DEF Range
    <3>2. i \in 1 .. m + n
      BY <1>1
    <3> QED
      BY <1>6, <1>7, <3>1, <3>2 DEF Range
  <2>3. ASSUME NEW k \in 1 .. n, x = page[k].row PROVE x \in Range(result)
    <3>1. m + k \in 1 .. m + n
      BY <1>1
    <3> QED
      BY <1>6, <1>8, <2>3, <3>1 DEF Range
  <2> QED
    BY <2>1, <2>2, <2>3
<1> QED
  BY <1>1, <1>5, <1>6, <1>7, <1>8, <1>9, <1>10, <1>11 DEF Appended

-----------------------------------------------------------------------------
(* The invariant *)

Tables == Range(ExportTables)

EventRow == [event_id : {b.event_id : b \in Commits}, transaction_id : TxIds,
             stream_id : Nat \ {0}, stream_version : Nat]

\* The log is typed, and an event's transaction and stream are in their tables,
\* the stream at the event's version or a later one.
LogInv ==
    /\ events \in Seq(EventRow)
    /\ IsFiniteSet(DOMAIN streams) /\ DOMAIN streams \subseteq Nat \ {0}
    /\ \A s \in DOMAIN streams : streams[s] \in Nat
    /\ \A i \in DOMAIN events :
          /\ events[i].transaction_id \in DOMAIN transactions
          /\ events[i].stream_id \in DOMAIN streams
          /\ events[i].stream_version <= streams[events[i].stream_id]

\* Rowids are positive, and a key has one row.
EntriesInv ==
    /\ IsFiniteSet(DOMAIN projection_entries)
    /\ DOMAIN projection_entries \subseteq Nat \ {0}
    /\ \A i, j \in DOMAIN projection_entries :
          projection_entries[i].key = projection_entries[j].key => i = j

\* The tables that are exported.
DataInv ==
    /\ JobInv /\ ReceiptInv /\ Numbered(transactions)
    /\ IsFiniteSet(DOMAIN jobs) /\ IsFiniteSet(claim_receipts)
    /\ \A id \in DOMAIN jobs : jobs[id].enqueue_sequence \in Nat \ {0}
    /\ LogInv /\ EntriesInv

\* Nothing is written of a table before its first page.
Progress ==
    /\ stage \in 0 .. 9 /\ last \in Nat /\ (stage = 0 => last < 4)
    /\ DOMAIN out = Tables
    /\ \A T \in Tables \ {"projection_meta", "active_partitions"} : out[T] \in Seq(Range(out[T]))
    /\ \A i \in 1 .. 8 : stage < i \/ (stage = i /\ last = 0) => out[ExportTables[i]] = <<>>

\* The i-th transaction written is number i; the cursor is the last one.
TransactionsWritten ==
    /\ \A i \in DOMAIN out["transactions"] :
          /\ out["transactions"][i] \in DOMAIN transactions
          /\ transactions[out["transactions"][i]].transaction_sequence = i
    /\ stage = 1 => last = Len(out["transactions"])

\* The events written are the first ones of the log; once all are, they include
\* those of the transactions written.
EventsWritten ==
    /\ \A i \in DOMAIN out["events"] : i \in DOMAIN events /\ out["events"][i] = events[i]
    /\ stage = 2 => last = Len(out["events"])
    /\ stage > 2 => \A i \in DOMAIN events :
          events[i].transaction_id \in Written("transactions") => i \in DOMAIN out["events"]

\* The stream of an event written is written or ahead.
StreamWritten(e) ==
    \E s \in Written("streams") : s.stream_id = e.stream_id /\ s.current_version >= e.stream_version

StreamsWritten ==
    stage > 2 => \A i \in DOMAIN out["events"] :
        StreamWritten(events[i]) \/ (stage = 3 /\ events[i].stream_id > last)

\* A job written has at least the attempts it had then; once the receipts are
\* written, each of those has one.
JobsWritten ==
    \A j \in Written("jobs") :
        /\ j.job_id \in DOMAIN jobs
        /\ j.attempt \in Nat /\ j.attempt <= jobs[j.job_id].attempt
        /\ stage > 8 => \A n \in 1 .. j.attempt :
              \E r \in Written("claim_receipts") : r.job_id = j.job_id /\ r.attempt = n

\* How often a key is among the entries written.
Once(written, key) ==
    \E k \in DOMAIN written : \A l \in DOMAIN written : written[l].key = key <=> l = k

Never(written, key) == \A l \in DOMAIN written : written[l].key # key

\* A steady row is written once, when the cursor passes it.
EntriesWritten ==
    (stage = 5 /\ last > 0) \/ stage = 6 => \A i \in steady :
        /\ i \in DOMAIN projection_entries
        /\ IF stage = 6 \/ i <= last
           THEN Once(out["projection_entries"], projection_entries[i].key)
           ELSE Never(out["projection_entries"], projection_entries[i].key)

\* The rows of the i-th table that are written or ahead are at least as many as
\* the statistics say.
Covered(i, numbers, claimed) ==
    LET written == out[ExportTables[i]] IN
    /\ claimed \in Nat
    /\ stage <= i =>
          Len(written) + Cardinality(Ahead(numbers, IF stage = i THEN last ELSE 0)) >= claimed
    /\ stage > i => Len(written) >= claimed

HeaderCovered ==
    /\ header \in [transactions : Nat, events : Nat, streams : Nat, jobs : Nat]
    /\ Covered(1, TransactionSequences, header.transactions)
    /\ Covered(2, DOMAIN events, header.events)
    /\ Covered(3, DOMAIN streams, header.streams)
    /\ Covered(6, EnqueueSequences, header.jobs)

\* What is true of an export, whatever page it is at.
ExportInv ==
    /\ Progress /\ TransactionsWritten /\ EventsWritten /\ StreamsWritten
    /\ JobsWritten /\ EntriesWritten /\ HeaderCovered

DiagnosticInv == DataInv /\ ExportInv

-----------------------------------------------------------------------------
(* Batches and claims *)

\* What a commit does, seen from the export: rows are added; a transaction and
\* an event stay as they are, a job keeps its number and its attempts, a steady
\* entry its key; an event added is one of a transaction added.
Grown ==
    /\ UNCHANGED exportVars
    /\ DOMAIN transactions \subseteq DOMAIN transactions'
    /\ \A t \in DOMAIN transactions : transactions'[t] = transactions[t]
    /\ DOMAIN events \subseteq DOMAIN events'
    /\ \A i \in DOMAIN events : events'[i] = events[i]
    /\ \A i \in DOMAIN events' \ DOMAIN events : events'[i].transaction_id \notin DOMAIN transactions
    /\ DOMAIN streams \subseteq DOMAIN streams'
    /\ DOMAIN jobs \subseteq DOMAIN jobs'
    /\ \A id \in DOMAIN jobs : /\ jobs'[id].enqueue_sequence = jobs[id].enqueue_sequence
                                /\ jobs[id].attempt <= jobs'[id].attempt
    /\ steady' \subseteq steady
    /\ \A i \in steady' \cap DOMAIN projection_entries :
          /\ i \in DOMAIN projection_entries'
          /\ projection_entries'[i].key = projection_entries[i].key

\* A transaction that leaves the jobs alone.
LEMMA IdleJobs ==
    ASSUME JobInv, UNCHANGED jobVars, TransactionsOK'
    PROVE  JobInv'
<1>1. jobs' = jobs /\ active_partitions' = active_partitions /\ queue_cursors' = queue_cursors
      /\ claim_receipts' = claim_receipts
  BY DEF jobVars
<1>2. TypeOK'
  BY <1>1 DEF JobInv, TypeOK, TransactionsOK
<1>3. MaxExists'
  <2>1. EnqueueSequences' = EnqueueSequences
    BY <1>1 DEF EnqueueSequences
  <2>2. \E m \in TransactionSequences' \cup {0} :
           \A n \in TransactionSequences' \cup {0} : m >= n
    BY DEF TransactionsOK
  <2> QED
    BY <2>1, <2>2 DEF JobInv, MaxExists
<1>4. SchemaChecks' /\ AttemptsBounded' /\ PartitionOrder'
  BY <1>1 DEF JobInv, SchemaChecks, AttemptsBounded, PartitionOrder
<1>5. ActivePartitionsExact'
  BY <1>1 DEF JobInv, ActivePartitionsExact
<1> QED
  BY <1>2, <1>3, <1>4, <1>5 DEF JobInv

\* The job tables after a batch.
LEMMA BatchKeepsJobs ==
    ASSUME DataInv, NEW b \in Commits, CommitBatch(b)
    PROVE  /\ JobInv' /\ ReceiptInv'
           /\ IsFiniteSet(DOMAIN jobs') /\ IsFiniteSet(claim_receipts')
           /\ DOMAIN jobs \subseteq DOMAIN jobs'
           /\ \A id \in DOMAIN jobs' : jobs'[id].enqueue_sequence \in Nat \ {0}
           /\ \A id \in DOMAIN jobs : /\ jobs'[id].enqueue_sequence = jobs[id].enqueue_sequence
                                       /\ jobs[id].attempt <= jobs'[id].attempt
<1>1. /\ b.transaction_id \in TxIds /\ b.transaction_id \notin DOMAIN transactions
      /\ InsertTransaction(b.transaction_id, b)
  BY CommitAssumption DEF CommitBatch
<1>2. JobInv /\ ReceiptInv /\ TypeOK /\ MaxExists
  BY DEF DataInv, JobInv
<1>3. TransactionsOK'
  BY <1>1, <1>2, InsertTransactionKeepsInv DEF TransactionsOK
<1>4. DOMAIN transactions' = DOMAIN transactions \cup {b.transaction_id}
  BY <1>1 DEF InsertTransaction
<1>5. \A id \in DOMAIN jobs : jobs[id].attempt \in Nat
  BY <1>2 DEF TypeOK, JobRow
<1>6. CASE b.job = None
  <2>1. UNCHANGED jobVars
    BY <1>6 DEF CommitBatch
  <2>2. jobs' = jobs /\ claim_receipts' = claim_receipts
    BY <2>1 DEF jobVars
  <2>3. JobInv'
    BY <1>2, <1>3, <2>1, IdleJobs
  <2>4. ReceiptInv'
    <3>1. /\ ReceiptPerAttempt' = ReceiptPerAttempt
          /\ LeaseMatchesReceipt' = LeaseMatchesReceipt /\ TokensUnique' = TokensUnique
      BY <2>2 DEF ReceiptPerAttempt, LeaseMatchesReceipt, TokensUnique
    <3>2. ReceiptOrigin'
      BY <1>2, <1>4, <2>2 DEF ReceiptInv, ReceiptOrigin
    <3> QED
      BY <1>2, <3>1, <3>2 DEF ReceiptInv
  <2> QED
    BY <1>5, <2>2, <2>3, <2>4 DEF DataInv
<1>7. CASE b.job # None
  <2>1. b.job \in JobSpecs /\ ApplyEnqueue(b.job)
    BY <1>7, CommitAssumption DEF CommitBatch
  <2>2. JobInv'
    BY <1>2, <1>3, <2>1, EnqueueKeepsRows
  <2> DEFINE new == b.job.job_id
             row == NewRow(b.job)
  <2>3. /\ row.attempt = 0 /\ row.state = "Pending"
        /\ row.enqueue_sequence = NextSequence(EnqueueSequences)
    BY DEF NewRow
  <2>4. /\ new \notin DOMAIN jobs /\ claim_receipts' = claim_receipts
        /\ jobs' = [id \in DOMAIN jobs \cup {new} |-> IF id = new THEN row ELSE jobs[id]]
    BY <2>1 DEF ApplyEnqueue, CanEnqueue
  <2> HIDE DEF row, new
  <2>5. /\ DOMAIN jobs' = DOMAIN jobs \cup {new} /\ jobs'[new] = row
        /\ \A id \in DOMAIN jobs : jobs'[id] = jobs[id]
    BY <2>4
  <2>6. QuietStep
    BY <1>4, <2>3, <2>4, <2>5 DEF QuietStep
  <2>7. ReceiptInv'
    BY <1>2, <2>6, QuietKeepsReceipts
  <2>8. IsFiniteSet(DOMAIN jobs')
    BY <2>5, FS_AddElement DEF DataInv
  <2>9. row.enqueue_sequence \in Nat \ {0}
    <3>1. EnqueueSequences \in SUBSET Nat
      BY <1>2 DEF TypeOK, JobRow, EnqueueSequences
    <3> QED
      BY <1>2, <2>3, <3>1, NextSequenceFresh DEF MaxExists
  <2>10. \A id \in DOMAIN jobs' : jobs'[id].enqueue_sequence \in Nat \ {0}
    BY <2>5, <2>9 DEF DataInv
  <2> QED
    BY <1>5, <2>2, <2>4, <2>5, <2>7, <2>8, <2>10 DEF DataInv
<1> QED
  BY <1>6, <1>7

\* The log after a batch.
LEMMA BatchKeepsLog ==
    ASSUME DataInv, NEW b \in Commits, CommitBatch(b)
    PROVE  /\ LogInv'
           /\ DOMAIN events \subseteq DOMAIN events' /\ DOMAIN streams \subseteq DOMAIN streams'
           /\ \A i \in DOMAIN events : events'[i] = events[i]
           /\ \A i \in DOMAIN events' \ DOMAIN events :
                 events'[i].transaction_id \notin DOMAIN transactions
<1> DEFINE t == b.transaction_id
           s == b.stream_id
           v == CurrentStreamVersion(s) + 1
           event == [event_id |-> b.event_id, transaction_id |-> t, stream_id |-> s,
                     stream_version |-> v]
<1>1. LogInv
  BY DEF DataInv
<1>2. t \in TxIds /\ s \in Nat \ {0} /\ t \notin DOMAIN transactions
  BY CommitAssumption DEF CommitBatch
<1>3. DOMAIN transactions' = DOMAIN transactions \cup {t}
  BY DEF CommitBatch, InsertTransaction
<1>4. CurrentStreamVersion(s) \in Nat /\ (s \in DOMAIN streams => streams[s] < v)
  BY <1>1 DEF CurrentStreamVersion, LogInv
<1>5. events' = Append(events, event)
  BY DEF CommitBatch
<1>6. streams' = [r \in DOMAIN streams \cup {s} |->
                     IF r = s THEN CurrentStreamVersion(r) + 1 ELSE streams[r]]
  BY DEF CommitBatch
<1>7. /\ event \in EventRow /\ event.transaction_id = t /\ event.stream_id = s
      /\ event.stream_version = v
  BY <1>2, <1>4 DEF EventRow
<1>8. /\ DOMAIN streams' = DOMAIN streams \cup {s} /\ streams'[s] = v
      /\ \A r \in DOMAIN streams \ {s} : streams'[r] = streams[r]
  BY <1>6
<1>9. v \in Nat
  BY <1>4
<1> HIDE DEF event, v, t, s
<1>10. /\ events' \in Seq(EventRow) /\ Len(events) \in Nat
       /\ DOMAIN events = 1 .. Len(events) /\ DOMAIN events' = 1 .. Len(events) + 1
       /\ events'[Len(events) + 1] = event
       /\ \A i \in DOMAIN events : events'[i] = events[i]
  BY <1>1, <1>5, <1>7 DEF LogInv
<1>11. \A i \in DOMAIN events : events[i] \in EventRow
  BY <1>1, <1>10 DEF LogInv
<1>12. \A r \in DOMAIN streams : streams[r] <= streams'[r] /\ streams'[r] \in Nat
  BY <1>1, <1>4, <1>8, <1>9 DEF LogInv
<1>13. ASSUME NEW i \in DOMAIN events'
       PROVE  /\ events'[i].transaction_id \in DOMAIN transactions'
              /\ events'[i].stream_id \in DOMAIN streams'
              /\ events'[i].stream_version <= streams'[events'[i].stream_id]
  <2>1. CASE i = Len(events) + 1
    BY <1>3, <1>7, <1>8, <1>9, <1>10, <2>1
  <2>2. CASE i \in DOMAIN events
    <3>1. /\ events'[i] = events[i] /\ events[i].transaction_id \in DOMAIN transactions
          /\ events[i].stream_id \in DOMAIN streams
          /\ events[i].stream_version <= streams[events[i].stream_id]
      BY <1>1, <1>10, <2>2 DEF LogInv
    <3>2. /\ events[i].stream_version \in Nat
          /\ streams[events[i].stream_id] \in Nat
      BY <1>1, <1>11, <2>2, <3>1 DEF LogInv, EventRow
    <3>3. /\ streams[events[i].stream_id] <= streams'[events[i].stream_id]
          /\ streams'[events[i].stream_id] \in Nat
      BY <1>12, <3>1
    <3> QED
      BY <1>3, <1>8, <3>1, <3>2, <3>3
  <2> QED
    BY <1>10, <2>1, <2>2
<1>14. IsFiniteSet(DOMAIN streams') /\ DOMAIN streams' \subseteq Nat \ {0}
  BY <1>1, <1>2, <1>8, FS_AddElement DEF LogInv
<1>15. \A r \in DOMAIN streams' : streams'[r] \in Nat
  BY <1>8, <1>9, <1>12
<1>16. LogInv'
  BY <1>10, <1>13, <1>14, <1>15 DEF LogInv
<1>17. \A i \in DOMAIN events' \ DOMAIN events : events'[i].transaction_id \notin DOMAIN transactions
  BY <1>2, <1>7, <1>10
<1> QED
  BY <1>8, <1>10, <1>16, <1>17

\* Whatever a mutation does to the table, a rowid is positive and a key has one row.
LEMMA MutationKeepsEntries ==
    ASSUME EntriesInv, NEW mutation, MutateEntries(mutation)
    PROVE  EntriesInv'
<1>1. CASE projection_entries' = Upserted(mutation.key, mutation.value)
  <2> PICK key, value : key = mutation.key /\ value = mutation.value
    OBVIOUS
  <2> DEFINE rows == {i \in DOMAIN projection_entries : projection_entries[i].key = key}
             rowid == IF rows = {} THEN NextRowid ELSE CHOOSE i \in rows : TRUE
  <2>1. projection_entries' =
            [i \in DOMAIN projection_entries \cup {rowid} |->
                IF i = rowid THEN [key |-> key, value |-> value] ELSE projection_entries[i]]
    BY <1>1 DEF Upserted
  <2>2. \/ rows = {} /\ rowid = NextRowid
        \/ rowid \in rows
    OBVIOUS
  <2>3. /\ NextRowid \in Nat \ {0}
        /\ \A n \in DOMAIN projection_entries : n < NextRowid
    <3>1. DOMAIN projection_entries \in SUBSET Nat
      BY DEF EntriesInv
    <3> PICK used : used = DOMAIN projection_entries
      OBVIOUS
    <3>2. \E m \in used \cup {0} : \A n \in used \cup {0} : m >= n
      BY <3>1, GreatestOf DEF EntriesInv
    <3> QED
      BY <3>1, <3>2, NextSequenceFresh DEF NextRowid
  <2>4. rowid \in Nat \ {0}
    BY <2>2, <2>3 DEF EntriesInv
  <2> HIDE DEF rowid
  <2>5. /\ DOMAIN projection_entries' = DOMAIN projection_entries \cup {rowid}
        /\ projection_entries'[rowid].key = key
        /\ \A i \in DOMAIN projection_entries \ {rowid} :
              projection_entries'[i] = projection_entries[i]
    BY <2>1
  <2>6. \A i \in DOMAIN projection_entries \ {rowid} : projection_entries[i].key # key
    BY <2>2 DEF EntriesInv
  <2>7. IsFiniteSet(DOMAIN projection_entries') /\ DOMAIN projection_entries' \subseteq Nat \ {0}
    BY <2>4, <2>5, FS_AddElement DEF EntriesInv
  <2>8. ASSUME NEW i \in DOMAIN projection_entries', NEW j \in DOMAIN projection_entries',
               projection_entries'[i].key = projection_entries'[j].key
        PROVE  i = j
    <3>1. CASE i = rowid \/ j = rowid
      BY <2>5, <2>6, <2>8, <3>1
    <3>2. CASE i # rowid /\ j # rowid
      BY <2>5, <2>8, <3>2 DEF EntriesInv
    <3> QED
      BY <3>1, <3>2
  <2> QED
    BY <2>7, <2>8 DEF EntriesInv
<1>2. CASE projection_entries' = Deleted(mutation.key)
  <2> DEFINE kept == {i \in DOMAIN projection_entries : projection_entries[i].key # mutation.key}
  <2>1. projection_entries' = [i \in kept |-> projection_entries[i]]
    BY <1>2 DEF Deleted
  <2>2. kept \in SUBSET DOMAIN projection_entries
    OBVIOUS
  <2> HIDE DEF kept
  <2>3. IsFiniteSet(kept)
    BY <2>2, FS_Subset DEF EntriesInv
  <2>4. DOMAIN projection_entries' = kept
        /\ \A i \in kept : projection_entries'[i] = projection_entries[i]
    BY <2>1
  <2> QED
    BY <2>2, <2>3, <2>4 DEF EntriesInv
<1>3. CASE \E entry : projection_entries' = Replaced(entry)
  <2>1. DOMAIN projection_entries' = {1}
    BY <1>3 DEF Replaced
  <2>2. IsFiniteSet({1})
    BY FS_Singleton
  <2> QED
    BY <2>1, <2>2 DEF EntriesInv
<1> QED
  BY <1>1, <1>2, <1>3 DEF MutateEntries

\* commit_batch adds rows.
LEMMA BatchGrows ==
    ASSUME DataInv, NEW b \in Commits, CommitBatch(b)
    PROVE  DataInv' /\ Grown
<1>1. /\ JobInv' /\ ReceiptInv' /\ IsFiniteSet(DOMAIN jobs') /\ IsFiniteSet(claim_receipts')
      /\ \A id \in DOMAIN jobs' : jobs'[id].enqueue_sequence \in Nat \ {0}
      /\ DOMAIN jobs \subseteq DOMAIN jobs'
      /\ \A id \in DOMAIN jobs : /\ jobs'[id].enqueue_sequence = jobs[id].enqueue_sequence
                                  /\ jobs[id].attempt <= jobs'[id].attempt
  BY BatchKeepsJobs
<1>2. /\ LogInv'
      /\ DOMAIN events \subseteq DOMAIN events' /\ DOMAIN streams \subseteq DOMAIN streams'
      /\ \A i \in DOMAIN events : events'[i] = events[i]
      /\ \A i \in DOMAIN events' \ DOMAIN events :
            events'[i].transaction_id \notin DOMAIN transactions
  BY BatchKeepsLog
<1>3. EntriesInv'
  BY MutationKeepsEntries DEF DataInv, CommitBatch
<1>4. /\ Numbered(transactions)' /\ DOMAIN transactions \subseteq DOMAIN transactions'
      /\ \A t \in DOMAIN transactions : transactions'[t] = transactions[t]
  <2>1. /\ Numbered(transactions) /\ b.transaction_id \notin DOMAIN transactions
        /\ InsertTransaction(b.transaction_id, b)
    BY DEF DataInv, CommitBatch
  <2>2. /\ Numbered(transactions')
        /\ DOMAIN transactions' = DOMAIN transactions \cup {b.transaction_id}
        /\ \A u \in DOMAIN transactions : transactions'[u] = transactions[u]
    BY <2>1, InsertNumbers
  <2>3. Numbered(transactions)'
    BY <2>2 DEF Numbered
  <2> QED
    BY <2>2, <2>3
<1>5. DataInv'
  BY <1>1, <1>2, <1>3, <1>4 DEF DataInv
<1>6. /\ UNCHANGED exportVars
      /\ steady' = {i \in steady : /\ i \in DOMAIN projection_entries'
                                   /\ projection_entries'[i].key = projection_entries[i].key}
  BY DEF CommitBatch, KeepSteady
<1>7. /\ steady' \subseteq steady
      /\ \A i \in steady' : /\ i \in DOMAIN projection_entries'
                             /\ projection_entries'[i].key = projection_entries[i].key
  BY <1>6
<1> QED
  BY <1>1, <1>2, <1>4, <1>5, <1>6, <1>7 DEF Grown

\* claim_jobs adds a transaction and receipts.
LEMMA ClaimGrows ==
    ASSUME DataInv, CommitClaim
    PROVE  DataInv' /\ Grown
<1>1. PICK t \in TxIds, queue \in Queues, worker \in Workers, now \in Clocks,
           lease_ms \in LeaseDurations, limit \in ClaimLimits :
         t \notin DOMAIN transactions /\ ClaimJobs(t, queue, worker, now, lease_ms, limit)
  BY DEF CommitClaim
<1>2. JobInv /\ ReceiptInv /\ TypeOK /\ now \in Time
  BY SpecAssumption DEF DataInv, JobInv
<1>3. JobInv'
  BY <1>1, <1>2, ClaimKeepsInv
<1>4. ReceiptInv'
  BY <1>1, <1>2, ClaimKeepsReceipts
<1>5. InsertTransaction(t, ClaimDigest)
  BY <1>1 DEF ClaimJobs
<1>6. /\ Numbered(transactions)' /\ DOMAIN transactions \subseteq DOMAIN transactions'
      /\ \A u \in DOMAIN transactions : transactions'[u] = transactions[u]
  <2>1. Numbered(transactions)
    BY DEF DataInv
  <2>2. /\ Numbered(transactions')
        /\ DOMAIN transactions' = DOMAIN transactions \cup {t}
        /\ \A u \in DOMAIN transactions : transactions'[u] = transactions[u]
    BY <1>1, <1>5, <2>1, InsertNumbers
  <2>3. Numbered(transactions)'
    BY <2>2 DEF Numbered
  <2> QED
    BY <2>2, <2>3
<1>7. PICK grants \in SUBSET DOMAIN jobs, repairs \in SUBSET DOMAIN jobs, expiry \in Time :
         Claimed(t, worker, expiry, grants, repairs)
  BY <1>1, <1>2, ClaimEffect
<1>8. DOMAIN jobs' = DOMAIN jobs
  BY <1>7 DEF Claimed
<1>9. \A id \in DOMAIN jobs : /\ jobs'[id].enqueue_sequence = jobs[id].enqueue_sequence
                              /\ jobs[id].attempt <= jobs'[id].attempt
  <2> TAKE id \in DOMAIN jobs
  <2>1. jobs[id] \in JobRow
    BY <1>2 DEF TypeOK
  <2>2. jobs[id].attempt \in Nat
    BY <2>1 DEF JobRow
  <2>3. jobs'[id].attempt \in {jobs[id].attempt, jobs[id].attempt + 1}
    <3>1. CASE id \in grants
      BY <1>7, <3>1 DEF Claimed
    <3>2. CASE id \in repairs
      BY <1>7, <3>2 DEF Claimed
    <3>3. CASE id \notin grants \cup repairs
      BY <1>7, <3>3 DEF Claimed
    <3> QED
      BY <3>1, <3>2, <3>3
  <2>4. jobs'[id].enqueue_sequence = jobs[id].enqueue_sequence
    <3> DEFINE planned == LeasePlan(queue, now, limit)
    <3>1. PICK due \in MaintenancePlans(queue, now) :
             jobs' = [j \in DOMAIN jobs |->
                         IF j \in due
                         THEN Released(jobs[j], MaintenanceState(jobs[j]), None)
                         ELSE IF j \in planned
                         THEN LeasedRow(jobs[j], <<t, j>>, worker, now + lease_ms)
                         ELSE jobs[j]]
      BY <1>1 DEF ClaimJobs
    <3> HIDE DEF planned
    <3>2. \/ jobs'[id] = Released(jobs[id], MaintenanceState(jobs[id]), None)
          \/ jobs'[id] = LeasedRow(jobs[id], <<t, id>>, worker, now + lease_ms)
          \/ jobs'[id] = jobs[id]
      BY <3>1
    <3>3. /\ Released(jobs[id], MaintenanceState(jobs[id]), None).enqueue_sequence
                = jobs[id].enqueue_sequence
          /\ LeasedRow(jobs[id], <<t, id>>, worker, now + lease_ms).enqueue_sequence
                = jobs[id].enqueue_sequence
      BY <2>1 DEF Released, LeasedRow, JobRow
    <3> QED
      BY <3>2, <3>3
  <2> QED
    BY <2>2, <2>3, <2>4
<1>10. UNCHANGED <<logVars, tableVars, exportVars, steady>>
  BY DEF CommitClaim
<1>11. /\ events' = events /\ streams' = streams /\ projection_entries' = projection_entries
       /\ steady' = steady /\ UNCHANGED exportVars
  BY <1>10 DEF logVars, tableVars
<1>12. LogInv' /\ EntriesInv'
  BY <1>6, <1>11 DEF DataInv, LogInv, EntriesInv
<1>R. IsFiniteSet(claim_receipts')
  <2> PICK f, S, old : /\ f = [id \in grants |-> ClaimReceipt(t, id, worker, expiry)]
                       /\ S = {ClaimReceipt(t, id, worker, expiry) : id \in grants}
                       /\ old = claim_receipts
    OBVIOUS
  <2>1. f = [id \in grants |-> f[id]] /\ (\A id \in grants : f[id] \in S)
        /\ \A r \in S : \E id \in grants : f[id] = r
    OBVIOUS
  <2>2. IsFiniteSet(grants)
    <3> PICK ids : ids = DOMAIN jobs
      OBVIOUS
    <3>1. IsFiniteSet(ids) /\ grants \in SUBSET ids
      BY DEF DataInv
    <3> QED
      BY <3>1, FS_Subset
  <2>3. IsFiniteSet(S)
    BY <2>1, <2>2, ImageOf
  <2>4. IsFiniteSet(old \cup S)
    BY <2>3, FS_Union DEF DataInv
  <2> QED
    BY <1>7, <2>4 DEF Claimed
<1>13. DataInv'
  BY <1>3, <1>4, <1>6, <1>8, <1>9, <1>R, <1>12 DEF DataInv
<1>14. Grown
  BY <1>6, <1>8, <1>9, <1>11 DEF Grown
<1> QED
  BY <1>13, <1>14

\* The numbers the statistics count.
NumbersOK ==
    /\ IsFiniteSet(TransactionSequences) /\ TransactionSequences \subseteq Nat \ {0}
    /\ Cardinality(TransactionSequences) = Cardinality(DOMAIN transactions)
    /\ IsFiniteSet(DOMAIN events) /\ DOMAIN events \subseteq Nat \ {0}
    /\ Cardinality(DOMAIN events) = Len(events)
    /\ IsFiniteSet(DOMAIN streams) /\ DOMAIN streams \subseteq Nat \ {0}
    /\ IsFiniteSet(EnqueueSequences) /\ EnqueueSequences \subseteq Nat \ {0}
    /\ Cardinality(EnqueueSequences) = Cardinality(DOMAIN jobs)

LEMMA NumbersCounted == DataInv => NumbersOK
<1> SUFFICES ASSUME DataInv PROVE NumbersOK
  OBVIOUS
<1>1. /\ IsFiniteSet(TransactionSequences) /\ TransactionSequences \subseteq Nat \ {0}
      /\ Cardinality(TransactionSequences) = Cardinality(DOMAIN transactions)
  <2> PICK S, T, f : /\ S = DOMAIN transactions /\ T = TransactionSequences
                     /\ f = [t \in DOMAIN transactions |-> transactions[t].transaction_sequence]
    OBVIOUS
  <2>1. Numbered(transactions)
    BY DEF DataInv
  <2>2. IsFiniteSet(S) /\ f = [x \in S |-> f[x]]
    BY <2>1 DEF Numbered
  <2>3. \A x \in S : f[x] \in T
    BY DEF TransactionSequences
  <2>4. \A y \in T : \E x \in S : f[x] = y
    BY DEF TransactionSequences
  <2>5. \A x, y \in S : f[x] = f[y] => x = y
    BY <2>1 DEF Numbered
  <2>6. IsFiniteSet(T) /\ Cardinality(T) = Cardinality(S)
    BY <2>2, <2>3, <2>4, <2>5, ImageOf
  <2>7. TransactionSequences \subseteq Nat \ {0}
    <3>1. Cardinality(DOMAIN transactions) \in Nat
      BY <2>1, FS_CardinalityType DEF Numbered
    <3> QED
      BY <2>1, <3>1 DEF Numbered, TransactionSequences
  <2> QED
    BY <2>6, <2>7
<1>2. /\ IsFiniteSet(DOMAIN events) /\ DOMAIN events \subseteq Nat \ {0}
      /\ Cardinality(DOMAIN events) = Len(events)
  <2>1. Len(events) \in Nat /\ DOMAIN events = 1 .. Len(events)
    BY DEF DataInv, LogInv
  <2> PICK n : n = Len(events)
    OBVIOUS
  <2>2. IsFiniteSet(1 .. n) /\ Cardinality(1 .. n) = n
    <3>1. n \in Nat /\ n \in Int /\ 1 \in Int
      BY <2>1
    <3>2. IsFiniteSet(1 .. n) /\ Cardinality(1 .. n) = IF 1 > n THEN 0 ELSE n - 1 + 1
      BY <3>1, FS_Interval
    <3> QED
      BY <3>1, <3>2
  <2> QED
    BY <2>1, <2>2
<1>3. /\ IsFiniteSet(EnqueueSequences) /\ EnqueueSequences \subseteq Nat \ {0}
      /\ Cardinality(EnqueueSequences) = Cardinality(DOMAIN jobs)
  <2> PICK S, T, f : /\ S = DOMAIN jobs /\ T = EnqueueSequences
                     /\ f = [id \in DOMAIN jobs |-> jobs[id].enqueue_sequence]
    OBVIOUS
  <2>1. IsFiniteSet(S) /\ f = [x \in S |-> f[x]]
    BY DEF DataInv
  <2>2. \A x \in S : f[x] \in T
    BY DEF EnqueueSequences
  <2>3. \A y \in T : \E x \in S : f[x] = y
    BY DEF EnqueueSequences
  <2>4. \A x, y \in S : f[x] = f[y] => x = y
    BY DEF DataInv, JobInv, SchemaChecks
  <2>5. IsFiniteSet(T) /\ Cardinality(T) = Cardinality(S)
    BY <2>1, <2>2, <2>3, <2>4, ImageOf
  <2>6. EnqueueSequences \subseteq Nat \ {0}
    BY DEF DataInv, EnqueueSequences
  <2> QED
    BY <2>5, <2>6
<1> QED
  BY <1>1, <1>2, <1>3 DEF NumbersOK, DataInv, LogInv

LEMMA NumbersCountedNext == DataInv' => NumbersOK'
BY NumbersCounted, PTL

\* More numbers, more of them behind a cursor.
LEMMA AheadGrows ==
    ASSUME NEW few, NEW many, few \subseteq many, IsFiniteSet(many), NEW after
    PROVE  /\ Cardinality(Ahead(few, after)) \in Nat /\ Cardinality(Ahead(many, after)) \in Nat
           /\ Cardinality(Ahead(few, after)) <= Cardinality(Ahead(many, after))
<1>1. Ahead(few, after) \in SUBSET Ahead(many, after) /\ Ahead(many, after) \in SUBSET many
  BY DEF Ahead
<1>2. IsFiniteSet(Ahead(many, after))
  BY <1>1, FS_Subset
<1>3. /\ IsFiniteSet(Ahead(few, after))
      /\ Cardinality(Ahead(few, after)) <= Cardinality(Ahead(many, after))
  BY <1>1, <1>2, FS_Subset
<1> QED
  BY <1>2, <1>3, FS_CardinalityType

\* So what the statistics say stays covered.
LEMMA CoveredGrows ==
    ASSUME Progress, UNCHANGED exportVars, NEW i \in 1 .. 8, NEW few, NEW many,
           i \notin {4, 7}, few \subseteq many, IsFiniteSet(many), NEW claimed,
           Covered(i, few, claimed)
    PROVE  Covered(i, many, claimed)'
<1>1. stage' = stage /\ last' = last /\ out' = out
  BY DEF exportVars
<1> PICK after : after = IF stage = i THEN last ELSE 0
  OBVIOUS
<1>2. /\ Cardinality(Ahead(few, after)) \in Nat /\ Cardinality(Ahead(many, after)) \in Nat
      /\ Cardinality(Ahead(few, after)) <= Cardinality(Ahead(many, after))
  BY AheadGrows
<1>3. ExportTables[i] \in Tables \ {"projection_meta", "active_partitions"}
  BY DEF Tables, ExportTables, Range
<1>4. Len(out[ExportTables[i]]) \in Nat
  BY <1>3 DEF Progress
<1>5. /\ claimed \in Nat
      /\ stage <= i => Len(out[ExportTables[i]]) + Cardinality(Ahead(few, after)) >= claimed
      /\ stage > i => Len(out[ExportTables[i]]) >= claimed
  BY DEF Covered
<1>6. stage <= i => Len(out[ExportTables[i]]) + Cardinality(Ahead(many, after)) >= claimed
  BY <1>2, <1>4, <1>5
<1> QED
  BY <1>1, <1>5, <1>6 DEF Covered

\* The export's invariant survives a commit.
LEMMA GrownKeepsExport ==
    ASSUME DataInv, DataInv', Grown, ExportInv
    PROVE  ExportInv'
<1>1. stage' = stage /\ last' = last /\ out' = out /\ header' = header
  BY DEF Grown, exportVars
<1>2. Progress'
  BY <1>1 DEF ExportInv, Progress
<1>3. TransactionsWritten'
  BY <1>1 DEF ExportInv, TransactionsWritten, Grown
<1>4. EventsWritten'
  <2>1. \A i \in DOMAIN out["events"] : i \in DOMAIN events' /\ out["events"][i] = events'[i]
    BY DEF ExportInv, EventsWritten, Grown
  <2>2. ASSUME stage > 2, NEW i \in DOMAIN events',
               events'[i].transaction_id \in Written("transactions")
        PROVE  i \in DOMAIN out["events"]
    <3>1. Written("transactions") \subseteq DOMAIN transactions
      BY DEF ExportInv, TransactionsWritten, Written, Range
    <3>2. i \in DOMAIN events /\ events'[i] = events[i]
      BY <2>2, <3>1 DEF Grown
    <3> QED
      BY <2>2, <3>2 DEF ExportInv, EventsWritten
  <2>3. Written("transactions")' = Written("transactions")
    BY <1>1 DEF Written
  <2> QED
    BY <1>1, <2>1, <2>2, <2>3 DEF ExportInv, EventsWritten
<1>5. StreamsWritten'
  <2>1. \A i \in DOMAIN out["events"] : events'[i] = events[i]
    BY DEF ExportInv, EventsWritten, Grown
  <2>2. SUFFICES ASSUME stage > 2, NEW i \in DOMAIN out["events"]
                 PROVE  (\E s \in Written("streams") :
                             /\ s.stream_id = events'[i].stream_id
                             /\ s.current_version >= events'[i].stream_version)
                         \/ (stage = 3 /\ events'[i].stream_id > last)
    BY <1>1 DEF StreamsWritten, StreamWritten, Written
  <2>3. StreamWritten(events[i]) \/ (stage = 3 /\ events[i].stream_id > last)
    BY <2>2 DEF ExportInv, StreamsWritten
  <2> QED
    BY <2>1, <2>3 DEF StreamWritten
<1>6. JobsWritten'
  <2>1. \A id \in DOMAIN jobs : /\ id \in DOMAIN jobs'
                                /\ jobs[id].attempt \in Nat /\ jobs'[id].attempt \in Nat
                                /\ jobs[id].attempt <= jobs'[id].attempt
    BY DEF DataInv, JobInv, TypeOK, JobRow, Grown
  <2>2. /\ Written("jobs")' = Written("jobs")
        /\ Written("claim_receipts")' = Written("claim_receipts")
    BY <1>1 DEF Written
  <2>3. ASSUME NEW j \in Written("jobs")
        PROVE  /\ j.job_id \in DOMAIN jobs' /\ j.attempt \in Nat
               /\ j.attempt <= jobs'[j.job_id].attempt
    <3>1. j.job_id \in DOMAIN jobs /\ j.attempt \in Nat /\ j.attempt <= jobs[j.job_id].attempt
      BY DEF ExportInv, JobsWritten
    <3> QED
      BY <2>1, <3>1
  <2> QED
    BY <1>1, <2>2, <2>3 DEF ExportInv, JobsWritten
<1>7. EntriesWritten'
  <2>1. SUFFICES ASSUME (stage = 5 /\ last > 0) \/ stage = 6, NEW i \in steady'
                 PROVE  /\ i \in DOMAIN projection_entries'
                        /\ projection_entries'[i].key = projection_entries[i].key
                        /\ i \in steady
    BY <1>1 DEF ExportInv, EntriesWritten
  <2>2. i \in steady
    BY DEF Grown
  <2>3. i \in DOMAIN projection_entries
    BY <2>1, <2>2 DEF ExportInv, EntriesWritten
  <2> QED
    BY <2>2, <2>3 DEF Grown
<1>8. HeaderCovered'
  <2>1. NumbersOK'
    BY NumbersCountedNext
  <2> PICK sequences, positions, ids, places : /\ sequences = TransactionSequences'
                                               /\ positions = DOMAIN events'
                                               /\ ids = DOMAIN streams'
                                               /\ places = EnqueueSequences'
    OBVIOUS
  <2> PICK old1, old2, old3, old6 : /\ old1 = TransactionSequences
                                    /\ old2 = DOMAIN events
                                    /\ old3 = DOMAIN streams
                                    /\ old6 = EnqueueSequences
    OBVIOUS
  <2>2. old1 \subseteq sequences /\ IsFiniteSet(sequences)
    BY <2>1 DEF NumbersOK, Grown, TransactionSequences
  <2>3. old2 \subseteq positions /\ IsFiniteSet(positions)
    BY <2>1 DEF NumbersOK, Grown
  <2>4. old3 \subseteq ids /\ IsFiniteSet(ids)
    BY <2>1 DEF NumbersOK, Grown
  <2>5. old6 \subseteq places /\ IsFiniteSet(places)
    BY <2>1 DEF NumbersOK, Grown, EnqueueSequences
  <2> PICK h : h = header
    OBVIOUS
  <2>6. /\ Covered(1, old1, h.transactions) /\ Covered(2, old2, h.events)
        /\ Covered(3, old3, h.streams) /\ Covered(6, old6, h.jobs)
    BY DEF ExportInv, HeaderCovered
  <2>7. Progress /\ UNCHANGED exportVars
    BY DEF ExportInv, Grown
  <2>8. /\ Covered(1, sequences, h.transactions)' /\ Covered(2, positions, h.events)'
        /\ Covered(3, ids, h.streams)' /\ Covered(6, places, h.jobs)'
    <3>1. Covered(1, sequences, h.transactions)'
      BY <2>2, <2>6, <2>7, CoveredGrows
    <3>2. Covered(2, positions, h.events)'
      BY <2>3, <2>6, <2>7, CoveredGrows
    <3>3. Covered(3, ids, h.streams)'
      BY <2>4, <2>6, <2>7, CoveredGrows
    <3>4. Covered(6, places, h.jobs)'
      BY <2>5, <2>6, <2>7, CoveredGrows
    <3> QED
      BY <3>1, <3>2, <3>3, <3>4
  <2> QED
    BY <1>1, <2>8 DEF ExportInv, HeaderCovered, Covered
<1> QED
  BY <1>2, <1>3, <1>4, <1>5, <1>6, <1>7, <1>8 DEF ExportInv

-----------------------------------------------------------------------------
(* The export *)

\* Without an order a page still lists every row.
LEMMA SequenceOfSet ==
    ASSUME NEW S, IsFiniteSet(S), NEW s, s = SetToSeq(S)
    PROVE  s \in Seq(S) /\ \A x \in S : \E k \in 1 .. Len(s) : s[k] = x
<1> PICK n : n = Cardinality(S)
  OBVIOUS
<1>1. n \in Nat /\ ExistsBijection(1 .. n, S)
  BY FS_CardinalityType
<1>2. PICK f : f \in Bijection(1 .. n, S)
  BY <1>1 DEF ExistsBijection
<1>3. f \in [1 .. n -> S] /\ IsInjective(f)
  BY <1>2 DEF Bijection, Injection
<1>4. s \in [1 .. n -> S] /\ IsInjective(s)
  BY <1>3 DEF SetToSeq
<1>5. IsFiniteSet(1 .. n) /\ Cardinality(1 .. n) = n
  <2>1. n \in Int /\ 1 \in Int
    BY <1>1
  <2>2. IsFiniteSet(1 .. n) /\ Cardinality(1 .. n) = IF 1 > n THEN 0 ELSE n - 1 + 1
    BY <2>1, FS_Interval
  <2> QED
    BY <1>1, <2>2
<1>6. s \in Injection(1 .. n, S)
  BY <1>4 DEF Injection
<1>7. s \in Surjection(1 .. n, S)
  BY <1>5, <1>6, FS_Injection
<1>8. \A x \in S : \E k \in 1 .. n : s[k] = x
  BY <1>7 DEF Surjection
<1>9. s \in Seq(S) /\ Len(s) = n
  BY <1>1, <1>4
<1> QED
  BY <1>8, <1>9

\* The order of the tables.
LEMMA TheTables ==
    /\ DOMAIN ExportTables = 1 .. 8 /\ Len(ExportTables) = 8
    /\ ExportTables[1] = "transactions" /\ ExportTables[2] = "events"
    /\ ExportTables[3] = "streams" /\ ExportTables[4] = "projection_meta"
    /\ ExportTables[5] = "projection_entries" /\ ExportTables[6] = "jobs"
    /\ ExportTables[7] = "active_partitions" /\ ExportTables[8] = "claim_receipts"
    /\ Tables = {"transactions", "events", "streams", "projection_meta", "projection_entries",
                 "jobs", "active_partitions", "claim_receipts"}
<1>1. DOMAIN ExportTables = 1 .. 8 /\ Len(ExportTables) = 8
  BY DEF ExportTables
<1>2. /\ ExportTables[1] = "transactions" /\ ExportTables[2] = "events"
      /\ ExportTables[3] = "streams" /\ ExportTables[4] = "projection_meta"
      /\ ExportTables[5] = "projection_entries" /\ ExportTables[6] = "jobs"
      /\ ExportTables[7] = "active_partitions" /\ ExportTables[8] = "claim_receipts"
  BY DEF ExportTables
<1>3. \A i \in 1 .. 8 : i \in {1, 2, 3, 4, 5, 6, 7, 8}
  OBVIOUS
<1>4. \A i \in {1, 2, 3, 4, 5, 6, 7, 8} : i \in 1 .. 8
  OBVIOUS
<1>5. Tables = {ExportTables[i] : i \in {1, 2, 3, 4, 5, 6, 7, 8}}
  BY <1>1, <1>3, <1>4 DEF Tables, Range
<1>6. Tables = {"transactions", "events", "streams", "projection_meta", "projection_entries",
                "jobs", "active_partitions", "claim_receipts"}
  BY <1>2, <1>5
<1> QED
  BY <1>1, <1>2, <1>6

\* The rows of the paged tables are told apart by the cursor column.
LEMMA RowsKeyed ==
    ASSUME DataInv
    PROVE  /\ Keyed(TransactionRows) /\ Keyed(EventRows) /\ Keyed(StreamRows)
           /\ Keyed(EntryRows) /\ Keyed(JobRows) /\ IsFiniteSet(ReceiptRows)
<1>1. Keyed(TransactionRows)
  <2> PICK S, T, f : /\ S = DOMAIN transactions /\ T = TransactionRows
                     /\ f = [t \in DOMAIN transactions |->
                               [at |-> transactions[t].transaction_sequence, row |-> t]]
    OBVIOUS
  <2>1. Numbered(transactions) /\ Cardinality(DOMAIN transactions) \in Nat
    BY FS_CardinalityType DEF DataInv, Numbered
  <2>2. IsFiniteSet(S) /\ f = [x \in S |-> f[x]]
    BY <2>1 DEF Numbered
  <2>3. (\A x \in S : f[x] \in T) /\ \A y \in T : \E x \in S : f[x] = y
    BY DEF TransactionRows
  <2>4. IsFiniteSet(T)
    BY <2>2, <2>3, ImageOf
  <2>5. \A t \in DOMAIN transactions : transactions[t].transaction_sequence \in Nat
    BY <2>1 DEF Numbered
  <2>6. \A r \in TransactionRows : r.at \in Nat
    BY <2>5 DEF TransactionRows
  <2>7. ASSUME NEW q \in TransactionRows, NEW r \in TransactionRows, q.at = r.at PROVE q = r
    <3>1. PICK t \in DOMAIN transactions : q = [at |-> transactions[t].transaction_sequence, row |-> t]
      BY DEF TransactionRows
    <3>2. PICK u \in DOMAIN transactions : r = [at |-> transactions[u].transaction_sequence, row |-> u]
      BY DEF TransactionRows
    <3>3. t = u
      BY <2>1, <2>7, <3>1, <3>2 DEF Numbered
    <3> QED
      BY <3>1, <3>2, <3>3
  <2> QED
    BY <2>4, <2>6, <2>7 DEF Keyed
<1>2. Keyed(EventRows)
  <2> PICK S, T, f : /\ S = DOMAIN events /\ T = EventRows
                     /\ f = [i \in DOMAIN events |-> [at |-> i, row |-> events[i]]]
    OBVIOUS
  <2>1. IsFiniteSet(S) /\ S \subseteq Nat /\ f = [x \in S |-> f[x]]
    BY NumbersCounted DEF NumbersOK
  <2>2. (\A x \in S : f[x] \in T) /\ \A y \in T : \E x \in S : f[x] = y
    BY DEF EventRows
  <2>3. IsFiniteSet(T)
    BY <2>1, <2>2, ImageOf
  <2>4. \A r \in EventRows : r.at \in S /\ r = [at |-> r.at, row |-> events[r.at]]
    BY DEF EventRows
  <2>5. \A q, r \in EventRows : q.at = r.at => q = r
    BY <2>4
  <2>6. \A r \in EventRows : r.at \in Nat
    BY <2>1, <2>4
  <2> QED
    BY <2>3, <2>5, <2>6 DEF Keyed
<1>3. Keyed(StreamRows)
  <2> PICK S, T, f : /\ S = DOMAIN streams /\ T = StreamRows
                     /\ f = [s \in DOMAIN streams |->
                               [at |-> s, row |-> [stream_id |-> s, current_version |-> streams[s]]]]
    OBVIOUS
  <2>1. IsFiniteSet(S) /\ S \subseteq Nat /\ f = [x \in S |-> f[x]]
    BY NumbersCounted DEF NumbersOK
  <2>2. (\A x \in S : f[x] \in T) /\ \A y \in T : \E x \in S : f[x] = y
    BY DEF StreamRows
  <2>3. IsFiniteSet(T)
    BY <2>1, <2>2, ImageOf
  <2>4. \A r \in StreamRows :
           /\ r.at \in S
           /\ r = [at |-> r.at, row |-> [stream_id |-> r.at, current_version |-> streams[r.at]]]
    BY DEF StreamRows
  <2>5. \A q, r \in StreamRows : q.at = r.at => q = r
    BY <2>4
  <2>6. \A r \in StreamRows : r.at \in Nat
    BY <2>1, <2>4
  <2> QED
    BY <2>3, <2>5, <2>6 DEF Keyed
<1>4. Keyed(EntryRows)
  <2> PICK S, T, f : /\ S = DOMAIN projection_entries /\ T = EntryRows
                     /\ f = [i \in DOMAIN projection_entries |->
                               [at |-> i, row |-> projection_entries[i]]]
    OBVIOUS
  <2>1. IsFiniteSet(S) /\ S \subseteq Nat /\ f = [x \in S |-> f[x]]
    BY DEF DataInv, EntriesInv
  <2>2. (\A x \in S : f[x] \in T) /\ \A y \in T : \E x \in S : f[x] = y
    BY DEF EntryRows
  <2>3. IsFiniteSet(T)
    BY <2>1, <2>2, ImageOf
  <2>4. \A r \in EntryRows : r.at \in S /\ r = [at |-> r.at, row |-> projection_entries[r.at]]
    BY DEF EntryRows
  <2>5. \A q, r \in EntryRows : q.at = r.at => q = r
    BY <2>4
  <2>6. \A r \in EntryRows : r.at \in Nat
    BY <2>1, <2>4
  <2> QED
    BY <2>3, <2>5, <2>6 DEF Keyed
<1>5. Keyed(JobRows)
  <2> DEFINE RowOf(id) == [at |-> jobs[id].enqueue_sequence,
                           row |-> [job_id |-> id, state |-> jobs[id].state,
                                    attempt |-> jobs[id].attempt]]
  <2> PICK S, T, f : /\ S = DOMAIN jobs /\ T = JobRows
                     /\ f = [id \in DOMAIN jobs |-> RowOf(id)]
    OBVIOUS
  <2>1. IsFiniteSet(S) /\ f = [x \in S |-> f[x]]
    BY DEF DataInv
  <2>2. (\A x \in S : f[x] \in T) /\ \A y \in T : \E x \in S : f[x] = y
    BY DEF JobRows
  <2>3. IsFiniteSet(T)
    BY <2>1, <2>2, ImageOf
  <2>4. \A id \in DOMAIN jobs : jobs[id].enqueue_sequence \in Nat
    BY DEF DataInv
  <2>5. \A r \in JobRows : r.at \in Nat
    BY <2>4 DEF JobRows
  <2>6. ASSUME NEW q \in JobRows, NEW r \in JobRows, q.at = r.at PROVE q = r
    <3>1. PICK t \in DOMAIN jobs : q = RowOf(t)
      BY DEF JobRows
    <3>2. PICK u \in DOMAIN jobs : r = RowOf(u)
      BY DEF JobRows
    <3>3. jobs[t].enqueue_sequence = jobs[u].enqueue_sequence
      BY <2>6, <3>1, <3>2
    <3>4. t = u
      BY <3>3 DEF DataInv, JobInv, SchemaChecks
    <3> QED
      BY <3>1, <3>2, <3>4
  <2> QED
    BY <2>3, <2>5, <2>6 DEF Keyed
<1>6. IsFiniteSet(ReceiptRows)
  <2> PICK S, T, f : /\ S = claim_receipts /\ T = ReceiptRows
                     /\ f = [r \in claim_receipts |->
                               [at |-> 1, row |-> [transaction_id |-> r.transaction_id,
                                                   job_id |-> r.job_id, attempt |-> r.attempt]]]
    OBVIOUS
  <2>1. IsFiniteSet(S) /\ f = [x \in S |-> f[x]]
    BY DEF DataInv
  <2>2. (\A x \in S : f[x] \in T) /\ \A y \in T : \E x \in S : f[x] = y
    BY DEF ReceiptRows
  <2> QED
    BY <2>1, <2>2, ImageOf
<1> QED
  BY <1>1, <1>2, <1>3, <1>4, <1>5, <1>6

LEMMA RowsByName ==
    /\ RowsOf("transactions") = TransactionRows /\ RowsOf("events") = EventRows
    /\ RowsOf("streams") = StreamRows /\ RowsOf("projection_entries") = EntryRows
    /\ RowsOf("jobs") = JobRows /\ RowsOf("claim_receipts") = ReceiptRows
BY DEF RowsOf

\* What reading a page does.
PageTaken(page) ==
    /\ stage \in 1 .. 8 /\ last \in Nat
    /\ UNCHANGED <<storeVars, logVars, tableVars, header>>
    /\ DOMAIN out' = Tables
    /\ \A U \in Tables : U # Table => out'[U] = out[U]
    /\ Table \notin {"projection_meta", "active_partitions"} =>
          Appended(out[Table], page, out'[Table])
    /\ Table \notin Unpaged => PageOK(RowsOf(Table), last, page)
    /\ Table = "claim_receipts" => \A r \in ReceiptRows : \E k \in 1 .. Len(page) : page[k] = r
    /\ \/ /\ stage' = stage + 1 /\ last' = 0
          /\ Table \notin Unpaged => Len(page) < EXPORT_PAGE_SIZE
       \/ /\ stage' = stage /\ Table \notin Unpaged
          /\ Len(page) = EXPORT_PAGE_SIZE /\ last' = page[Len(page)].at
    /\ steady' = IF Table = "projection_entries" /\ last = 0 THEN DOMAIN projection_entries
                 ELSE steady

LEMMA PageIsTaken ==
    ASSUME DataInv, Progress, ExportPage
    PROVE  \E page : PageTaken(page)
<1> PICK page, T, rows, given : /\ page = PageOf(Table, last) /\ T = Table
                                /\ rows = RowsOf(Table) /\ given = out[Table]
  OBVIOUS
<1>1. stage \in 1 .. 8 /\ last \in Nat /\ DOMAIN out = Tables
  BY TheTables DEF ExportPage, Exporting, Progress
<1>2. T \in Tables /\ T = ExportTables[stage]
  BY <1>1, TheTables DEF Table, Tables, Range
<1>3. /\ out' = [out EXCEPT ![T] = given \o [i \in DOMAIN page |-> page[i].row]]
      /\ UNCHANGED <<storeVars, logVars, tableVars, header>>
      /\ stage' = IF LastPage(T, page) THEN stage + 1 ELSE stage
      /\ last' = IF LastPage(T, page) THEN 0 ELSE page[Len(page)].at
      /\ steady' = IF T = "projection_entries" /\ last = 0 THEN DOMAIN projection_entries
                   ELSE steady
  BY DEF ExportPage
<1>4. /\ DOMAIN out' = Tables /\ out'[T] = given \o [i \in DOMAIN page |-> page[i].row]
      /\ \A U \in Tables : U # T => out'[U] = out[U]
  BY <1>1, <1>2, <1>3
<1>5. T \notin Unpaged => PageOK(rows, last, page)
  <2>1. SUFFICES ASSUME T \notin Unpaged PROVE PageOK(rows, last, page)
    OBVIOUS
  <2>2. T \in {"transactions", "events", "streams", "projection_entries", "jobs"}
    BY <1>2, <2>1, TheTables DEF Unpaged
  <2>3. Keyed(rows)
    BY <2>2, RowsByName, RowsKeyed
  <2> PICK after : after = last
    OBVIOUS
  <2>4. after \in Nat
    BY <1>1
  <2>5. page = FirstRows(InOrder({r \in rows : r.at > after}), EXPORT_PAGE_SIZE)
    BY <2>1 DEF PageOf
  <2> QED
    BY <2>3, <2>4, <2>5, PageIsOK
<1>6. T = "claim_receipts" =>
         page \in Seq(rows) /\ \A r \in ReceiptRows : \E k \in 1 .. Len(page) : page[k] = r
  <2>1. SUFFICES ASSUME T = "claim_receipts"
                 PROVE  page \in Seq(rows) /\ \A r \in rows : \E k \in 1 .. Len(page) : page[k] = r
    BY RowsByName
  <2>2. IsFiniteSet(rows)
    BY <2>1, RowsByName, RowsKeyed
  <2>3. page = SetToSeq(rows)
    BY <2>1 DEF PageOf, Unpaged
  <2> QED
    BY <2>2, <2>3, SequenceOfSet
<1>7. T \notin {"projection_meta", "active_partitions"} => Appended(given, page, out'[T])
  <2>1. SUFFICES ASSUME T \notin {"projection_meta", "active_partitions"}
                 PROVE  Appended(given, page, out'[T])
    OBVIOUS
  <2> PICK result : result = out'[T]
    OBVIOUS
  <2>2. page \in Seq(rows)
    BY <1>2, <1>5, <1>6, <2>1, TheTables DEF PageOK, Unpaged
  <2>3. given \in Seq(Range(given))
    BY <1>2, <2>1 DEF Progress
  <2>4. result = given \o [i \in DOMAIN page |-> page[i].row]
    BY <1>4
  <2>5. Appended(given, page, result)
    BY <2>2, <2>3, <2>4, PageAppended
  <2> QED
    BY <2>5
<1>8. \/ /\ stage' = stage + 1 /\ last' = 0
         /\ T \notin Unpaged => Len(page) < EXPORT_PAGE_SIZE
      \/ /\ stage' = stage /\ T \notin Unpaged
         /\ Len(page) = EXPORT_PAGE_SIZE /\ last' = page[Len(page)].at
  <2>1. CASE LastPage(T, page)
    BY <1>3, <2>1 DEF LastPage
  <2>2. CASE ~LastPage(T, page)
    <3>1. T \notin Unpaged /\ ~(Len(page) < EXPORT_PAGE_SIZE)
      BY <2>2 DEF LastPage
    <3>2. Len(page) \in Nat /\ Len(page) <= EXPORT_PAGE_SIZE
      BY <1>5, <3>1 DEF PageOK
    <3>3. Len(page) = EXPORT_PAGE_SIZE
      BY <3>1, <3>2, ExportAssumption
    <3> QED
      BY <1>3, <2>2, <3>1, <3>3
  <2> QED
    BY <2>1, <2>2
<1>9. /\ \A U \in Tables : U # Table => out'[U] = out[U]
      /\ Table \notin {"projection_meta", "active_partitions"} =>
            Appended(out[Table], page, out'[Table])
      /\ Table \notin Unpaged => PageOK(RowsOf(Table), last, page)
      /\ Table = "claim_receipts" =>
            \A r \in ReceiptRows : \E k \in 1 .. Len(page) : page[k] = r
  <2>1. \A U \in Tables : U # Table => out'[U] = out[U]
    BY <1>4
  <2>2. Table \notin {"projection_meta", "active_partitions"} =>
           Appended(out[Table], page, out'[Table])
    BY <1>7, Zenon
  <2>3. Table \notin Unpaged => PageOK(RowsOf(Table), last, page)
    BY <1>5, Zenon
  <2>4. Table = "claim_receipts" =>
           \A r \in ReceiptRows : \E k \in 1 .. Len(page) : page[k] = r
    BY <1>6, Zenon
  <2> QED
    BY <2>1, <2>2, <2>3, <2>4
<1>10. \/ /\ stage' = stage + 1 /\ last' = 0
          /\ Table \notin Unpaged => Len(page) < EXPORT_PAGE_SIZE
       \/ /\ stage' = stage /\ Table \notin Unpaged
          /\ Len(page) = EXPORT_PAGE_SIZE /\ last' = page[Len(page)].at
  BY <1>8, Zenon
<1>11. steady' = IF Table = "projection_entries" /\ last = 0 THEN DOMAIN projection_entries
                 ELSE steady
  BY <1>3, Zenon
<1>12. PageTaken(page)
  BY <1>1, <1>3, <1>4, <1>9, <1>10, <1>11 DEF PageTaken
<1> QED
  BY <1>12

\* Progress is made.
LEMMA PageProgress ==
    ASSUME Progress, NEW page, PageTaken(page)
    PROVE  Progress'
<1>1. stage \in 1 .. 8 /\ last \in Nat
  BY DEF PageTaken
<1>2. \A i \in 1 .. 8 : ExportTables[i] \in Tables
  BY TheTables
<1>3. stage' \in 0 .. 9 /\ stage' # 0
  BY <1>1 DEF PageTaken
<1>4. last' \in Nat /\ (stage' = stage => last' > 0)
  <2>1. CASE stage' = stage + 1 /\ last' = 0
    BY <1>1, <2>1
  <2>2. CASE /\ stage' = stage /\ Table \notin Unpaged
             /\ Len(page) = EXPORT_PAGE_SIZE /\ last' = page[Len(page)].at
    <3>1. PageOK(RowsOf(Table), last, page)
      BY <2>2 DEF PageTaken
    <3>2. Len(page) \in 1 .. Len(page)
      BY <2>2, ExportAssumption
    <3>3. page[Len(page)].at \in Nat /\ page[Len(page)].at > last
      BY <3>1, <3>2 DEF PageOK
    <3>4. last' \in Nat /\ last' > last
      BY <2>2, <3>3
    <3> QED
      BY <1>1, <3>4
  <2> QED
    BY <2>1, <2>2 DEF PageTaken
<1>5. DOMAIN out' = Tables
  BY DEF PageTaken
<1>6. ASSUME NEW U \in Tables \ {"projection_meta", "active_partitions"}
      PROVE  out'[U] \in Seq(Range(out'[U]))
  <2>1. CASE U = Table
    BY <2>1 DEF PageTaken, Appended
  <2>2. CASE U # Table
    BY <2>2 DEF PageTaken, Progress
  <2> QED
    BY <2>1, <2>2
<1>7. ASSUME NEW i \in 1 .. 8, stage' < i \/ (stage' = i /\ last' = 0)
      PROVE  out'[ExportTables[i]] = <<>>
  <2>1. stage' \in {stage, stage + 1}
    BY DEF PageTaken
  <2>2. stage < i
    BY <1>1, <1>4, <1>7, <2>1
  <2>3. ExportTables[i] # Table
    <3>1. \A j, k \in 1 .. 8 : j < k => ExportTables[j] # ExportTables[k]
      BY DEF ExportTables
    <3> QED
      BY <1>1, <2>2, <3>1 DEF Table
  <2>4. out[ExportTables[i]] = <<>>
    BY <2>2 DEF Progress
  <2> QED
    BY <1>2, <2>3, <2>4 DEF PageTaken
<1> QED
  BY <1>3, <1>4, <1>5, <1>6, <1>7 DEF Progress

\* Which table is read at which stage, and what a page leaves alone.
LEMMA AtStage ==
    ASSUME NEW page, PageTaken(page)
    PROVE  /\ (stage = 1 <=> Table = "transactions") /\ (stage = 2 <=> Table = "events")
           /\ (stage = 3 <=> Table = "streams") /\ (stage = 5 <=> Table = "projection_entries")
           /\ (stage = 6 <=> Table = "jobs") /\ (stage = 8 <=> Table = "claim_receipts")
           /\ transactions' = transactions /\ events' = events /\ streams' = streams
           /\ jobs' = jobs /\ claim_receipts' = claim_receipts /\ header' = header
           /\ projection_entries' = projection_entries
           /\ stage \in 1 .. 8 /\ stage' \in {stage, stage + 1}
           /\ stage' = stage + 1 => last' = 0
<1>1. stage \in {1, 2, 3, 4, 5, 6, 7, 8}
  BY DEF PageTaken
<1>2. /\ (stage = 1 <=> Table = "transactions") /\ (stage = 2 <=> Table = "events")
      /\ (stage = 3 <=> Table = "streams") /\ (stage = 5 <=> Table = "projection_entries")
      /\ (stage = 6 <=> Table = "jobs") /\ (stage = 8 <=> Table = "claim_receipts")
  BY <1>1, TheTables DEF Table
<1>3. UNCHANGED <<storeVars, logVars, tableVars, header>>
  BY DEF PageTaken
<1>4. /\ transactions' = transactions /\ events' = events /\ streams' = streams
      /\ jobs' = jobs /\ claim_receipts' = claim_receipts /\ header' = header
      /\ projection_entries' = projection_entries
  BY <1>3 DEF storeVars, logVars, tableVars
<1>5. stage \in 1 .. 8 /\ stage' \in {stage, stage + 1} /\ (stage' = stage + 1 => last' = 0)
  BY DEF PageTaken
<1> QED
  BY <1>2, <1>4, <1>5

\* export_transactions: the next page continues with the next number.
LEMMA PageTransactions ==
    ASSUME DataInv, ExportInv, NEW page, PageTaken(page)
    PROVE  TransactionsWritten'
<1>1. /\ TransactionsWritten /\ Progress /\ transactions' = transactions /\ stage \in 1 .. 8
      /\ stage' \in {stage, stage + 1} /\ (stage = 1 <=> Table = "transactions")
  BY AtStage DEF ExportInv
<1>2. CASE stage # 1
  <2>1. out'["transactions"] = out["transactions"] /\ stage' # 1
    BY <1>1, <1>2, TheTables DEF PageTaken
  <2> QED
    BY <1>1, <2>1 DEF TransactionsWritten
<1>3. CASE stage = 1
  <2>1. Table = "transactions" /\ Table \notin Unpaged /\ RowsOf(Table) = TransactionRows
    BY <1>1, <1>3, RowsByName DEF Unpaged
  <2> PICK given, result, rows, after, n : /\ given = out["transactions"]
                                           /\ result = out'["transactions"]
                                           /\ rows = TransactionRows /\ after = last
                                           /\ n = Cardinality(DOMAIN transactions)
    OBVIOUS
  <2>2. Appended(given, page, result) /\ PageOK(rows, after, page)
    BY <2>1 DEF PageTaken
  <2>3. Numbered(transactions) /\ n \in Nat
    BY FS_CardinalityType DEF DataInv, Numbered
  <2>4. \A r \in rows : r.row \in DOMAIN transactions
                         /\ r.at = transactions[r.row].transaction_sequence
    BY DEF TransactionRows
  <2>5. Dense(rows, 1, n)
    <3>1. \A r \in rows : r.at \in 1 .. n
      BY <2>3, <2>4 DEF Numbered
    <3>2. \A v \in 1 .. n : \E r \in rows : r.at = v
      <4> TAKE v \in 1 .. n
      <4>1. PICK t \in DOMAIN transactions : transactions[t].transaction_sequence = v
        BY <2>3 DEF Numbered
      <4>2. [at |-> transactions[t].transaction_sequence, row |-> t] \in rows
        BY DEF TransactionRows
      <4> QED
        BY <4>1, <4>2
    <3>3. \A q, r \in rows : q.at = r.at => q = r
      BY RowsKeyed DEF Keyed
    <3> QED
      BY <3>1, <3>2, <3>3 DEF Dense
  <2>6. after \in Nat /\ after = Len(given)
    BY <1>1, <1>3 DEF TransactionsWritten, Progress
  <2>7. \A k \in 1 .. Len(page) : page[k].at = after + k
    BY <2>2, <2>3, <2>5, <2>6, DensePage
  <2>8. \A k \in 1 .. Len(page) : page[k] \in rows
    BY <2>2, ElementOfSeq DEF PageOK
  <2>9. ASSUME NEW i \in DOMAIN result
        PROVE  result[i] \in DOMAIN transactions
               /\ transactions[result[i]].transaction_sequence = i
    <3>1. CASE i \in DOMAIN given
      BY <1>1, <2>2, <3>1 DEF Appended, TransactionsWritten
    <3>2. CASE \E k \in 1 .. Len(page) : i = Len(given) + k
      <4>1. PICK k \in 1 .. Len(page) : i = Len(given) + k
        BY <3>2
      <4>2. result[i] = page[k].row
        BY <2>2, <4>1 DEF Appended
      <4> QED
        BY <2>4, <2>6, <2>7, <2>8, <4>1, <4>2
    <3> QED
      BY <2>2, <3>1, <3>2 DEF Appended
  <2>10. stage' = 1 => last' = Len(result)
    <3>1. SUFFICES ASSUME stage' = 1 PROVE last' = Len(result)
      OBVIOUS
    <3>2. Len(page) = EXPORT_PAGE_SIZE /\ last' = page[Len(page)].at
      BY <1>1, <1>3, <3>1 DEF PageTaken
    <3>3. Len(page) \in 1 .. Len(page)
      BY <3>2, ExportAssumption
    <3> QED
      BY <2>2, <2>6, <2>7, <3>2, <3>3 DEF Appended
  <2> QED
    BY <1>1, <2>9, <2>10 DEF TransactionsWritten
<1> QED
  BY <1>2, <1>3

\* export_events: likewise, and the last page reaches the end of the log.
LEMMA PageEvents ==
    ASSUME DataInv, ExportInv, NEW page, PageTaken(page)
    PROVE  EventsWritten'
<1>1. /\ EventsWritten /\ Progress /\ events' = events /\ stage \in 1 .. 8
      /\ stage' \in {stage, stage + 1} /\ (stage = 2 <=> Table = "events")
      /\ (stage = 1 <=> Table = "transactions") /\ (stage' = stage + 1 => last' = 0)
  BY AtStage DEF ExportInv
<1>2. CASE stage = 1
  <2>1. out["events"] = <<>>
    BY <1>2, TheTables DEF ExportInv, Progress
  <2>2. out'["events"] = <<>>
    BY <1>1, <1>2, <2>1, TheTables DEF PageTaken
  <2>3. stage' = 2 => last' = 0
    BY <1>1, <1>2
  <2>4. ~(stage' > 2)
    BY <1>1, <1>2
  <2> QED
    BY <2>2, <2>3, <2>4 DEF EventsWritten
<1>3. CASE stage > 2
  <2>1. /\ out'["events"] = out["events"] /\ out'["transactions"] = out["transactions"]
        /\ stage' # 2
    BY <1>1, <1>3, TheTables DEF PageTaken
  <2> QED
    BY <1>1, <1>3, <2>1 DEF EventsWritten, Written
<1>4. CASE stage = 2
  <2>1. Table = "events" /\ Table \notin Unpaged /\ RowsOf(Table) = EventRows
    BY <1>1, <1>4, RowsByName DEF Unpaged
  <2> PICK given, result, rows, after, n : /\ given = out["events"]
                                           /\ result = out'["events"]
                                           /\ rows = EventRows /\ after = last
                                           /\ n = Len(events)
    OBVIOUS
  <2>2. Appended(given, page, result) /\ PageOK(rows, after, page)
    BY <2>1 DEF PageTaken
  <2>3. n \in Nat /\ DOMAIN events = 1 .. n
    BY DEF DataInv, LogInv
  <2>4. \A r \in rows : r.at \in DOMAIN events /\ r.row = events[r.at]
    BY DEF EventRows
  <2>5. Dense(rows, 1, n)
    <3>1. \A r \in rows : r.at \in 1 .. n
      BY <2>3, <2>4
    <3>2. \A v \in 1 .. n : \E r \in rows : r.at = v
      <4> TAKE v \in 1 .. n
      <4>1. [at |-> v, row |-> events[v]] \in rows
        BY <2>3 DEF EventRows
      <4> QED
        BY <4>1
    <3>3. \A q, r \in rows : q.at = r.at => q = r
      BY RowsKeyed DEF Keyed
    <3> QED
      BY <3>1, <3>2, <3>3 DEF Dense
  <2>6. after \in Nat /\ after = Len(given)
    BY <1>1, <1>4 DEF EventsWritten, Progress
  <2>7. \A k \in 1 .. Len(page) : page[k].at = after + k
    BY <2>2, <2>3, <2>5, <2>6, DensePage
  <2>8. Len(page) < EXPORT_PAGE_SIZE => n <= after + Len(page)
    BY <2>2, <2>3, <2>5, <2>6, DensePage
  <2>9. \A k \in 1 .. Len(page) : page[k] \in rows
    BY <2>2, ElementOfSeq DEF PageOK
  <2>10. ASSUME NEW i \in DOMAIN result
         PROVE  i \in DOMAIN events /\ result[i] = events[i]
    <3>1. CASE i \in DOMAIN given
      BY <1>1, <2>2, <3>1 DEF Appended, EventsWritten
    <3>2. CASE \E k \in 1 .. Len(page) : i = Len(given) + k
      <4>1. PICK k \in 1 .. Len(page) : i = Len(given) + k
        BY <3>2
      <4>2. result[i] = page[k].row /\ page[k].at = i
        BY <2>2, <2>6, <2>7, <4>1 DEF Appended
      <4> QED
        BY <2>4, <2>9, <4>2
    <3> QED
      BY <2>2, <3>1, <3>2 DEF Appended
  <2>11. stage' = 2 => last' = Len(result)
    <3>1. SUFFICES ASSUME stage' = 2 PROVE last' = Len(result)
      OBVIOUS
    <3>2. Len(page) = EXPORT_PAGE_SIZE /\ last' = page[Len(page)].at
      BY <1>1, <1>4, <3>1 DEF PageTaken
    <3>3. Len(page) \in 1 .. Len(page)
      BY <3>2, ExportAssumption
    <3> QED
      BY <2>2, <2>6, <2>7, <3>2, <3>3 DEF Appended
  <2>12. stage' > 2 => DOMAIN events \subseteq DOMAIN result
    <3>1. SUFFICES ASSUME stage' > 2 PROVE DOMAIN events \subseteq DOMAIN result
      OBVIOUS
    <3>2. Len(page) < EXPORT_PAGE_SIZE
      BY <1>1, <1>4, <2>1, <3>1 DEF PageTaken
    <3>3. n <= Len(given) + Len(page) /\ Len(given) + Len(page) \in Nat
      BY <2>2, <2>6, <2>8, <3>2 DEF Appended
    <3>4. DOMAIN result = 1 .. Len(given) + Len(page)
      BY <2>2 DEF Appended
    <3> QED
      BY <2>3, <3>3, <3>4
  <2> QED
    BY <1>1, <2>10, <2>11, <2>12 DEF EventsWritten
<1> QED
  BY <1>1, <1>2, <1>3, <1>4

\* export_streams: the stream of an event written is written when the cursor
\* passes it, at the event's version or a later one.
LEMMA PageStreams ==
    ASSUME DataInv, ExportInv, NEW page, PageTaken(page)
    PROVE  StreamsWritten'
<1>1. /\ StreamsWritten /\ EventsWritten /\ Progress /\ LogInv
      /\ events' = events /\ streams' = streams /\ stage \in 1 .. 8
      /\ stage' \in {stage, stage + 1} /\ (stage' = stage + 1 => last' = 0)
      /\ (stage = 2 <=> Table = "events") /\ (stage = 3 <=> Table = "streams")
  BY AtStage DEF ExportInv, DataInv
<1>2. CASE stage = 1
  BY <1>1, <1>2 DEF StreamsWritten
<1>3. CASE stage = 2
  <2>1. SUFFICES ASSUME stage' > 2, NEW i \in DOMAIN out'["events"]
                 PROVE  stage' = 3 /\ events'[i].stream_id > last'
    BY DEF StreamsWritten
  <2>2. EventsWritten'
    BY PageEvents
  <2>3. i \in DOMAIN events /\ events' = events
    BY <1>1, <2>2 DEF EventsWritten
  <2>4. events[i].stream_id \in Nat \ {0}
    BY <1>1, <2>3 DEF LogInv
  <2> QED
    BY <1>1, <1>3, <2>1, <2>3, <2>4
<1>4. CASE stage > 3
  <2>1. /\ out'["events"] = out["events"] /\ out'["streams"] = out["streams"]
    BY <1>1, <1>4, TheTables DEF PageTaken
  <2>2. \A i \in DOMAIN out["events"] :
           \E s \in Range(out["streams"]) :
               /\ s.stream_id = events[i].stream_id
               /\ s.current_version >= events[i].stream_version
    BY <1>1, <1>4 DEF StreamsWritten, StreamWritten, Written
  <2> QED
    BY <1>1, <2>1, <2>2 DEF StreamsWritten, StreamWritten, Written
<1>5. CASE stage = 3
  <2>1. Table = "streams" /\ Table \notin Unpaged /\ RowsOf(Table) = StreamRows
    BY <1>1, <1>5, RowsByName DEF Unpaged
  <2> PICK given, result, rows, after : /\ given = out["streams"]
                                        /\ result = out'["streams"]
                                        /\ rows = StreamRows /\ after = last
    OBVIOUS
  <2>2. Appended(given, page, result) /\ PageOK(rows, after, page)
    BY <2>1 DEF PageTaken
  <2>3. out'["events"] = out["events"]
    BY <2>1, TheTables DEF PageTaken
  <2>4. SUFFICES ASSUME NEW i \in DOMAIN out["events"]
                 PROVE  (\E s \in Range(result) :
                             /\ s.stream_id = events[i].stream_id
                             /\ s.current_version >= events[i].stream_version)
                         \/ (stage' = 3 /\ events[i].stream_id > last')
    BY <1>1, <2>3 DEF StreamsWritten, StreamWritten, Written
  <2> PICK stream, version : stream = events[i].stream_id /\ version = streams[events[i].stream_id]
    OBVIOUS
  <2>5. /\ stream \in DOMAIN streams /\ version = streams[stream]
        /\ events[i].stream_version <= version /\ version \in Nat
        /\ events[i].stream_version \in Nat
    <3>1. i \in DOMAIN events
      BY <1>1 DEF EventsWritten
    <3>2. events[i] \in EventRow
      BY <1>1, <3>1 DEF LogInv
    <3> QED
      BY <1>1, <3>1, <3>2 DEF LogInv, EventRow
  <2>6. CASE StreamWritten(events[i])
    <3>1. PICK s \in Range(given) : /\ s.stream_id = events[i].stream_id
                                    /\ s.current_version >= events[i].stream_version
      BY <2>6 DEF StreamWritten, Written
    <3>2. s \in Range(result)
      BY <2>2 DEF Appended
    <3> QED
      BY <3>1, <3>2
  <2>7. CASE stream > after
    <3> PICK s : s = [stream_id |-> stream, current_version |-> version]
      OBVIOUS
    <3> PICK r : r = [at |-> stream, row |-> s]
      OBVIOUS
    <3>1. r \in rows /\ r.at = stream /\ r.row = s
      BY <2>5 DEF StreamRows
    <3>2. CASE \E k \in 1 .. Len(page) : page[k] = r
      <4>1. s \in Range(result)
        BY <2>2, <3>1, <3>2 DEF Appended
      <4>2. s.stream_id = stream /\ s.current_version = version
        OBVIOUS
      <4>3. s.current_version >= events[i].stream_version
        BY <2>5, <4>2
      <4> QED
        BY <4>1, <4>2, <4>3
    <3>3. CASE ~ \E k \in 1 .. Len(page) : page[k] = r
      <4>1. ~(Len(page) < EXPORT_PAGE_SIZE)
        BY <2>2, <2>7, <3>1, <3>3 DEF PageOK
      <4>2. stage' = stage /\ Len(page) = EXPORT_PAGE_SIZE /\ last' = page[Len(page)].at
        BY <2>1, <4>1 DEF PageTaken
      <4>3. page[Len(page)].at < r.at
        BY <2>2, <2>7, <3>1, <3>3, <4>2 DEF PageOK
      <4>4. Len(page) \in 1 .. Len(page)
        BY <4>2, ExportAssumption
      <4>5. page[Len(page)].at \in Nat /\ stream \in Nat
        BY <1>1, <2>2, <2>5, <4>4 DEF PageOK, LogInv
      <4>6. stream > last'
        BY <3>1, <4>2, <4>3, <4>5
      <4> QED
        BY <1>5, <4>2, <4>6
    <3> QED
      BY <3>2, <3>3
  <2>8. StreamWritten(events[i]) \/ events[i].stream_id > last
    BY <1>1, <1>5 DEF StreamsWritten
  <2> QED
    BY <2>6, <2>7, <2>8
<1> QED
  BY <1>1, <1>2, <1>3, <1>4, <1>5

\* export_jobs and export_claim_receipts: each attempt a job had when it was
\* written has a receipt when those are.
LEMMA PageJobs ==
    ASSUME DataInv, ExportInv, NEW page, PageTaken(page)
    PROVE  JobsWritten'
<1>1. /\ JobsWritten /\ Progress /\ jobs' = jobs /\ claim_receipts' = claim_receipts
      /\ stage \in 1 .. 8 /\ stage' \in {stage, stage + 1}
      /\ (stage = 6 <=> Table = "jobs") /\ (stage = 8 <=> Table = "claim_receipts")
  BY AtStage DEF ExportInv
<1>2. \A id \in DOMAIN jobs : jobs[id].attempt \in Nat /\ id \in JobIds
  BY DEF DataInv, JobInv, TypeOK, JobRow
<1> PICK given, result : given = out["jobs"] /\ result = out'["jobs"]
  OBVIOUS
<1>3. ASSUME NEW j \in Range(result)
      PROVE  /\ j.job_id \in DOMAIN jobs
             /\ j.attempt \in Nat /\ j.attempt <= jobs[j.job_id].attempt
  <2>1. CASE j \in Range(given)
    BY <1>1, <2>1 DEF JobsWritten, Written
  <2>2. CASE j \notin Range(given)
    <3>1. Table = "jobs" /\ Table \notin Unpaged /\ RowsOf(Table) = JobRows
      <4>1. Table = "jobs"
        BY <1>3, <2>2, TheTables DEF PageTaken
      <4> QED
        BY <4>1, RowsByName DEF Unpaged
    <3> PICK rows : rows = JobRows
      OBVIOUS
    <3>2. Appended(given, page, result) /\ page \in Seq(rows)
      BY <3>1 DEF PageTaken, PageOK
    <3>3. PICK k \in 1 .. Len(page) : j = page[k].row
      BY <1>3, <2>2, <3>2 DEF Appended
    <3>4. page[k] \in rows
      BY <3>2, ElementOfSeq
    <3>5. PICK id \in DOMAIN jobs :
             page[k] = [at |-> jobs[id].enqueue_sequence,
                        row |-> [job_id |-> id, state |-> jobs[id].state,
                                 attempt |-> jobs[id].attempt]]
      BY <3>4 DEF JobRows
    <3>6. j.job_id = id /\ j.attempt = jobs[id].attempt
      BY <3>3, <3>5
    <3> QED
      BY <1>2, <3>6
  <2> QED
    BY <2>1, <2>2
<1>4. ASSUME stage' > 8, NEW j \in Range(result), NEW n \in 1 .. j.attempt
      PROVE  \E r \in Range(out'["claim_receipts"]) : r.job_id = j.job_id /\ r.attempt = n
  <2>1. stage = 8 /\ Table = "claim_receipts"
    BY <1>1, <1>4
  <2> PICK receipts : receipts = out'["claim_receipts"]
    OBVIOUS
  <2>2. /\ Appended(out["claim_receipts"], page, receipts)
        /\ \A r \in ReceiptRows : \E k \in 1 .. Len(page) : page[k] = r
    BY <2>1 DEF PageTaken
  <2> PICK id, m : id = j.job_id /\ m = jobs[j.job_id].attempt
    OBVIOUS
  <2>3. id \in DOMAIN jobs /\ id \in JobIds /\ m = jobs[id].attempt /\ n \in 1 .. m
    BY <1>2, <1>3, <1>4
  <2>4. PICK r \in claim_receipts : r.job_id = id /\ r.attempt = n
    BY <2>3 DEF DataInv, ReceiptInv, ReceiptPerAttempt
  <2> PICK x : x = [transaction_id |-> r.transaction_id, job_id |-> r.job_id,
                    attempt |-> r.attempt]
    OBVIOUS
  <2>5. [at |-> 1, row |-> x] \in ReceiptRows
    BY DEF ReceiptRows
  <2>6. PICK k \in 1 .. Len(page) : page[k] = [at |-> 1, row |-> x]
    BY <2>2, <2>5
  <2>7. x \in Range(receipts)
    BY <2>2, <2>6 DEF Appended
  <2>8. x.job_id = id /\ x.attempt = n
    BY <2>4
  <2> QED
    BY <2>7, <2>8
<1> QED
  BY <1>1, <1>3, <1>4 DEF JobsWritten, Written

\* export_projections: a steady row is on the page that takes the cursor past it,
\* and no other row has its key.
LEMMA PageEntries ==
    ASSUME DataInv, ExportInv, NEW page, PageTaken(page)
    PROVE  EntriesWritten'
<1>1. /\ EntriesWritten /\ Progress /\ EntriesInv
      /\ projection_entries' = projection_entries
      /\ stage \in 1 .. 8 /\ stage' \in {stage, stage + 1} /\ (stage' = stage + 1 => last' = 0)
      /\ (stage = 5 <=> Table = "projection_entries")
  BY AtStage DEF ExportInv, DataInv
<1>2. CASE stage = 6
  <2>1. /\ out'["projection_entries"] = out["projection_entries"] /\ steady' = steady
        /\ stage' # 5
    BY <1>1, <1>2, TheTables DEF PageTaken
  <2> QED
    BY <1>1, <1>2, <2>1 DEF EntriesWritten
<1>3. CASE stage \notin {5, 6}
  BY <1>1, <1>3 DEF EntriesWritten
<1>4. CASE stage = 5
  <2>1. Table = "projection_entries" /\ Table \notin Unpaged /\ RowsOf(Table) = EntryRows
    BY <1>1, <1>4, RowsByName DEF Unpaged
  <2> PICK given, result, rows, after, entries, S :
         /\ given = out["projection_entries"] /\ result = out'["projection_entries"]
         /\ rows = EntryRows /\ after = last /\ entries = projection_entries
         /\ S = IF last = 0 THEN DOMAIN projection_entries ELSE steady
    OBVIOUS
  <2>2. Appended(given, page, result) /\ PageOK(rows, after, page) /\ steady' = S
    BY <2>1 DEF PageTaken
  <2>3. after \in Nat
    BY <1>1 DEF Progress
  <2>4. ASSUME NEW i \in S
        PROVE  /\ i \in DOMAIN entries
               /\ IF i <= after THEN Once(given, entries[i].key) ELSE Never(given, entries[i].key)
    <3>1. CASE after = 0
      <4>1. i \in DOMAIN entries /\ i \in Nat \ {0}
        BY <1>1, <2>4, <3>1 DEF EntriesInv
      <4>2. given = <<>>
        BY <1>1, <1>4, <3>1, TheTables DEF Progress
      <4>3. Never(given, entries[i].key)
        BY <4>2 DEF Never
      <4> QED
        BY <3>1, <4>1, <4>3
    <3>2. CASE after # 0
      <4>1. i \in steady /\ stage = 5 /\ last > 0
        BY <1>4, <2>3, <2>4, <3>2
      <4> QED
        BY <1>1, <4>1 DEF EntriesWritten
    <3> QED
      BY <3>1, <3>2
  <2>5. \A k \in 1 .. Len(page) : /\ page[k].at \in DOMAIN entries
                                  /\ page[k].row = entries[page[k].at]
                                  /\ page[k].at > after /\ page[k].at \in Nat
    <3> TAKE k \in 1 .. Len(page)
    <3>1. page[k] \in rows /\ page[k].at > after /\ page[k].at \in Nat
      BY <2>2, ElementOfSeq DEF PageOK
    <3> QED
      BY <3>1 DEF EntryRows
  <2>6. ASSUME NEW i \in S
        PROVE  /\ i \in DOMAIN entries
               /\ IF stage' = 6 \/ i <= last'
                  THEN Once(result, entries[i].key) ELSE Never(result, entries[i].key)
    <3> PICK key : key = entries[i].key
      OBVIOUS
    <3>1. /\ i \in DOMAIN entries /\ i \in Nat \ {0}
          /\ IF i <= after THEN Once(given, key) ELSE Never(given, key)
      BY <1>1, <2>4, <2>6 DEF EntriesInv
    <3>2. \A k \in 1 .. Len(page) : page[k].row.key = key => page[k].at = i
      <4> TAKE k \in 1 .. Len(page)
      <4> HAVE page[k].row.key = key
      <4>1. entries[page[k].at].key = entries[i].key
        BY <2>5
      <4> QED
        BY <1>1, <2>5, <3>1, <4>1 DEF EntriesInv
    <3>3. CASE i <= after
      <4>1. \A k \in 1 .. Len(page) : page[k].row.key # key
        <5> TAKE k \in 1 .. Len(page)
        <5>1. page[k].at # i
          BY <2>3, <2>5, <3>1, <3>3
        <5> QED
          BY <3>2, <5>1
      <4>2. PICK m \in DOMAIN given : \A l \in DOMAIN given : given[l].key = key <=> l = m
        BY <3>1, <3>3 DEF Once
      <4>3. m \in DOMAIN result
        BY <2>2, <4>2 DEF Appended
      <4>4. ASSUME NEW l \in DOMAIN result PROVE result[l].key = key <=> l = m
        <5>1. CASE l \in DOMAIN given
          BY <2>2, <4>2, <5>1 DEF Appended
        <5>2. CASE l \notin DOMAIN given
          <6>1. PICK k \in 1 .. Len(page) : l = Len(given) + k
            BY <2>2, <5>2 DEF Appended
          <6>2. result[l] = page[k].row
            BY <2>2, <6>1 DEF Appended
          <6> QED
            BY <4>1, <4>2, <5>2, <6>2
        <5> QED
          BY <5>1, <5>2
      <4>5. Once(result, key)
        BY <4>3, <4>4 DEF Once
      <4>6. stage' = 6 \/ i <= last'
        <5>1. SUFFICES ASSUME stage' # 6 PROVE i <= last'
          OBVIOUS
        <5>2. Len(page) = EXPORT_PAGE_SIZE /\ last' = page[Len(page)].at
          BY <1>1, <1>4, <5>1 DEF PageTaken
        <5>3. Len(page) \in 1 .. Len(page)
          BY <5>2, ExportAssumption
        <5> QED
          BY <2>3, <2>5, <3>1, <3>3, <5>2, <5>3
      <4> QED
        BY <3>1, <4>5, <4>6
    <3>4. CASE i > after /\ \E k \in 1 .. Len(page) : page[k].at = i
      <4>1. PICK k \in 1 .. Len(page) : page[k].at = i
        BY <3>4
      <4>2. Never(given, key)
        BY <2>3, <3>1, <3>4
      <4>3. page[k].row.key = key
        BY <2>5, <4>1
      <4> PICK m : m = Len(given) + k
        OBVIOUS
      <4>4. m \in DOMAIN result /\ result[m] = page[k].row /\ m \notin DOMAIN given
        BY <2>2 DEF Appended
      <4>5. ASSUME NEW l \in DOMAIN result PROVE result[l].key = key <=> l = m
        <5>1. CASE l \in DOMAIN given
          <6>1. result[l] = given[l]
            BY <2>2, <5>1 DEF Appended
          <6> QED
            BY <4>2, <4>4, <5>1, <6>1 DEF Never
        <5>2. CASE l \notin DOMAIN given
          <6>1. PICK q \in 1 .. Len(page) : l = Len(given) + q
            BY <2>2, <5>2 DEF Appended
          <6>2. result[l] = page[q].row
            BY <2>2, <6>1 DEF Appended
          <6>3. page[q].row.key = key => q = k
            <7>1. SUFFICES ASSUME page[q].row.key = key PROVE q = k
              OBVIOUS
            <7>2. page[q].at = i
              BY <3>2, <7>1
            <7>3. ~(q < k) /\ ~(k < q)
              BY <2>2, <2>5, <4>1, <7>2 DEF PageOK
            <7> QED
              BY <7>3
          <6>4. l = m => q = k
            BY <2>2, <6>1 DEF Appended
          <6> QED
            BY <4>3, <6>1, <6>2, <6>3, <6>4
        <5> QED
          BY <5>1, <5>2
      <4>6. Once(result, key)
        BY <4>4, <4>5 DEF Once
      <4>7. stage' = 6 \/ i <= last'
        <5>1. SUFFICES ASSUME stage' # 6 PROVE i <= last'
          OBVIOUS
        <5>2. last' = page[Len(page)].at /\ Len(page) \in Nat
          BY <1>1, <1>4, <2>2, <5>1 DEF PageTaken, PageOK
        <5>3. k = Len(page) \/ k < Len(page)
          BY <5>2
        <5>4. Len(page) \in 1 .. Len(page)
          BY <5>2, <5>3
        <5>5. k = Len(page) \/ page[k].at < page[Len(page)].at
          BY <2>2, <5>3, <5>4 DEF PageOK
        <5>6. page[Len(page)].at \in Nat
          BY <2>5, <5>4
        <5> QED
          BY <3>1, <4>1, <5>2, <5>5, <5>6
      <4> QED
        BY <3>1, <4>6, <4>7
    <3>5. CASE i > after /\ ~ \E k \in 1 .. Len(page) : page[k].at = i
      <4>1. Never(given, key)
        BY <2>3, <3>1, <3>5
      <4>2. \A k \in 1 .. Len(page) : page[k].row.key # key
        BY <3>2, <3>5
      <4>3. ASSUME NEW l \in DOMAIN result PROVE result[l].key # key
        <5>1. CASE l \in DOMAIN given
          <6>1. result[l] = given[l]
            BY <2>2, <5>1 DEF Appended
          <6> QED
            BY <4>1, <5>1, <6>1 DEF Never
        <5>2. CASE l \notin DOMAIN given
          <6>1. PICK q \in 1 .. Len(page) : l = Len(given) + q
            BY <2>2, <5>2 DEF Appended
          <6>2. result[l] = page[q].row
            BY <2>2, <6>1 DEF Appended
          <6> QED
            BY <4>2, <6>2
        <5> QED
          BY <5>1, <5>2
      <4>4. Never(result, key)
        BY <4>3 DEF Never
      <4> PICK r : r = [at |-> i, row |-> entries[i]]
        OBVIOUS
      <4>5. r \in rows /\ r.at = i
        BY <3>1 DEF EntryRows
      <4>6. ~ \E k \in 1 .. Len(page) : page[k] = r
        BY <3>5, <4>5
      <4>7. ~(Len(page) < EXPORT_PAGE_SIZE)
        BY <2>2, <3>5, <4>5, <4>6 DEF PageOK
      <4>8. stage' = stage /\ Len(page) = EXPORT_PAGE_SIZE /\ last' = page[Len(page)].at
        BY <2>1, <4>7 DEF PageTaken
      <4>9. page[Len(page)].at < i
        BY <2>2, <3>5, <4>5, <4>6, <4>8 DEF PageOK
      <4>10. Len(page) \in 1 .. Len(page)
        BY <4>8, ExportAssumption
      <4>11. page[Len(page)].at \in Nat
        BY <2>5, <4>10
      <4>12. ~(i <= last')
        BY <3>1, <4>8, <4>9, <4>11
      <4> QED
        BY <1>4, <3>1, <4>4, <4>8, <4>12
    <3> QED
      BY <2>3, <3>1, <3>3, <3>4, <3>5
  <2> QED
    BY <1>1, <2>2, <2>6 DEF EntriesWritten
<1> QED
  BY <1>1, <1>2, <1>3, <1>4

\* Covered for a stage, a cursor and the rows written by then.
Enough(i, at, after, written, numbers, claimed) ==
    /\ claimed \in Nat
    /\ at <= i => Len(written) + Cardinality(Ahead(numbers, IF at = i THEN after ELSE 0)) >= claimed
    /\ at > i => Len(written) >= claimed

\* A page moves numbers from ahead of the cursor to the rows written.
LEMMA PageCovered ==
    ASSUME Progress, NEW page, PageTaken(page), NEW i \in {1, 2, 3, 6},
           NEW numbers \in SUBSET Nat, IsFiniteSet(numbers), NEW claimed,
           Covered(i, numbers, claimed), NEW rows, rows = RowsOf(ExportTables[i]),
           \A n \in numbers : \E r \in rows : r.at = n
    PROVE  Enough(i, stage', last', out'[ExportTables[i]], numbers, claimed)
<1> PICK T, given, result : /\ T = ExportTables[i] /\ given = out[ExportTables[i]]
                            /\ result = out'[ExportTables[i]]
  OBVIOUS
<1>1. /\ stage \in 1 .. 8 /\ last \in Nat /\ stage' \in {stage, stage + 1}
      /\ stage' = stage + 1 => last' = 0
  BY AtStage DEF PageTaken
<1>2. T \in Tables \ {"projection_meta", "active_partitions"} /\ T \notin Unpaged
  BY TheTables DEF Unpaged
<1>3. /\ claimed \in Nat
      /\ stage <= i =>
            Len(given) + Cardinality(Ahead(numbers, IF stage = i THEN last ELSE 0)) >= claimed
      /\ stage > i => Len(given) >= claimed
  BY DEF Covered
<1>4. SUFFICES /\ stage' <= i =>
                     Len(result) + Cardinality(Ahead(numbers, IF stage' = i THEN last' ELSE 0))
                        >= claimed
               /\ stage' > i => Len(result) >= claimed
  BY <1>3 DEF Enough
<1>5. CASE stage # i
  <2>1. T # Table
    <3>1. \A j, k \in 1 .. 8 : j # k => ExportTables[j] # ExportTables[k]
      BY DEF ExportTables
    <3>2. i \in 1 .. 8
      OBVIOUS
    <3> QED
      BY <1>1, <1>5, <3>1, <3>2 DEF Table
  <2>2. result = given
    BY <1>2, <2>1 DEF PageTaken
  <2>3. CASE stage < i
    <3>1. stage' <= i /\ ~(stage' > i) /\ (stage' = i => stage' = stage + 1)
      BY <1>1, <2>3
    <3>2. stage' = i => last' = 0
      BY <1>1, <3>1
    <3>3. (IF stage' = i THEN last' ELSE 0) = 0
      BY <3>2
    <3>4. Len(given) + Cardinality(Ahead(numbers, 0)) >= claimed
      <4>1. stage <= i /\ stage # i
        BY <1>1, <2>3
      <4>2. (IF stage = i THEN last ELSE 0) = 0
        BY <4>1
      <4> QED
        BY <1>3, <4>1, <4>2
    <3> QED
      BY <2>2, <3>1, <3>3, <3>4
  <2>4. CASE stage > i
    <3>1. ~(stage' <= i)
      BY <1>1, <2>4
    <3> QED
      BY <1>3, <2>2, <2>4, <3>1
  <2> QED
    BY <1>1, <1>5, <2>3, <2>4
<1>6. CASE stage = i
  <2>1. T = Table
    BY <1>6 DEF Table
  <2> PICK after : after = last
    OBVIOUS
  <2>2. Appended(given, page, result) /\ PageOK(rows, after, page) /\ after \in Nat
    BY <1>1, <1>2, <2>1 DEF PageTaken
  <2>3. /\ Len(given) \in Nat /\ Len(page) \in Nat /\ Len(result) = Len(given) + Len(page)
    BY <2>2 DEF Appended
  <2>4. /\ Len(page) < EXPORT_PAGE_SIZE => Cardinality(Ahead(numbers, after)) <= Len(page)
        /\ Len(page) = EXPORT_PAGE_SIZE =>
              Cardinality(Ahead(numbers, after))
                 <= Len(page) + Cardinality(Ahead(numbers, page[Len(page)].at))
    BY <2>2, PageCount
  <2>5. \A c : Cardinality(Ahead(numbers, c)) \in Nat
    BY AheadGrows
  <2>6. Len(given) + Cardinality(Ahead(numbers, after)) >= claimed
    BY <1>3, <1>6
  <2>7. CASE stage' = stage + 1
    <3>1. Len(page) < EXPORT_PAGE_SIZE
      BY <1>1, <1>2, <2>1, <2>7 DEF PageTaken
    <3>2. Len(result) >= claimed
      BY <1>3, <2>3, <2>4, <2>5, <2>6, <3>1
    <3> QED
      BY <1>1, <1>6, <2>7, <3>2
  <2>8. CASE stage' = stage
    <3>1. Len(page) = EXPORT_PAGE_SIZE /\ last' = page[Len(page)].at
      <4>1. stage' # stage + 1
        BY <1>1, <2>8
      <4> QED
        BY <1>2, <2>1, <4>1 DEF PageTaken
    <3> PICK next : next = page[Len(page)].at
      OBVIOUS
    <3>2. Cardinality(Ahead(numbers, after)) <= Len(page) + Cardinality(Ahead(numbers, next))
      BY <2>4, <3>1
    <3>3. Len(result) + Cardinality(Ahead(numbers, next)) >= claimed
      BY <1>3, <2>3, <2>5, <2>6, <3>2
    <3>4. last' = next /\ stage' = i
      BY <1>6, <2>8, <3>1
    <3> QED
      BY <1>1, <3>3, <3>4
  <2> QED
    BY <1>1, <2>7, <2>8
<1> QED
  BY <1>5, <1>6

LEMMA PageHeader ==
    ASSUME DataInv, ExportInv, NEW page, PageTaken(page)
    PROVE  HeaderCovered'
<1>1. /\ transactions' = transactions /\ events' = events /\ streams' = streams
      /\ jobs' = jobs /\ header' = header /\ stage \in 1 .. 8
  BY AtStage
<1>2. NumbersOK /\ Progress
  BY NumbersCounted DEF ExportInv
<1> PICK h, sequences, positions, ids, places :
       /\ h = header /\ sequences = TransactionSequences /\ positions = DOMAIN events
       /\ ids = DOMAIN streams /\ places = EnqueueSequences
  OBVIOUS
<1>3. /\ Covered(1, sequences, h.transactions) /\ Covered(2, positions, h.events)
      /\ Covered(3, ids, h.streams) /\ Covered(6, places, h.jobs)
  BY <1>1 DEF ExportInv, HeaderCovered
<1>4. /\ sequences \in SUBSET Nat /\ IsFiniteSet(sequences)
      /\ positions \in SUBSET Nat /\ IsFiniteSet(positions)
      /\ ids \in SUBSET Nat /\ IsFiniteSet(ids)
      /\ places \in SUBSET Nat /\ IsFiniteSet(places)
  BY <1>2 DEF NumbersOK
<1> PICK rows1, rows2, rows3, rows6 :
       /\ rows1 = TransactionRows /\ rows2 = EventRows /\ rows3 = StreamRows /\ rows6 = JobRows
  OBVIOUS
<1>5. /\ rows1 = RowsOf(ExportTables[1]) /\ rows2 = RowsOf(ExportTables[2])
      /\ rows3 = RowsOf(ExportTables[3]) /\ rows6 = RowsOf(ExportTables[6])
  BY RowsByName, TheTables
<1>6. \A n \in sequences : \E r \in rows1 : r.at = n
  <2> TAKE n \in sequences
  <2>1. PICK t \in DOMAIN transactions : n = transactions[t].transaction_sequence
    BY DEF TransactionSequences
  <2>2. [at |-> n, row |-> t] \in rows1
    BY <2>1 DEF TransactionRows
  <2> QED
    BY <2>2
<1>7. \A n \in positions : \E r \in rows2 : r.at = n
  <2> TAKE n \in positions
  <2>1. [at |-> n, row |-> events[n]] \in rows2
    BY DEF EventRows
  <2> QED
    BY <2>1
<1>8. \A n \in ids : \E r \in rows3 : r.at = n
  <2> TAKE n \in ids
  <2>1. [at |-> n, row |-> [stream_id |-> n, current_version |-> streams[n]]] \in rows3
    BY DEF StreamRows
  <2> QED
    BY <2>1
<1>9. \A n \in places : \E r \in rows6 : r.at = n
  <2> TAKE n \in places
  <2>1. PICK id \in DOMAIN jobs : n = jobs[id].enqueue_sequence
    BY DEF EnqueueSequences
  <2>2. [at |-> n, row |-> [job_id |-> id, state |-> jobs[id].state,
                            attempt |-> jobs[id].attempt]] \in rows6
    BY <2>1 DEF JobRows
  <2> QED
    BY <2>2
<1>10. Enough(1, stage', last', out'[ExportTables[1]], sequences, h.transactions)
  <2>1. 1 \in {1, 2, 3, 6} /\ rows1 = RowsOf(ExportTables[1])
    BY <1>5
  <2>2. /\ Covered(1, sequences, h.transactions) /\ Progress
        /\ sequences \in SUBSET Nat /\ IsFiniteSet(sequences)
    BY <1>2, <1>3, <1>4
  <2> QED
    BY <1>6, <2>1, <2>2, PageCovered
<1>11. Enough(2, stage', last', out'[ExportTables[2]], positions, h.events)
  <2>1. 2 \in {1, 2, 3, 6} /\ rows2 = RowsOf(ExportTables[2])
    BY <1>5
  <2>2. /\ Covered(2, positions, h.events) /\ Progress
        /\ positions \in SUBSET Nat /\ IsFiniteSet(positions)
    BY <1>2, <1>3, <1>4
  <2> QED
    BY <1>7, <2>1, <2>2, PageCovered
<1>12. Enough(3, stage', last', out'[ExportTables[3]], ids, h.streams)
  <2>1. 3 \in {1, 2, 3, 6} /\ rows3 = RowsOf(ExportTables[3])
    BY <1>5
  <2>2. Covered(3, ids, h.streams) /\ ids \in SUBSET Nat /\ IsFiniteSet(ids) /\ Progress
    BY <1>2, <1>3, <1>4
  <2> QED
    BY <1>8, <2>1, <2>2, PageCovered
<1>13. Enough(6, stage', last', out'[ExportTables[6]], places, h.jobs)
  <2>1. 6 \in {1, 2, 3, 6} /\ rows6 = RowsOf(ExportTables[6])
    BY <1>5
  <2>2. Covered(6, places, h.jobs) /\ places \in SUBSET Nat /\ IsFiniteSet(places) /\ Progress
    BY <1>2, <1>3, <1>4
  <2> QED
    BY <1>9, <2>1, <2>2, PageCovered
<1>14. /\ TransactionSequences' = sequences /\ EnqueueSequences' = places
       /\ DOMAIN events' = positions /\ DOMAIN streams' = ids /\ header' = h
  BY <1>1 DEF TransactionSequences, EnqueueSequences
<1>15. /\ Covered(1, TransactionSequences, header.transactions)'
       /\ Covered(2, DOMAIN events, header.events)'
       /\ Covered(3, DOMAIN streams, header.streams)'
       /\ Covered(6, EnqueueSequences, header.jobs)'
  BY <1>10, <1>11, <1>12, <1>13, <1>14 DEF Covered, Enough
<1> QED
  BY <1>1, <1>15 DEF ExportInv, HeaderCovered

\* The tables are what they were.
LEMMA DataUntouched ==
    ASSUME DataInv, UNCHANGED <<storeVars, logVars, tableVars>>
    PROVE  DataInv'
<1>1. /\ UNCHANGED storeVars
      /\ jobs' = jobs /\ active_partitions' = active_partitions
      /\ queue_cursors' = queue_cursors /\ claim_receipts' = claim_receipts
      /\ transactions' = transactions /\ events' = events /\ streams' = streams
      /\ projection_entries' = projection_entries
  BY DEF storeVars, logVars, tableVars
<1>2. JobInv'
  BY <1>1, NextInv DEF DataInv
<1>3. ReceiptInv'
  BY <1>1, NextReceipts DEF DataInv
<1>4. Numbered(transactions)' /\ LogInv' /\ EntriesInv'
  BY <1>1 DEF DataInv, Numbered, LogInv, EntriesInv
<1> QED
  BY <1>1, <1>2, <1>3, <1>4 DEF DataInv

\* export_page keeps the invariant.
LEMMA PageKeeps ==
    ASSUME DataInv, ExportInv, ExportPage
    PROVE  DataInv' /\ ExportInv'
<1>1. PICK page : PageTaken(page)
  BY PageIsTaken DEF ExportInv
<1>2. UNCHANGED <<storeVars, logVars, tableVars>>
  BY <1>1 DEF PageTaken
<1>3. DataInv'
  BY <1>2, DataUntouched
<1>4. Progress'
  BY <1>1, PageProgress DEF ExportInv
<1> QED
  BY <1>1, <1>3, <1>4, PageTransactions, PageEvents, PageStreams, PageJobs, PageEntries,
     PageHeader DEF ExportInv

\* So does a count, which is of rows that are all ahead.
LEMMA StatsKeeps ==
    ASSUME DataInv, ExportInv, Stats
    PROVE  DataInv' /\ ExportInv'
<1>1. /\ UNCHANGED <<storeVars, logVars, tableVars>> /\ out' = out /\ steady' = steady
      /\ stage = 0
      /\ \/ stage' = 1 /\ last' = 0
         \/ stage' = 0 /\ last' = last + 1 /\ last + 1 # 4
      /\ header' = [header EXCEPT ![StatTables[last + 1]] = CountOf(StatTables[last + 1])]
  <2>1. Len(StatTables) = 4
    BY DEF StatTables
  <2> QED
    BY <2>1 DEF Stats
<1>2. DataInv'
  BY <1>1, DataUntouched
<1>3. /\ transactions' = transactions /\ events' = events /\ streams' = streams
      /\ jobs' = jobs /\ claim_receipts' = claim_receipts
      /\ projection_entries' = projection_entries
  BY <1>1 DEF storeVars, logVars, tableVars
<1>4. Progress /\ HeaderCovered
  BY DEF ExportInv
<1>5. \A T \in Tables : out[T] = <<>>
  <2>1. \A i \in 1 .. 8 : out[ExportTables[i]] = <<>>
    BY <1>1, <1>4 DEF Progress
  <2> QED
    BY <2>1, TheTables DEF Tables, Range
<1>6. /\ out["transactions"] = <<>> /\ out["events"] = <<>> /\ out["streams"] = <<>>
      /\ out["jobs"] = <<>>
  BY <1>5, TheTables
<1>7. Progress'
  <2>1. \A i \in 1 .. 8 : ExportTables[i] \in Tables
    <3> TAKE i \in 1 .. 8
    <3>1. i \in {1, 2, 3, 4, 5, 6, 7, 8}
      OBVIOUS
    <3> QED
      BY <3>1, TheTables
  <2>2. stage' \in 0 .. 9 /\ last' \in Nat /\ (stage' = 0 => last' < 4)
    BY <1>1, <1>4 DEF Progress
  <2> QED
    BY <1>1, <1>4, <1>5, <2>1, <2>2 DEF Progress
<1>8. TransactionsWritten' /\ EventsWritten' /\ StreamsWritten' /\ EntriesWritten'
  BY <1>1, <1>6 DEF TransactionsWritten, EventsWritten, StreamsWritten, EntriesWritten
<1>9. JobsWritten'
  BY <1>1, <1>6 DEF JobsWritten, Written, Range
<1>10. HeaderCovered'
  <2>1. NumbersOK
    BY NumbersCounted
  <2> PICK S1, S2, S3, S6 : /\ S1 = TransactionSequences /\ S2 = DOMAIN events
                            /\ S3 = DOMAIN streams /\ S6 = EnqueueSequences
    OBVIOUS
  <2>2. ASSUME NEW S, S \subseteq Nat \ {0} PROVE Ahead(S, 0) = S
    <3>1. \A n \in S : n > 0
      BY <2>2
    <3> QED
      BY <3>1 DEF Ahead
  <2>3. /\ Ahead(S1, 0) = S1 /\ Ahead(S2, 0) = S2 /\ Ahead(S3, 0) = S3 /\ Ahead(S6, 0) = S6
        /\ IsFiniteSet(S1) /\ IsFiniteSet(S2) /\ IsFiniteSet(S3) /\ IsFiniteSet(S6)
    BY <2>1, <2>2 DEF NumbersOK
  <2> PICK n1, n2, n3, n6 : /\ n1 = Cardinality(S1) /\ n2 = Cardinality(S2)
                            /\ n3 = Cardinality(S3) /\ n6 = Cardinality(S6)
    OBVIOUS
  <2>4. n1 \in Nat /\ n2 \in Nat /\ n3 \in Nat /\ n6 \in Nat
    BY <2>3, FS_CardinalityType
  <2>5. /\ CountOf("transactions") = n1 /\ CountOf("events") = n2
        /\ CountOf("streams") = n3 /\ CountOf("jobs") = n6
    BY <2>1 DEF CountOf, NumbersOK
  <2>6. /\ out[ExportTables[1]] = <<>> /\ out[ExportTables[2]] = <<>>
        /\ out[ExportTables[3]] = <<>> /\ out[ExportTables[6]] = <<>>
    BY <1>6, TheTables
  <2>7. \A n \in Nat : Len(<<>>) + n = n
    OBVIOUS
  <2>8. /\ header \in [transactions : Nat, events : Nat, streams : Nat, jobs : Nat]
        /\ header.transactions <= n1 /\ header.events <= n2
        /\ header.streams <= n3 /\ header.jobs <= n6
    BY <1>1, <1>4, <2>3, <2>4, <2>6, <2>7 DEF HeaderCovered, Covered
  <2>9. StatTables[last + 1] \in {"jobs", "transactions", "events", "streams"}
    <3>1. last \in {0, 1, 2, 3}
      BY <1>1, <1>4 DEF Progress
    <3> QED
      BY <3>1 DEF StatTables
  <2>10. /\ header' \in [transactions : Nat, events : Nat, streams : Nat, jobs : Nat]
         /\ header'.transactions <= n1 /\ header'.events <= n2
         /\ header'.streams <= n3 /\ header'.jobs <= n6
    <3> PICK T : T = StatTables[last + 1]
      OBVIOUS
    <3>1. header' = [header EXCEPT ![T] = CountOf(T)]
      BY <1>1
    <3>2. CASE T = "jobs"
      BY <2>4, <2>5, <2>8, <3>1, <3>2
    <3>3. CASE T = "transactions"
      BY <2>4, <2>5, <2>8, <3>1, <3>3
    <3>4. CASE T = "events"
      BY <2>4, <2>5, <2>8, <3>1, <3>4
    <3>5. CASE T = "streams"
      BY <2>4, <2>5, <2>8, <3>1, <3>5
    <3> QED
      BY <2>9, <3>2, <3>3, <3>4, <3>5
  <2>11. /\ TransactionSequences' = S1 /\ DOMAIN events' = S2
         /\ DOMAIN streams' = S3 /\ EnqueueSequences' = S6
    BY <1>3 DEF TransactionSequences, EnqueueSequences
  <2>12. stage' \in {0, 1} /\ (stage' = 1 => last' = 0)
    BY <1>1
  <2> PICK h : h = header'
    OBVIOUS
  <2>13. Enough(1, stage', last', out'[ExportTables[1]], S1, h.transactions)
    BY <1>1, <2>3, <2>4, <2>6, <2>7, <2>10, <2>12 DEF Enough
  <2>14. Enough(2, stage', last', out'[ExportTables[2]], S2, h.events)
    BY <1>1, <2>3, <2>4, <2>6, <2>7, <2>10, <2>12 DEF Enough
  <2>15. Enough(3, stage', last', out'[ExportTables[3]], S3, h.streams)
    BY <1>1, <2>3, <2>4, <2>6, <2>7, <2>10, <2>12 DEF Enough
  <2>16. Enough(6, stage', last', out'[ExportTables[6]], S6, h.jobs)
    BY <1>1, <2>3, <2>4, <2>6, <2>7, <2>10, <2>12 DEF Enough
  <2> QED
    BY <2>10, <2>11, <2>13, <2>14, <2>15, <2>16 DEF HeaderCovered, Covered, Enough
<1> QED
  BY <1>2, <1>7, <1>8, <1>9, <1>10 DEF ExportInv

-----------------------------------------------------------------------------
(* The invariant is inductive *)

LEMMA DiagnosticStart == DiagnosticInit => DiagnosticInv
<1> SUFFICES ASSUME DiagnosticInit PROVE DiagnosticInv
  OBVIOUS
<1>1. /\ Init /\ InitLog /\ projection_entries = [i \in {} |-> None]
      /\ out = [i \in Tables |-> <<>>] /\ stage = 0 /\ last = 0
      /\ header = [transactions |-> 0, events |-> 0, streams |-> 0, jobs |-> 0]
  BY DEF DiagnosticInit, Tables
<1>2. DOMAIN projection_entries = {}
  BY <1>1
<1>3. /\ DOMAIN jobs = {} /\ claim_receipts = {} /\ DOMAIN transactions = {}
  BY <1>1 DEF Init
<1>4. events = <<>> /\ DOMAIN streams = {}
  BY <1>1 DEF InitLog, NoStreams
<1>5. JobInv /\ ReceiptInv
  BY <1>1, InitInv, InitReceipts
<1>6. IsFiniteSet({})
  BY FS_EmptySet
<1>7. Numbered(transactions)
  BY <1>3, <1>6, FS_EmptySet DEF Numbered
<1>8. LogInv
  <2>1. DOMAIN events = {} /\ events \in Seq(EventRow)
    BY <1>4
  <2> QED
    BY <1>4, <1>6, <2>1 DEF LogInv
<1>9. EntriesInv
  BY <1>2, <1>6 DEF EntriesInv
<1>10. DataInv
  BY <1>3, <1>5, <1>6, <1>7, <1>8, <1>9 DEF DataInv
<1>11. \A T \in Tables : out[T] = <<>>
  BY <1>1
<1>12. Progress
  <2>1. \A i \in 1 .. 8 : ExportTables[i] \in Tables
    <3> TAKE i \in 1 .. 8
    <3>1. i \in {1, 2, 3, 4, 5, 6, 7, 8}
      OBVIOUS
    <3> QED
      BY <3>1, TheTables
  <2>2. \A T \in Tables : out[T] \in Seq(Range(out[T]))
    <3>1. \A S : <<>> \in Seq(S)
      OBVIOUS
    <3> QED
      BY <1>11, <3>1
  <2> QED
    BY <1>1, <1>11, <2>1, <2>2 DEF Progress
<1>13. out["transactions"] = <<>> /\ out["events"] = <<>> /\ out["jobs"] = <<>>
  BY <1>11, TheTables
<1>14. TransactionsWritten /\ EventsWritten /\ StreamsWritten /\ EntriesWritten
  BY <1>1, <1>13 DEF TransactionsWritten, EventsWritten, StreamsWritten, EntriesWritten
<1>15. JobsWritten
  BY <1>1, <1>13 DEF JobsWritten, Written, Range
<1>16. HeaderCovered
  <2>1. TransactionSequences = {} /\ EnqueueSequences = {} /\ DOMAIN events = {}
    BY <1>3, <1>4 DEF TransactionSequences, EnqueueSequences
  <2>2. Ahead({}, 0) = {} /\ Cardinality({}) = 0
    BY FS_EmptySet DEF Ahead
  <2>3. /\ out[ExportTables[1]] = <<>> /\ out[ExportTables[2]] = <<>>
        /\ out[ExportTables[3]] = <<>> /\ out[ExportTables[6]] = <<>>
    BY <1>11, TheTables
  <2>4. ASSUME NEW i \in {1, 2, 3, 6}
        PROVE  Covered(i, {}, 0)
    <3>1. stage <= i /\ ~(stage > i) /\ stage # i
      BY <1>1
    <3>2. Len(out[ExportTables[i]]) = 0
      BY <2>3
    <3>3. Cardinality(Ahead({}, IF stage = i THEN last ELSE 0)) = 0
      BY <2>2, <3>1
    <3> QED
      BY <3>1, <3>2, <3>3 DEF Covered
  <2>5. /\ header.transactions = 0 /\ header.events = 0 /\ header.streams = 0
        /\ header.jobs = 0
        /\ header \in [transactions : Nat, events : Nat, streams : Nat, jobs : Nat]
    BY <1>1
  <2>6. /\ Covered(1, {}, 0) /\ Covered(2, {}, 0) /\ Covered(3, {}, 0) /\ Covered(6, {}, 0)
    BY <2>4
  <2> QED
    BY <1>4, <2>1, <2>5, <2>6 DEF HeaderCovered
<1> QED
  BY <1>10, <1>12, <1>14, <1>15, <1>16 DEF DiagnosticInv, ExportInv

LEMMA DiagnosticStep ==
    DiagnosticInv /\ [DiagnosticNext]_diagnosticVars => DiagnosticInv'
<1> SUFFICES ASSUME DataInv, ExportInv, [DiagnosticNext]_diagnosticVars
             PROVE  DataInv' /\ ExportInv'
  BY DEF DiagnosticInv
<1>1. ASSUME NEW b \in Commits, CommitBatch(b) PROVE DataInv' /\ ExportInv'
  <2>1. DataInv' /\ Grown
    BY <1>1, BatchGrows
  <2> QED
    BY <2>1, GrownKeepsExport
<1>2. CASE CommitClaim
  <2>1. DataInv' /\ Grown
    BY <1>2, ClaimGrows
  <2> QED
    BY <2>1, GrownKeepsExport
<1>3. CASE Stats
  BY <1>3, StatsKeeps
<1>4. CASE ExportPage
  BY <1>4, PageKeeps
<1>5. CASE UNCHANGED diagnosticVars
  <2>1. UNCHANGED <<storeVars, logVars, tableVars, exportVars, steady>>
    BY <1>5 DEF diagnosticVars
  <2>2. DataInv'
    BY <2>1, DataUntouched
  <2>3. /\ transactions' = transactions /\ events' = events /\ streams' = streams
        /\ jobs' = jobs /\ projection_entries' = projection_entries /\ steady' = steady
    BY <2>1 DEF storeVars, logVars, tableVars
  <2>4. DataInv' /\ Grown
    <3>1. \A id \in DOMAIN jobs : jobs[id].attempt \in Nat
      BY DEF DataInv, JobInv, TypeOK, JobRow
    <3> QED
      BY <2>1, <2>2, <2>3, <3>1 DEF Grown
  <2> QED
    BY <2>4, GrownKeepsExport
<1> QED
  BY <1>1, <1>2, <1>3, <1>4, <1>5 DEF DiagnosticNext

\* Batches, claims and pages, however they alternate, keep what is true of the
\* tables and of the rows written of them.
THEOREM DiagnosticInvariant == DiagnosticSpec => []DiagnosticInv
BY DiagnosticStart, DiagnosticStep, PTL DEF DiagnosticSpec

-----------------------------------------------------------------------------
(* What the reader of an export may rely on *)

LEMMA GapFreeFromInv == DiagnosticInv => ExportGapFree
<1> SUFFICES ASSUME DataInv, ExportInv, Exported PROVE ExportGapFree
  BY DEF DiagnosticInv, ExportGapFree
<1>1. stage = 9
  BY TheTables DEF ExportInv, Progress, Exported
<1>2. \A i \in DOMAIN out["transactions"] :
         transactions[out["transactions"][i]].transaction_sequence = i
  BY DEF ExportInv, TransactionsWritten
<1>3. out["events"] = SubSeq(events, 1, Len(out["events"]))
  <2> PICK o, e, n, first : /\ o = out["events"] /\ e = events /\ n = Len(out["events"])
                            /\ first = SubSeq(events, 1, Len(out["events"]))
    OBVIOUS
  <2>1. e \in Seq(EventRow) /\ o \in Seq(Range(o)) /\ n = Len(o)
    BY TheTables DEF DataInv, LogInv, ExportInv, Progress
  <2>2. \A i \in DOMAIN o : i \in DOMAIN e /\ o[i] = e[i]
    BY DEF ExportInv, EventsWritten
  <2>3. n \in Nat /\ DOMAIN o = 1 .. n /\ o = [i \in 1 .. n |-> o[i]]
    BY <2>1
  <2>4. Len(e) \in Nat /\ DOMAIN e = 1 .. Len(e) /\ e \in [1 .. Len(e) -> EventRow]
    BY <2>1
  <2>5. n \in 0 .. Len(e)
    <3>1. CASE n = 0
      BY <2>4, <3>1
    <3>2. CASE n # 0
      <4>1. n \in DOMAIN o
        BY <2>3, <3>2
      <4>2. n \in 1 .. Len(e)
        BY <2>2, <2>4, <4>1
      <4> QED
        BY <2>4, <4>2
    <3> QED
      BY <3>1, <3>2
  <2>6. first = SubSeq(e, 1, n)
    OBVIOUS
  <2>7. first \in Seq(EventRow) /\ Len(first) = n /\ \A k \in 1 .. n : first[k] = e[k]
    BY <2>4, <2>5, <2>6, PrefixOf
  <2>8. first = [i \in 1 .. n |-> first[i]]
    BY <2>7
  <2>9. \A i \in 1 .. n : first[i] = o[i]
    BY <2>2, <2>3, <2>7
  <2>10. first = o
    BY <2>3, <2>8, <2>9
  <2> QED
    BY <2>10
<1>4. /\ Len(out["transactions"]) >= header.transactions
      /\ Len(out["events"]) >= header.events
      /\ Len(out["streams"]) >= header.streams
      /\ Len(out["jobs"]) >= header.jobs
  <2>1. /\ Covered(1, TransactionSequences, header.transactions)
        /\ Covered(2, DOMAIN events, header.events)
        /\ Covered(3, DOMAIN streams, header.streams)
        /\ Covered(6, EnqueueSequences, header.jobs)
    BY <1>1 DEF ExportInv, HeaderCovered
  <2> QED
    BY <1>1, <2>1, TheTables DEF Covered
<1> QED
  BY <1>2, <1>3, <1>4 DEF ExportGapFree

LEMMA ClosedFromInv == DiagnosticInv => ExportClosed
<1> SUFFICES ASSUME DataInv, ExportInv, Exported PROVE ExportClosed
  BY DEF DiagnosticInv, ExportClosed
<1>1. stage = 9
  BY TheTables DEF ExportInv, Progress, Exported
<1>2. ASSUME NEW i \in DOMAIN events, events[i].transaction_id \in Written("transactions")
      PROVE  events[i] \in Written("events")
  <2>1. i \in DOMAIN out["events"]
    BY <1>1, <1>2 DEF ExportInv, EventsWritten
  <2>2. out["events"][i] = events[i]
    BY <2>1 DEF ExportInv, EventsWritten
  <2> QED
    BY <2>1, <2>2 DEF Written, Range
<1>3. ASSUME NEW e \in Written("events")
      PROVE  \E s \in Written("streams") :
                s.stream_id = e.stream_id /\ s.current_version >= e.stream_version
  <2>1. PICK i \in DOMAIN out["events"] : e = out["events"][i]
    BY <1>3 DEF Written, Range
  <2>2. e = events[i]
    BY <2>1 DEF ExportInv, EventsWritten
  <2>3. StreamWritten(events[i])
    BY <1>1, <2>1 DEF ExportInv, StreamsWritten
  <2> QED
    BY <2>2, <2>3 DEF StreamWritten
<1>4. \A j \in Written("jobs") : \A n \in 1 .. j.attempt :
         \E r \in Written("claim_receipts") : r.job_id = j.job_id /\ r.attempt = n
  BY <1>1 DEF ExportInv, JobsWritten
<1> QED
  BY <1>2, <1>3, <1>4 DEF ExportClosed

LEMMA OnceFromInv == DiagnosticInv => SteadyEntriesOnce
<1> SUFFICES ASSUME DataInv, ExportInv, Exporting, Table = "jobs", NEW i \in steady
             PROVE  Cardinality({k \in DOMAIN out["projection_entries"] :
                       out["projection_entries"][k].key = projection_entries[i].key}) = 1
  BY DEF DiagnosticInv, SteadyEntriesOnce
<1>1. stage = 6
  <2>1. stage \in {1, 2, 3, 4, 5, 6, 7, 8}
    BY TheTables DEF Exporting
  <2> QED
    BY <2>1, TheTables DEF Table
<1> PICK written, key : written = out["projection_entries"] /\ key = projection_entries[i].key
  OBVIOUS
<1>2. Once(written, key)
  BY <1>1 DEF ExportInv, EntriesWritten
<1>3. PICK k \in DOMAIN written : \A l \in DOMAIN written : written[l].key = key <=> l = k
  BY <1>2 DEF Once
<1>4. {l \in DOMAIN written : written[l].key = key} = {k}
  BY <1>3
<1>5. Cardinality({k}) = 1
  BY FS_Singleton
<1> QED
  BY <1>4, <1>5

\* The append-only tables are exported without a gap or a repetition, and with
\* no fewer rows than the statistics at the top say (the paging loops).
THEOREM ExportsAreGapFree == DiagnosticSpec => []ExportGapFree
BY DiagnosticInvariant, GapFreeFromInv, PTL

\* The events of an exported transaction, the stream of an exported event and the
\* receipts of an exported job's attempts are exported too (diagnostic_export
\* reads its tables in an order that makes it so).
THEOREM ExportsAreClosed == DiagnosticSpec => []ExportClosed
BY DiagnosticInvariant, ClosedFromInv, PTL

\* An entry whose row is there throughout is exported once, whatever is put,
\* deleted or replaced around it (export_projections pages by rowid).
THEOREM SteadyEntriesExportedOnce == DiagnosticSpec => []SteadyEntriesOnce
BY DiagnosticInvariant, OnceFromInv, PTL
=============================================================================
