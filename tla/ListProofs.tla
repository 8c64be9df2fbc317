----------------------------- MODULE ListProofs -----------------------------
(***************************************************************************)
(* Lemmas about lists of any length: what is kept of them, and what is       *)
(* greatest in them.                                                         *)
(***************************************************************************)
EXTENDS Lists, SequencesExt, FiniteSetTheorems, NaturalsInduction, SequenceTheorems, TLAPS

-----------------------------------------------------------------------------
(***************************************************************************)
(* Lists and what stands in them.                                           *)
(***************************************************************************)

\* The least number of a set.
LEMMA Smallest ==
  ASSUME NEW T, T \subseteq Nat, T # {}
  PROVE  \E n \in T : \A m \in T : n <= m
<1> DEFINE R == {p \in Nat \X Nat : p[1] < p[2]}
<1>1. IsWellFoundedOn(R, Nat)
  BY NatLessThanWellFounded, Zenon DEF OpToRel
<1> HIDE DEF R
<1>2. \E n \in T : \A m \in T : <<m, n>> \notin R
  BY <1>1, WFMin
<1>3. \A m, n \in T : m < n => <<m, n>> \in R
  BY DEF R
<1>4. \A n \in T : n \in Nat
  OBVIOUS
<1>5. PICK n \in T : \A m \in T : <<m, n>> \notin R
  BY <1>2
<1>6. \A m \in T : ~(m < n)
  BY <1>3, <1>5
<1> QED
  BY <1>4, <1>6

\* The positions of a list up to one of them.
UpTo(P, i) == {j \in P : j <= i}

LEMMA UpToIsFinite ==
  ASSUME NEW P, NEW n \in Nat, P \subseteq 1..n
  PROVE  /\ IsFiniteSet(P) /\ Cardinality(P) \in Nat
         /\ \A m : IsFiniteSet(UpTo(P, m)) /\ Cardinality(UpTo(P, m)) \in Nat
<1>1. IsFiniteSet(1..n)
  BY FS_Interval
<1>2. \A T \in SUBSET (1..n) : IsFiniteSet(T) /\ Cardinality(T) \in Nat
  BY <1>1, FS_Subset, FS_CardinalityType
<1>3. \A m : UpTo(P, m) \in SUBSET (1..n)
  BY DEF UpTo
<1> QED
  BY <1>2, <1>3

\* They are counted one by one.
LEMMA CountNext ==
  ASSUME NEW P, NEW n \in Nat, P \subseteq 1..n, NEW m \in Nat
  PROVE  Cardinality(UpTo(P, m + 1)) =
           IF m + 1 \in P THEN Cardinality(UpTo(P, m)) + 1 ELSE Cardinality(UpTo(P, m))
<1>1. IsFiniteSet(UpTo(P, m))
  BY UpToIsFinite
<1>2. \A j \in P : j <= m + 1 <=> j <= m \/ j = m + 1
  OBVIOUS
<1>3. /\ m + 1 \in P => UpTo(P, m + 1) = UpTo(P, m) \cup {m + 1}
      /\ m + 1 \notin P => UpTo(P, m + 1) = UpTo(P, m)
  BY <1>2, m + 1 <= m + 1, Zenon DEF UpTo
<1>4. m + 1 \notin UpTo(P, m)
  BY DEF UpTo
<1> QED
  BY <1>1, <1>3, <1>4, FS_AddElement

\* The kth position exists.
LEMMA Position ==
  ASSUME NEW n \in Nat, NEW P, P \subseteq 1..n, NEW k \in 1..Cardinality(P)
  PROVE  \E i \in P : Cardinality(UpTo(P, i)) = k
<1> DEFINE T == {m \in Nat : Cardinality(UpTo(P, m)) >= k}
<1>1. Cardinality(P) \in Nat /\ \A m : Cardinality(UpTo(P, m)) \in Nat
  BY UpToIsFinite
<1> HIDE DEF T
<1>within. \A j \in P : j \in Nat /\ 1 <= j /\ j <= n
  OBVIOUS
<1>2. UpTo(P, n) = P
  BY <1>within DEF UpTo
<1>3. n \in T
  BY <1>1, <1>2 DEF T
<1>4. PICK m \in T : \A l \in T : m <= l
  <2>1. T \subseteq Nat
    BY DEF T
  <2> QED
    BY <1>3, <2>1, Smallest
<1>5. m \in Nat /\ Cardinality(UpTo(P, m)) >= k
  BY DEF T
<1>6. m # 0
  <2>1. UpTo(P, 0) = {}
    <3>1. \A j \in P : ~(j <= 0)
      BY <1>within
    <3> QED
      BY <3>1, Zenon DEF UpTo
  <2> QED
    BY <1>5, <2>1, FS_EmptySet
<1>7. PICK l \in Nat : m = l + 1
  BY <1>5, <1>6
<1>8. l \notin T
  BY <1>4, <1>7
<1>9. Cardinality(UpTo(P, l)) < k
  BY <1>1, <1>8 DEF T
<1>10. Cardinality(UpTo(P, l + 1)) =
         IF l + 1 \in P THEN Cardinality(UpTo(P, l)) + 1 ELSE Cardinality(UpTo(P, l))
  BY CountNext
<1>11. m \in P /\ Cardinality(UpTo(P, m)) = k
  BY <1>1, <1>5, <1>7, <1>9, <1>10
<1> QED
  BY <1>11

\* Kept takes its elements from the positions, from each once.
LEMMA KeptFrom ==
  ASSUME NEW S, NEW s \in Seq(S), NEW P, P \subseteq DOMAIN s
  PROVE  /\ Kept(s, P) \in Seq(S)
         /\ \E at \in [DOMAIN Kept(s, P) -> P] :
              /\ \A k \in DOMAIN Kept(s, P) : Kept(s, P)[k] = s[at[k]]
              /\ \A k, l \in DOMAIN Kept(s, P) : at[k] = at[l] => k = l
<1> DEFINE n == Cardinality(P)
           place(k) == CHOOSE i \in P : Cardinality(UpTo(P, i)) = k
           at == [k \in 1..n |-> place(k)]
<1>1. DOMAIN s = 1..Len(s) /\ Len(s) \in Nat
  OBVIOUS
<1>2. n \in Nat
  BY <1>1, UpToIsFinite
<1>3. ASSUME NEW k \in 1..n PROVE place(k) \in P /\ Cardinality(UpTo(P, place(k))) = k
  <2>1. \E i \in P : Cardinality(UpTo(P, i)) = k
    BY <1>1, Position
  <2> QED
    BY <2>1
<1>4. Kept(s, P) = [k \in 1..n |-> s[place(k)]]
  BY DEF Kept, UpTo
<1> HIDE DEF n, place
<1>5. \A k \in 1..n : s[place(k)] \in S
  BY <1>1, <1>3
<1>6. Kept(s, P) \in Seq(S) /\ DOMAIN Kept(s, P) = 1..n
  BY <1>2, <1>4, <1>5
<1>7. at \in [1..n -> P] /\ \A k \in 1..n : Kept(s, P)[k] = s[at[k]]
  BY <1>3, <1>4
<1>8. \A k, l \in 1..n : at[k] = at[l] => k = l
  BY <1>3
<1> QED
  BY <1>6, <1>7, <1>8

LEMMA ConcatRows ==
  ASSUME NEW S, NEW s \in Seq(S), NEW t \in Seq(S)
  PROVE  s \o t \in Seq(S) /\ ToSet(s \o t) = ToSet(s) \cup ToSet(t)
<1>1. /\ s \o t \in Seq(S) /\ Len(s \o t) = Len(s) + Len(t)
      /\ \A i \in 1..Len(s) + Len(t) : (s \o t)[i] = IF i <= Len(s) THEN s[i] ELSE t[i - Len(s)]
  OBVIOUS
<1>2. ASSUME NEW i \in 1..Len(s) PROVE s[i] \in ToSet(s \o t)
  <2>1. i \in DOMAIN (s \o t) /\ (s \o t)[i] = s[i]
    BY <1>1
  <2> QED
    BY <2>1 DEF ToSet
<1>3. ASSUME NEW i \in 1..Len(t) PROVE t[i] \in ToSet(s \o t)
  <2>1. Len(s) + i \in DOMAIN (s \o t) /\ (s \o t)[Len(s) + i] = t[i]
    BY <1>1
  <2> QED
    BY <2>1 DEF ToSet
<1>4. ASSUME NEW i \in DOMAIN (s \o t) PROVE (s \o t)[i] \in ToSet(s) \cup ToSet(t)
  <2>1. CASE i <= Len(s)
    BY <1>1, <2>1 DEF ToSet
  <2>2. CASE ~(i <= Len(s))
    <3>1. i - Len(s) \in DOMAIN t /\ (s \o t)[i] = t[i - Len(s)]
      BY <1>1, <2>2
    <3> QED
      BY <3>1 DEF ToSet
  <2> QED
    BY <2>1, <2>2
<1>5. DOMAIN s = 1..Len(s) /\ DOMAIN t = 1..Len(t)
  OBVIOUS
<1> QED
  BY <1>1, <1>2, <1>3, <1>4, <1>5 DEF ToSet

LEMMA SliceRows ==
  ASSUME NEW S, NEW s \in Seq(S), NEW a \in Nat \ {0}, NEW b \in Int, b <= Len(s)
  PROVE  SubSeq(s, a, b) \in Seq(S) /\ ToSet(SubSeq(s, a, b)) \subseteq ToSet(s)
<1>1. /\ SubSeq(s, a, b) \in Seq(S)
      /\ Len(SubSeq(s, a, b)) = IF a <= b THEN b - a + 1 ELSE 0
      /\ \A i \in 1..Len(SubSeq(s, a, b)) : SubSeq(s, a, b)[i] = s[a + i - 1]
  OBVIOUS
<1>2. ASSUME NEW i \in DOMAIN SubSeq(s, a, b) PROVE SubSeq(s, a, b)[i] \in ToSet(s)
  <2>1. a + i - 1 \in DOMAIN s /\ SubSeq(s, a, b)[i] = s[a + i - 1]
    BY <1>1
  <2> QED
    BY <2>1 DEF ToSet
<1> QED
  BY <1>1, <1>2 DEF ToSet

LEMMA KeptRows ==
  ASSUME NEW S, NEW s \in Seq(S), NEW P, P \subseteq DOMAIN s
  PROVE  /\ Kept(s, P) \in Seq(S)
         /\ ToSet(Kept(s, P)) \subseteq {s[i] : i \in P}
         /\ ToSet(Kept(s, P)) \subseteq ToSet(s)
<1>1. /\ Kept(s, P) \in Seq(S)
      /\ \A k \in DOMAIN Kept(s, P) : \E i \in P : Kept(s, P)[k] = s[i]
  BY KeptFrom
<1> QED
  BY <1>1 DEF ToSet

\* No two positions have the same number.
LEMMA NumbersDiffer ==
  ASSUME NEW n \in Nat, NEW P, P \subseteq 1..n, NEW i \in P, NEW j \in P,
         Cardinality(UpTo(P, i)) = Cardinality(UpTo(P, j))
  PROVE  i = j
<1>1. ASSUME NEW k \in P, NEW l \in P, k < l, Cardinality(UpTo(P, k)) = Cardinality(UpTo(P, l))
      PROVE  FALSE
  <2>1. IsFiniteSet(UpTo(P, l))
    BY UpToIsFinite
  <2>2. l <= l /\ ~(l <= k) /\ \A m \in P : m <= k => m <= l
    BY <1>1
  <2>3. UpTo(P, k) \subseteq UpTo(P, l) /\ l \in UpTo(P, l) /\ l \notin UpTo(P, k)
    BY <1>1, <2>2, Zenon DEF UpTo
  <2> QED
    BY <1>1, <2>1, <2>3, FS_Subset
<1>2. i \in Nat /\ j \in Nat
  OBVIOUS
<1>3. i < j \/ j < i \/ i = j
  BY <1>2
<1> QED
  BY <1>1, <1>3

\* All that stands at the positions is kept.
LEMMA KeptAll ==
  ASSUME NEW S, NEW s \in Seq(S), NEW P, P \subseteq DOMAIN s
  PROVE  ToSet(Kept(s, P)) = {s[i] : i \in P} /\ Len(Kept(s, P)) = Cardinality(P)
<1> DEFINE n == Cardinality(P)
           place(k) == CHOOSE i \in P : Cardinality(UpTo(P, i)) = k
<1>1. DOMAIN s = 1..Len(s) /\ Len(s) \in Nat
  OBVIOUS
<1>2. n \in Nat /\ IsFiniteSet(P)
  BY <1>1, UpToIsFinite
<1>3. Kept(s, P) = [k \in 1..n |-> s[place(k)]] /\ Kept(s, P) \in Seq(S)
  <2>1. Kept(s, P) = [k \in 1..n |-> s[place(k)]]
    BY DEF Kept, UpTo
  <2> QED
    BY <2>1, KeptFrom
<1>4. ASSUME NEW i \in P PROVE s[i] \in ToSet(Kept(s, P))
  <2> DEFINE k == Cardinality(UpTo(P, i))
  <2>0. i <= i
    BY <1>1
  <2>1. UpTo(P, i) \subseteq P /\ i \in UpTo(P, i)
    BY <2>0, Zenon DEF UpTo
  <2>2. k \in Nat /\ IsFiniteSet(UpTo(P, i))
    BY <1>1, UpToIsFinite
  <2>3. k <= n /\ k # 0
    BY <1>2, <2>1, <2>2, FS_Subset, FS_EmptySet
  <2>4. k \in 1..n
    BY <1>2, <2>2, <2>3
  <2>5. place(k) \in P /\ Cardinality(UpTo(P, place(k))) = k
    OBVIOUS
  <2>6. place(k) = i
    <3> HIDE DEF place
    <3> QED
      BY <1>1, <2>5, NumbersDiffer
  <2> HIDE DEF place, k, n
  <2>7. k \in DOMAIN Kept(s, P) /\ Kept(s, P)[k] = s[i]
    BY <1>3, <2>4, <2>6
  <2> QED
    BY <2>7 DEF ToSet
<1>5. Len(Kept(s, P)) = n
  <2> HIDE DEF place, n
  <2> QED
    BY <1>2, <1>3
<1>6. ToSet(Kept(s, P)) \subseteq {s[i] : i \in P}
  BY KeptRows
<1> QED
  BY <1>4, <1>5, <1>6

\* A list with nothing twice.
Distinct(s) == \A i, j \in DOMAIN s : s[i] = s[j] => i = j

LEMMA KeptDistinct ==
  ASSUME NEW S, NEW s \in Seq(S), Distinct(s), NEW P, P \subseteq DOMAIN s
  PROVE  Distinct(Kept(s, P))
<1>1. PICK at \in [DOMAIN Kept(s, P) -> P] :
        /\ \A k \in DOMAIN Kept(s, P) : Kept(s, P)[k] = s[at[k]]
        /\ \A k, l \in DOMAIN Kept(s, P) : at[k] = at[l] => k = l
  BY KeptFrom
<1> QED
  BY <1>1 DEF Distinct

\* The elements of a finite set in an order.
LEMMA OrderedRows ==
  ASSUME NEW S, IsFiniteSet(S), NEW s \in SetToSeqs(S)
  PROVE  s \in Seq(S) /\ Distinct(s)
<1>1. Cardinality(S) \in Nat
  BY FS_CardinalityType
<1>2. s \in [1..Cardinality(S) -> S]
  BY DEF SetToSeqs
<1>3. \A i, j \in 1..Cardinality(S) : i # j => s[i] # s[j]
  BY DEF SetToSeqs
<1> QED
  BY <1>1, <1>2, <1>3 DEF Distinct

\* They are all of them.
LEMMA ListingIsWhole ==
  ASSUME NEW S, IsFiniteSet(S), NEW s \in SetToSeqs(S)
  PROVE  s \in Seq(S) /\ Distinct(s) /\ ToSet(s) = S
<1> DEFINE n == Cardinality(S)
<1>1. n \in Nat /\ IsFiniteSet(1..n) /\ Cardinality(1..n) = n
  BY FS_CardinalityType, FS_Interval
<1>2. s \in [1..n -> S] /\ \A i, j \in 1..n : i # j => s[i] # s[j]
  BY DEF SetToSeqs
<1> HIDE DEF n
<1>3. s \in Injection(1..n, S)
  BY <1>2 DEF Injection, IsInjective
<1>4. s \in Surjection(1..n, S)
  BY <1>1, <1>3, FS_Injection DEF n
<1>5. ToSet(s) = S
  BY <1>2, <1>4 DEF Surjection, ToSet
<1> QED
  BY <1>5, OrderedRows

LEMMA RowsAreFinite ==
  ASSUME NEW S, NEW s \in Seq(S)
  PROVE  IsFiniteSet(ToSet(s)) /\ ToSet(s) \subseteq S
<1>1. IsFiniteSet(1..Len(s))
  BY FS_Interval
<1>2. s \in Surjection(1..Len(s), ToSet(s))
  BY DEF Surjection, ToSet
<1>3. ToSet(s) \subseteq S
  BY DEF ToSet
<1> QED
  BY <1>1, <1>2, <1>3, FS_Surjection

-----------------------------------------------------------------------------
(***************************************************************************)
(* Keys: tuples of n numbers in Python's order.                             *)
(***************************************************************************)
Tuples(n) == [1..n -> Int]

LEMMA SeqIsTuple ==
  ASSUME NEW s \in Seq(Int)
  PROVE  s \in Tuples(Len(s))
BY LenProperties DEF Tuples

LEMMA FiveNumbers ==
  ASSUME NEW a \in Int, NEW b \in Int, NEW c \in Int, NEW d \in Int, NEW e \in Int
  PROVE  /\ <<a, b, c, d, e>> \in Seq(Int) /\ Len(<<a, b, c, d, e>>) = 5
         /\ <<a, b, c, d, e>> \in Tuples(5) /\ <<a, b, c, d, e>>[5] = e
<1>1. /\ <<a, b, c, d, e>> \in Seq(Int) /\ Len(<<a, b, c, d, e>>) = 5
      /\ <<a, b, c, d, e>>[5] = e
  OBVIOUS
<1> QED
  BY <1>1, SeqIsTuple

\* Two different keys have a first criterion in which they differ.
LEMMA FirstDifference ==
  ASSUME NEW n \in Nat, NEW a \in Tuples(n), NEW b \in Tuples(n), a # b
  PROVE  \E i \in 1..n : a[i] # b[i] /\ \A j \in 1..i - 1 : a[j] = b[j]
<1> DEFINE T == {i \in 1..n : a[i] # b[i]}
<1>1. T \subseteq Nat /\ T # {}
  BY DEF Tuples
<1>2. PICK i \in T : \A j \in T : i <= j
  BY <1>1, Smallest
<1>3. \A j \in 1..i - 1 : j \in 1..n /\ ~(i <= j)
  BY <1>2
<1> QED
  BY <1>2, <1>3

LEMMA AboveIsTotal ==
  ASSUME NEW n \in Nat, NEW a \in Tuples(n), NEW b \in Tuples(n), a # b
  PROVE  Above(a, b) \/ Above(b, a)
<1>1. PICK i \in 1..n : a[i] # b[i] /\ \A j \in 1..i - 1 : a[j] = b[j]
  BY FirstDifference
<1>2. a[i] \in Int /\ b[i] \in Int /\ DOMAIN a = 1..n /\ DOMAIN b = 1..n
  BY DEF Tuples
<1>3. a[i] > b[i] \/ b[i] > a[i]
  BY <1>1, <1>2
<1> QED
  BY <1>1, <1>2, <1>3 DEF Above

LEMMA AboveIsAsymmetric ==
  ASSUME NEW n \in Nat, NEW a \in Tuples(n), NEW b \in Tuples(n), Above(a, b)
  PROVE  ~Above(b, a) /\ a # b
<1>1. PICK i \in 1..n : a[i] > b[i] /\ \A j \in 1..i - 1 : a[j] = b[j]
  BY DEF Above, Tuples
<1>2. ASSUME NEW k \in 1..n, b[k] > a[k], \A j \in 1..k - 1 : b[j] = a[j] PROVE FALSE
  <2>1. \A j \in 1..n : a[j] \in Int /\ b[j] \in Int
    BY DEF Tuples
  <2>2. CASE i < k
    <3>1. i \in 1..k - 1
      BY <2>2
    <3> QED
      BY <1>1, <1>2, <2>1, <3>1
  <2>3. CASE k < i
    <3>1. k \in 1..i - 1
      BY <2>3
    <3> QED
      BY <1>1, <1>2, <2>1, <3>1
  <2>4. CASE i = k
    BY <1>1, <1>2, <2>1, <2>4
  <2> QED
    BY <2>2, <2>3, <2>4
<1>3. a[i] # b[i]
  <2>1. a[i] \in Int /\ b[i] \in Int
    BY DEF Tuples
  <2> QED
    BY <1>1, <2>1
<1>4. DOMAIN b = 1..n
  BY DEF Tuples
<1> QED
  BY <1>2, <1>3, <1>4 DEF Above

LEMMA AboveIsTransitive ==
  ASSUME NEW n \in Nat, NEW a \in Tuples(n), NEW b \in Tuples(n), NEW c \in Tuples(n),
         Above(a, b), Above(b, c)
  PROVE  Above(a, c)
<1>1. PICK i \in 1..n : a[i] > b[i] /\ \A j \in 1..i - 1 : a[j] = b[j]
  BY DEF Above, Tuples
<1>2. PICK k \in 1..n : b[k] > c[k] /\ \A j \in 1..k - 1 : b[j] = c[j]
  BY DEF Above, Tuples
<1>3. \A j \in 1..n : a[j] \in Int /\ b[j] \in Int /\ c[j] \in Int
  BY DEF Tuples
<1> DEFINE m == IF i < k THEN i ELSE k
<1>4. m \in 1..n /\ m <= i /\ m <= k /\ (m = i \/ m = k)
  OBVIOUS
<1>5. \A j \in 1..m - 1 : j \in 1..i - 1 /\ j \in 1..k - 1
  BY <1>4
<1>6. \A j \in 1..m - 1 : a[j] = c[j]
  BY <1>1, <1>2, <1>5
<1>7. a[m] > c[m]
  <2>1. m < i => a[m] = b[m]
    BY <1>1, <1>4
  <2>2. m < k => b[m] = c[m]
    BY <1>2, <1>4
  <2>3. a[m] >= b[m] /\ b[m] >= c[m]
    BY <1>1, <1>2, <1>3, <1>4, <2>1, <2>2
  <2>4. a[m] > b[m] \/ b[m] > c[m]
    BY <1>1, <1>2, <1>4
  <2> QED
    BY <1>3, <1>4, <2>3, <2>4
<1>8. DOMAIN a = 1..n
  BY DEF Tuples
<1> HIDE DEF m
<1> QED
  BY <1>4, <1>6, <1>7, <1>8 DEF Above

\* Not above is below or equal, so it passes on.
LEMMA NotAboveIsTransitive ==
  ASSUME NEW n \in Nat, NEW a \in Tuples(n), NEW b \in Tuples(n), NEW c \in Tuples(n),
         ~Above(a, b), Above(c, b)
  PROVE  ~Above(a, c)
<1>1. CASE a = b
  BY <1>1, AboveIsAsymmetric
<1>2. CASE a # b
  <2>1. Above(b, a)
    BY <1>2, AboveIsTotal
  <2>2. Above(c, a)
    BY <2>1, AboveIsTransitive
  <2> QED
    BY <2>2, AboveIsAsymmetric
<1> QED
  BY <1>1, <1>2

\* A number set before a key.
LEMMA NumberBefore ==
  ASSUME NEW a \in Int, NEW b \in Seq(Int)
  PROVE  /\ <<a>> \o b \in Seq(Int) /\ Len(<<a>> \o b) = Len(b) + 1
         /\ (<<a>> \o b)[1] = a /\ \A i \in 1..Len(b) : (<<a>> \o b)[i + 1] = b[i]
<1>1. <<a>> \in Seq(Int) /\ Len(<<a>>) = 1 /\ <<a>>[1] = a
  OBVIOUS
<1> DEFINE s == <<a>>
<1> HIDE DEF s
<1>2. /\ s \o b \in Seq(Int) /\ Len(s \o b) = Len(s) + Len(b)
      /\ \A i \in 1..Len(s) + Len(b) : (s \o b)[i] = IF i <= Len(s) THEN s[i] ELSE b[i - Len(s)]
  BY <1>1, ConcatProperties DEF s
<1>3. Len(b) \in Nat /\ Len(s) = 1 /\ s[1] = a
  BY <1>1, LenProperties DEF s
<1>4. ASSUME NEW i \in 1..Len(b) PROVE (s \o b)[i + 1] = b[i]
  BY <1>2, <1>3
<1> QED
  BY <1>2, <1>3, <1>4 DEF s

-----------------------------------------------------------------------------
(***************************************************************************)
(* The greatest of a list of keys.                                          *)
(***************************************************************************)

\* i is the first of the greatest of the first m keys.
FirstOfGreatest(keys, m, i) ==
  /\ i \in 1..m
  /\ \A j \in 1..m : ~Above(keys[j], keys[i])
  /\ \A j \in 1..i - 1 : Above(keys[i], keys[j])

LEMMA GreatestSoFar ==
  ASSUME NEW n \in Nat, NEW keys \in Seq(Tuples(n)), NEW m \in 1..Len(keys)
  PROVE  \E i : FirstOfGreatest(keys, m, i)
<1> DEFINE T == {l \in 1..Len(keys) : \A i : ~FirstOfGreatest(keys, l, i)}
<1>typed. \A j \in 1..Len(keys) : keys[j] \in Tuples(n)
  OBVIOUS
<1>1. SUFFICES ASSUME T # {} PROVE FALSE
  OBVIOUS
<1>2. PICK l \in T : \A k \in T : l <= k
  <2>1. T \subseteq Nat
    OBVIOUS
  <2> HIDE DEF T
  <2> QED
    BY <1>1, <2>1, Smallest
<1>3. CASE l = 1
  <2>1. \A j \in 1..l : j = 1
    BY <1>3
  <2>2. ~Above(keys[1], keys[1])
    BY <1>typed, <1>3, AboveIsAsymmetric
  <2>3. FirstOfGreatest(keys, l, 1)
    BY <1>3, <2>1, <2>2 DEF FirstOfGreatest
  <2> QED
    BY <2>3
<1>4. CASE l # 1
  <2>1. l - 1 \in 1..Len(keys) /\ l - 1 \notin T /\ l \in 1..Len(keys)
    BY <1>2, <1>4
  <2>2. PICK i : FirstOfGreatest(keys, l - 1, i)
    BY <2>1
  <2>3. \A j \in 1..l : j \in 1..l - 1 \/ j = l
    BY <2>1
  <2>4. i \in 1..l - 1 /\ i \in 1..l /\ keys[i] \in Tuples(n) /\ keys[l] \in Tuples(n)
    BY <1>typed, <2>1, <2>2 DEF FirstOfGreatest
  <2>5. CASE ~Above(keys[l], keys[i])
    <3>1. FirstOfGreatest(keys, l, i)
      BY <2>2, <2>3, <2>4, <2>5 DEF FirstOfGreatest
    <3> QED
      BY <3>1
  <2>6. CASE Above(keys[l], keys[i])
    <3>1. ASSUME NEW j \in 1..l - 1 PROVE Above(keys[l], keys[j])
      <4>1. keys[j] \in Tuples(n) /\ ~Above(keys[j], keys[i])
        BY <1>typed, <2>1, <2>2, <3>1 DEF FirstOfGreatest
      <4>2. ~Above(keys[j], keys[l])
        BY <2>4, <2>6, <4>1, NotAboveIsTransitive
      <4>3. keys[j] # keys[l]
        BY <2>6, <4>1
      <4> QED
        BY <2>4, <4>1, <4>2, <4>3, AboveIsTotal
    <3>2. ASSUME NEW j \in 1..l PROVE ~Above(keys[j], keys[l])
      <4>1. CASE j = l
        BY <2>4, <4>1, AboveIsAsymmetric
      <4>2. CASE j \in 1..l - 1
        <5>1. keys[j] \in Tuples(n)
          BY <1>typed, <2>1, <4>2
        <5> QED
          BY <2>4, <3>1, <4>2, <5>1, AboveIsAsymmetric
      <4> QED
        BY <2>3, <4>1, <4>2
    <3>3. FirstOfGreatest(keys, l, l)
      BY <2>1, <3>1, <3>2 DEF FirstOfGreatest
    <3> QED
      BY <3>3
  <2> QED
    BY <2>5, <2>6
<1> QED
  BY <1>3, <1>4

\* Of keys that are all different the greatest is above every other.
LEMMA GreatestOfList ==
  ASSUME NEW n \in Nat, NEW keys \in Seq(Tuples(n)), Len(keys) > 0, Distinct(keys)
  PROVE  /\ FirstGreatest(keys) \in DOMAIN keys
         /\ \A j \in DOMAIN keys \ {FirstGreatest(keys)} : Above(keys[FirstGreatest(keys)], keys[j])
<1> DEFINE m == Len(keys)
           g == FirstGreatest(keys)
<1>1. m \in 1..m /\ DOMAIN keys = 1..m
  OBVIOUS
<1>2. PICK i : FirstOfGreatest(keys, m, i)
  BY <1>1, GreatestSoFar
<1>3. g \in DOMAIN keys /\ \A j \in DOMAIN keys : ~Above(keys[j], keys[g])
  BY <1>1, <1>2, Zenon DEF FirstGreatest, FirstOfGreatest
<1> HIDE DEF g
<1>4. ASSUME NEW j \in DOMAIN keys \ {g} PROVE Above(keys[g], keys[j])
  <2>1. keys[j] # keys[g] /\ keys[j] \in Tuples(n) /\ keys[g] \in Tuples(n)
    BY <1>3 DEF Distinct
  <2> QED
    BY <1>3, <2>1, AboveIsTotal
<1> QED
  BY <1>3, <1>4 DEF g

-----------------------------------------------------------------------------
(***************************************************************************)
(* The reason for a choice.                                                 *)
(***************************************************************************)

\* The criterion that parts the greatest from the second is its reason.
LEMMA PartedByIsTheReason ==
  ASSUME NEW n \in Nat, NEW names, DOMAIN names = 1..n,
         \A i, j \in 1..n : names[i] = names[j] => i = j,
         NEW rivals, rivals \subseteq Tuples(n), NEW best \in Tuples(n), NEW second \in rivals,
         Above(best, second), \A r \in rivals : ~Above(r, second) /\ ~Above(r, best) /\ r # best
  PROVE  IsReason(names, PartedBy(names, best, second), best, rivals)
<1> DEFINE parts == {i \in DOMAIN best : best[i] # second[i]}
           first == CHOOSE i \in parts : \A j \in parts : i <= j
<1>1. DOMAIN best = 1..n /\ DOMAIN names = 1..n /\ second \in Tuples(n)
  BY DEF Tuples
<1>2. parts # {} /\ parts \subseteq Nat
  <2>1. best # second
    OBVIOUS
  <2>2. PICK i \in 1..n : best[i] # second[i]
    BY <1>1, <2>1, FirstDifference
  <2> QED
    BY <1>1, <2>2
<1>3. first \in parts /\ \A j \in parts : first <= j
  <2> HIDE DEF parts
  <2>1. \E i \in parts : \A j \in parts : i <= j
    BY <1>2, Smallest
  <2> QED
    BY <2>1
<1>4. PartedBy(names, best, second) = names[first]
  BY <1>2 DEF PartedBy
<1> HIDE DEF first
<1>5. first \in 1..n /\ best[first] # second[first]
  BY <1>1, <1>3
<1>6. \A j \in 1..first - 1 : best[j] = second[j]
  <2> SUFFICES ASSUME NEW j \in 1..first - 1, best[j] # second[j] PROVE FALSE
    OBVIOUS
  <2>1. j \in parts
    BY <1>1, <1>5
  <2> QED
    BY <1>3, <1>5, <2>1
<1> HIDE DEF parts
<1>7. (CHOOSE i \in DOMAIN names : names[i] = names[first]) = first
  BY <1>1, <1>5
<1> DEFINE level == {r \in rivals : \A i \in 1..first - 1 : r[i] = best[i]}
<1>8. second \in level
  BY <1>6
<1>9. ASSUME NEW r \in level PROVE r[first] < best[first]
  <2>1. /\ r \in rivals /\ r \in Tuples(n) /\ DOMAIN r = 1..n
        /\ \A i \in 1..first - 1 : r[i] = best[i] /\ r[i] = second[i]
    BY <1>6 DEF Tuples
  <2>2. r[first] \in Int /\ best[first] \in Int /\ second[first] \in Int
    BY <1>1, <1>5, <2>1 DEF Tuples
  <2>3. ~(r[first] > best[first])
    BY <1>5, <2>1 DEF Above
  <2>4. ~(r[first] > second[first])
    BY <1>5, <2>1 DEF Above
  <2>5. best[first] > second[first]
    <3>1. ~Above(second, best)
      OBVIOUS
    <3>2. ~(second[first] > best[first])
      BY <1>1, <1>5, <1>6, <3>1 DEF Above, Tuples
    <3> QED
      BY <1>5, <2>2, <3>2
  <2> QED
    BY <2>2, <2>3, <2>4, <2>5
<1> QED
  BY <1>4, <1>7, <1>8, <1>9 DEF IsReason

LEMMA PartedByIsAName ==
  ASSUME NEW n \in Nat \ {0}, NEW names, DOMAIN names = 1..n, Len(names) = n,
         NEW a \in Tuples(n), NEW b \in Tuples(n)
  PROVE  PartedBy(names, a, b) \in Range(names)
<1>1. DOMAIN names = 1..n /\ DOMAIN a = 1..n /\ n \in 1..n
  BY DEF Tuples
<1>2. CASE a = b
  <2>1. PartedBy(names, a, b) = names[n]
    BY <1>2 DEF PartedBy
  <2> QED
    BY <1>1, <2>1 DEF Range
<1>3. CASE a # b
  <2> DEFINE parts == {i \in DOMAIN a : a[i] # b[i]}
             first == CHOOSE i \in parts : \A j \in parts : i <= j
  <2>1. parts # {} /\ parts \subseteq Nat
    BY <1>1, <1>3, FirstDifference
  <2>2. PartedBy(names, a, b) = names[first]
    BY <2>1 DEF PartedBy
  <2>3. \E i \in parts : \A j \in parts : i <= j
    <3> HIDE DEF parts
    <3> QED
      BY <2>1, Smallest
  <2>4. first \in DOMAIN a
    BY <2>3
  <2> HIDE DEF first
  <2> QED
    BY <1>1, <2>2, <2>4 DEF Range
<1> QED
  BY <1>2, <1>3
-----------------------------------------------------------------------------
(***************************************************************************)
(* Counting by positions: a list made of others has, one for one, the        *)
(* positions it takes from them, so its counts are theirs.                   *)
(***************************************************************************)

\* Sets that correspond one to one have as many members of a kind.
LEMMA SameCount ==
  ASSUME NEW S, NEW T, IsFiniteSet(S), NEW at \in Bijection(S, T),
         NEW P, P \subseteq S, NEW Q, Q \subseteq T, \A x \in S : x \in P <=> at[x] \in Q
  PROVE  /\ IsFiniteSet(P) /\ IsFiniteSet(Q)
         /\ Cardinality(P) \in Nat /\ Cardinality(P) = Cardinality(Q)
<1> DEFINE b == [x \in P |-> at[x]]
<1>1. /\ at \in [S -> T]
      /\ \A x, y \in S : at[x] = at[y] => x = y
      /\ \A t \in T : \E x \in S : at[x] = t
  BY DEF Bijection, Injection, Surjection, IsInjective
<1>2. b \in [P -> Q]
  BY <1>1
<1>3. \A x, y \in P : b[x] = b[y] => x = y
  BY <1>1
<1>4. \A q \in Q : \E x \in P : b[x] = q
  BY <1>1
<1>5. b \in Bijection(P, Q)
  BY <1>2, <1>3, <1>4 DEF Bijection, Injection, Surjection, IsInjective
<1>6. IsFiniteSet(P) /\ Cardinality(P) \in Nat
  BY FS_Subset, FS_CardinalityType
<1>7. ExistsBijection(P, Q)
  BY <1>5 DEF ExistsBijection
<1> QED
  BY <1>6, <1>7, FS_Bijection

\* What is kept corresponds one to one to the positions it is kept from.
LEMMA KeptPlaces ==
  ASSUME NEW S, NEW s \in Seq(S), NEW P, P \subseteq DOMAIN s
  PROVE  /\ Kept(s, P) \in Seq(S) /\ IsFiniteSet(P)
         /\ DOMAIN Kept(s, P) = 1..Len(Kept(s, P)) /\ Len(Kept(s, P)) = Cardinality(P)
         /\ \E at \in Bijection(DOMAIN Kept(s, P), P) :
              \A k \in DOMAIN Kept(s, P) : Kept(s, P)[k] = s[at[k]]
<1> DEFINE kept == Kept(s, P)
<1>1. kept \in Seq(S) /\ Len(kept) = Cardinality(P)
  BY KeptRows, KeptAll
<1>2. PICK at \in [DOMAIN kept -> P] :
        /\ \A k \in DOMAIN kept : kept[k] = s[at[k]]
        /\ \A k, l \in DOMAIN kept : at[k] = at[l] => k = l
  BY KeptFrom
<1>3. DOMAIN kept = 1..Len(kept) /\ Len(kept) \in Nat
  BY <1>1
<1>4. IsFiniteSet(P)
  <2>1. IsFiniteSet(DOMAIN s)
    BY FS_Interval
  <2> QED
    BY <2>1, FS_Subset
<1>5. IsFiniteSet(DOMAIN kept) /\ Cardinality(DOMAIN kept) = Cardinality(P)
  BY <1>1, <1>3, FS_Interval
<1>6. at \in Injection(DOMAIN kept, P)
  BY <1>2 DEF Injection, IsInjective
<1>7. at \in Surjection(DOMAIN kept, P)
  BY <1>4, <1>5, <1>6, FS_Injection
<1>8. at \in Bijection(DOMAIN kept, P)
  BY <1>6, <1>7 DEF Bijection
<1> QED
  BY <1>1, <1>2, <1>3, <1>4, <1>8

\* The positions of a list of lists.
Places(lists) == UNION {{k} \X DOMAIN lists[k] : k \in DOMAIN lists}

LEMMA PlacesAre ==
  ASSUME NEW lists
  PROVE  /\ \A x \in Places(lists) : /\ x = <<x[1], x[2]>>
                                     /\ x[1] \in DOMAIN lists /\ x[2] \in DOMAIN lists[x[1]]
         /\ \A k \in DOMAIN lists : \A i \in DOMAIN lists[k] : <<k, i>> \in Places(lists)
BY DEF Places

\* The first n lists, joined.
Joining(lists, f) ==
  f = [n \in 0..Len(lists) |-> IF n = 0 THEN <<>> ELSE f[n - 1] \o lists[n]]

\* The joining of the first n lists as Joined builds it, up to m.
JoinedUpTo(lists, m, f) ==
  /\ DOMAIN f = 0..m
  /\ \A n \in 0..m : f[n] = IF n = 0 THEN <<>> ELSE f[n - 1] \o lists[n]

LEMMA JoiningExists ==
  ASSUME NEW lists, Len(lists) \in Nat
  PROVE  \E f : Joining(lists, f) /\ Joined(lists) = f[Len(lists)]
<1> DEFINE Bad == {m \in 0..Len(lists) : ~\E f : JoinedUpTo(lists, m, f)}
<1>1. Bad = {}
  <2> SUFFICES ASSUME Bad # {} PROVE FALSE
    OBVIOUS
  <2>1. PICK m \in Bad : \A k \in Bad : m <= k
    <3>1. Bad \subseteq Nat
      OBVIOUS
    <3> HIDE DEF Bad
    <3> QED
      BY <3>1, Smallest
  <2>2. m \in Nat /\ m \in 0..Len(lists) /\ ~\E f : JoinedUpTo(lists, m, f)
    OBVIOUS
  <2>3. CASE m = 0
    <3> DEFINE g == [n \in 0..0 |-> <<>>]
    <3>1. JoinedUpTo(lists, 0, g)
      BY DEF JoinedUpTo
    <3> QED
      BY <2>2, <2>3, <3>1
  <2>4. CASE m # 0
    <3>1. m - 1 \in 0..Len(lists) /\ m - 1 \notin Bad
      BY <2>1, <2>2, <2>4
    <3>2. PICK f : JoinedUpTo(lists, m - 1, f)
      BY <3>1
    <3> DEFINE g == [n \in 0..m |-> IF n = m THEN f[m - 1] \o lists[m] ELSE f[n]]
    <3>3. JoinedUpTo(lists, m, g)
      BY <2>2, <2>4, <3>2 DEF JoinedUpTo
    <3> QED
      BY <2>2, <3>3
  <2> QED
    BY <2>3, <2>4
<1>2. PICK f : JoinedUpTo(lists, Len(lists), f)
  BY <1>1
<1> DEFINE g == [n \in 0..Len(lists) |-> f[n]]
<1>3. Joining(lists, g)
  BY <1>2 DEF JoinedUpTo, Joining
<1> HIDE DEF g
<1>4. Joined(lists) = (CHOOSE h : Joining(lists, h))[Len(lists)]
  BY Zenon DEF Joined, Joining
<1> QED
  BY <1>3, <1>4
\* Where the first n lists stand in their joining.
PlacesTo(lists, n) == {x \in Places(lists) : x[1] <= n}

PlacedTo(lists, S, joined, n) ==
  /\ joined \in Seq(S)
  /\ \E at \in Bijection(1..Len(joined), PlacesTo(lists, n)) :
       \A j \in 1..Len(joined) : joined[j] = lists[at[j][1]][at[j][2]]

LEMMA JoinNext ==
  ASSUME NEW S, NEW lists \in Seq(Seq(S)), NEW n \in 1..Len(lists), NEW s, PlacedTo(lists, S, s, n - 1)
  PROVE  PlacedTo(lists, S, s \o lists[n], n)
<1> DEFINE t == lists[n]
           both == s \o t
<1>1. /\ s \in Seq(S) /\ t \in Seq(S) /\ both \in Seq(S)
      /\ Len(s) \in Nat /\ Len(t) \in Nat /\ Len(both) = Len(s) + Len(t)
      /\ \A j \in 1..Len(s) + Len(t) : both[j] = IF j <= Len(s) THEN s[j] ELSE t[j - Len(s)]
  BY DEF PlacedTo
<1>2. PICK at \in Bijection(1..Len(s), PlacesTo(lists, n - 1)) :
        \A j \in 1..Len(s) : s[j] = lists[at[j][1]][at[j][2]]
  BY DEF PlacedTo
<1>3. /\ at \in [1..Len(s) -> PlacesTo(lists, n - 1)]
      /\ \A j, k \in 1..Len(s) : at[j] = at[k] => j = k
      /\ \A x \in PlacesTo(lists, n - 1) : \E j \in 1..Len(s) : at[j] = x
  BY DEF Bijection, Injection, Surjection, IsInjective
<1>4. /\ \A x \in PlacesTo(lists, n - 1) : x \in Places(lists) /\ x[1] <= n - 1
      /\ \A x \in PlacesTo(lists, n) : x \in Places(lists) /\ x[1] <= n
      /\ \A x \in Places(lists) : /\ x = <<x[1], x[2]>> /\ x[1] \in Nat
                                  /\ x[2] \in DOMAIN lists[x[1]]
                                  /\ x[1] <= n - 1 => x \in PlacesTo(lists, n - 1)
                                  /\ x[1] <= n => x \in PlacesTo(lists, n)
  BY PlacesAre DEF PlacesTo
<1>5. \A i \in 1..Len(t) : <<n, i>> \in Places(lists)
  BY <1>1, PlacesAre
<1> DEFINE b == [j \in 1..Len(s) + Len(t) |-> IF j <= Len(s) THEN at[j] ELSE <<n, j - Len(s)>>]
<1> HIDE DEF t, both
<1>6. ASSUME NEW j \in 1..Len(s) + Len(t)
      PROVE  /\ b[j] \in PlacesTo(lists, n) /\ both[j] = lists[b[j][1]][b[j][2]]
             /\ j <= Len(s) => j \in 1..Len(s) /\ b[j] = at[j] /\ b[j][1] <= n - 1 /\ b[j][1] \in Nat
             /\ ~(j <= Len(s)) => b[j] = <<n, j - Len(s)>> /\ j - Len(s) \in 1..Len(t)
  <2>1. CASE j <= Len(s)
    <3>1. j \in 1..Len(s) /\ b[j] = at[j]
      BY <1>1, <2>1
    <3>2. at[j] \in PlacesTo(lists, n - 1)
      BY <1>3, <3>1
    <3>3. at[j] \in Places(lists) /\ at[j][1] \in Nat /\ at[j][1] <= n - 1 /\ at[j][1] <= n
      BY <1>4, <3>2
    <3> QED
      BY <1>1, <1>2, <1>4, <2>1, <3>1, <3>3
  <2>2. CASE ~(j <= Len(s))
    <3>1. j - Len(s) \in 1..Len(t) /\ b[j] = <<n, j - Len(s)>>
      BY <1>1, <2>2
    <3>2. <<n, j - Len(s)>> \in Places(lists)
      BY <1>5, <3>1
    <3>3. b[j] \in PlacesTo(lists, n)
      BY <3>1, <3>2 DEF PlacesTo
    <3> QED
      BY <1>1, <2>2, <3>1, <3>3 DEF t
  <2> QED
    BY <2>1, <2>2
<1> HIDE DEF b
<1>7. \A j, k \in 1..Len(s) + Len(t) : b[j] = b[k] => j = k
  <2> SUFFICES ASSUME NEW j \in 1..Len(s) + Len(t), NEW k \in 1..Len(s) + Len(t), b[j] = b[k] PROVE j = k
    OBVIOUS
  <2>1. CASE j <= Len(s) /\ k <= Len(s)
    BY <1>3, <1>6, <2>1
  <2>2. CASE ~(j <= Len(s)) /\ ~(k <= Len(s))
    BY <1>1, <1>6, <2>2
  <2>3. ASSUME NEW l \in 1..Len(s) + Len(t), NEW m \in 1..Len(s) + Len(t), l <= Len(s), ~(m <= Len(s))
        PROVE  b[l] # b[m]
    <3>1. b[l][1] <= n - 1 /\ b[l][1] \in Nat /\ b[m][1] = n /\ n \in Nat
      BY <1>6, <2>3
    <3> QED
      BY <3>1
  <2> QED
    BY <2>1, <2>2, <2>3
<1>8. \A x \in PlacesTo(lists, n) : \E j \in 1..Len(s) + Len(t) : b[j] = x
  <2> SUFFICES ASSUME NEW x \in PlacesTo(lists, n) PROVE \E j \in 1..Len(s) + Len(t) : b[j] = x
    OBVIOUS
  <2>1. x \in Places(lists) /\ x = <<x[1], x[2]>> /\ x[1] \in Nat /\ x[1] <= n /\ x[2] \in DOMAIN lists[x[1]]
    BY <1>4
  <2>2. CASE x[1] <= n - 1
    <3>1. PICK j \in 1..Len(s) : at[j] = x
      BY <1>3, <1>4, <2>1, <2>2
    <3>2. j \in 1..Len(s) + Len(t) /\ j <= Len(s)
      BY <1>1, <3>1
    <3> QED
      BY <1>6, <3>1, <3>2
  <2>3. CASE ~(x[1] <= n - 1)
    <3>1. x[1] = n
      BY <2>1, <2>3
    <3>2. x[2] \in 1..Len(t)
      BY <1>1, <2>1, <3>1 DEF t
    <3>3. PICK j \in 1..Len(s) + Len(t) : ~(j <= Len(s)) /\ j - Len(s) = x[2]
      <4> DEFINE m == x[2] + Len(s)
      <4>1. m \in 1..Len(s) + Len(t) /\ ~(m <= Len(s)) /\ m - Len(s) = x[2]
        BY <1>1, <3>2
      <4> HIDE DEF m
      <4> QED
        BY <4>1
    <3>4. b[j] = <<n, x[2]>>
      BY <1>6, <3>3
    <3> QED
      BY <2>1, <3>1, <3>4
  <2> QED
    BY <2>2, <2>3
<1>9. b \in [1..Len(s) + Len(t) -> PlacesTo(lists, n)]
  <2>1. \A j \in 1..Len(s) + Len(t) : b[j] \in PlacesTo(lists, n)
    BY <1>6
  <2> QED
    BY <2>1 DEF b
<1>10. b \in Bijection(1..Len(both), PlacesTo(lists, n))
  BY <1>1, <1>7, <1>8, <1>9 DEF Bijection, Injection, Surjection, IsInjective
<1>11. \A j \in 1..Len(both) : both[j] = lists[b[j][1]][b[j][2]]
  BY <1>1, <1>6
<1>12. PlacedTo(lists, S, both, n)
  BY <1>1, <1>10, <1>11 DEF PlacedTo
<1> QED
  BY <1>12 DEF both, t

\* A list of lists, joined, corresponds one to one to the positions of the lists.
LEMMA JoinedPlaces ==
  ASSUME NEW S, NEW lists \in Seq(Seq(S))
  PROVE  /\ Joined(lists) \in Seq(S) /\ DOMAIN Joined(lists) = 1..Len(Joined(lists))
         /\ \E at \in Bijection(DOMAIN Joined(lists), Places(lists)) :
              \A j \in DOMAIN Joined(lists) : Joined(lists)[j] = lists[at[j][1]][at[j][2]]
<1>1. Len(lists) \in Nat /\ DOMAIN lists = 1..Len(lists)
  OBVIOUS
<1>2. PICK f : Joining(lists, f) /\ Joined(lists) = f[Len(lists)]
  BY <1>1, JoiningExists
<1>3. f[0] = <<>> /\ \A n \in 1..Len(lists) : n - 1 \in 0..Len(lists) /\ f[n] = f[n - 1] \o lists[n]
  <2> DEFINE F(n) == IF n = 0 THEN <<>> ELSE f[n - 1] \o lists[n]
  <2>1. f = [n \in 0..Len(lists) |-> F(n)]
    BY <1>2 DEF Joining
  <2>2. 0 \in 0..Len(lists) /\ \A n \in 1..Len(lists) : n \in 0..Len(lists) /\ n - 1 \in 0..Len(lists) /\ n # 0
    BY <1>1
  <2> HIDE DEF F
  <2>3. \A n \in 0..Len(lists) : f[n] = F(n)
    BY <2>1
  <2> QED
    BY <2>2, <2>3 DEF F
<1> DEFINE Bad == {n \in 0..Len(lists) : ~PlacedTo(lists, S, f[n], n)}
<1>4. Bad = {}
  <2> SUFFICES ASSUME Bad # {} PROVE FALSE
    OBVIOUS
  <2>1. PICK n \in Bad : \A k \in Bad : n <= k
    <3>1. Bad \subseteq Nat
      OBVIOUS
    <3> HIDE DEF Bad
    <3> QED
      BY <3>1, Smallest
  <2>2. n \in Nat /\ n \in 0..Len(lists) /\ ~PlacedTo(lists, S, f[n], n)
    OBVIOUS
  <2>3. CASE n = 0
    <3>1. f[n] = <<>>
      BY <1>3, <2>3
    <3>2. PlacesTo(lists, 0) = {}
      BY <1>1, PlacesAre DEF PlacesTo
    <3> DEFINE none == [j \in {} |-> j]
    <3>3. none \in Bijection({}, {})
      BY DEF Bijection, Injection, Surjection, IsInjective
    <3> HIDE DEF none
    <3>4. <<>> \in Seq(S) /\ Len(<<>>) = 0 /\ 1..Len(<<>>) = {}
      OBVIOUS
    <3>5. \A j \in {} : f[n][j] = lists[none[j][1]][none[j][2]]
      OBVIOUS
    <3> QED
      BY <2>2, <2>3, <3>1, <3>2, <3>3, <3>4, <3>5 DEF PlacedTo
  <2>4. CASE n # 0
    <3>1. n - 1 \in 0..Len(lists) /\ n - 1 \notin Bad /\ n \in 1..Len(lists)
      BY <1>1, <2>1, <2>2, <2>4
    <3>2. PlacedTo(lists, S, f[n - 1], n - 1)
      BY <3>1
    <3> QED
      BY <1>3, <2>2, <3>1, <3>2, JoinNext
  <2> QED
    BY <2>3, <2>4
<1>5. PlacedTo(lists, S, Joined(lists), Len(lists))
  BY <1>1, <1>2, <1>4
<1>6. PlacesTo(lists, Len(lists)) = Places(lists)
  BY <1>1, PlacesAre DEF PlacesTo
<1>7. Joined(lists) \in Seq(S) /\ DOMAIN Joined(lists) = 1..Len(Joined(lists))
  BY <1>5 DEF PlacedTo
<1> QED
  BY <1>5, <1>6, <1>7 DEF PlacedTo
\* The numbers of the parts of a finite set add up to the number of its members.
LEMMA PartsAddUp ==
  ASSUME NEW S, IsFiniteSet(S), NEW X, NEW of \in [S -> X],
         NEW f, DOMAIN f = X, \A x \in X : f[x] = Cardinality({s \in S : of[s] = x})
  PROVE  Total(f) = Cardinality(S)
<1> DEFINE Part(x) == {s \in S : of[s] = x}
           Units == UNION {{x} \X (1..f[x]) : x \in X}
           number(x) == CHOOSE g : g \in Bijection(Part(x), 1..f[x])
           at == [s \in S |-> <<of[s], number(of[s])[s]>>]
<1>1. \A x \in X : number(x) \in Bijection(Part(x), 1..f[x])
  <2> SUFFICES ASSUME NEW x \in X PROVE number(x) \in Bijection(Part(x), 1..f[x])
    OBVIOUS
  <2>1. IsFiniteSet(Part(x)) /\ Cardinality(Part(x)) \in Nat /\ f[x] = Cardinality(Part(x))
    BY FS_Subset, FS_CardinalityType
  <2>2. IsFiniteSet(1..f[x]) /\ Cardinality(1..f[x]) = f[x]
    BY <2>1, FS_Interval
  <2>3. ExistsBijection(Part(x), 1..f[x])
    BY <2>1, <2>2, FS_SameCardinalityBij
  <2>4. \E g : g \in Bijection(Part(x), 1..f[x])
    BY <2>3 DEF ExistsBijection
  <2> HIDE DEF Part
  <2> QED
    BY <2>4, Zenon
<1>2. ASSUME NEW x \in X
      PROVE  /\ \A s \in Part(x) : number(x)[s] \in 1..f[x]
             /\ \A s, t \in Part(x) : number(x)[s] = number(x)[t] => s = t
             /\ \A n \in 1..f[x] : \E s \in Part(x) : number(x)[s] = n
  <2> HIDE DEF Part, number
  <2> QED
    BY <1>1, <1>2 DEF Bijection, Injection, Surjection, IsInjective
<1>3. \A s \in S : of[s] \in X /\ s \in Part(of[s])
  OBVIOUS
<1>4. \A x \in X : \A s \in Part(x) : s \in S /\ of[s] = x
  OBVIOUS
<1> HIDE DEF Part, number
<1>5. \A p \in Units : p = <<p[1], p[2]>> /\ p[1] \in X /\ p[2] \in 1..f[p[1]]
  OBVIOUS
<1>6. \A x \in X : \A n \in 1..f[x] : <<x, n>> \in Units
  OBVIOUS
<1>7. Units = UNION {{x} \X (1..f[x]) : x \in DOMAIN f}
  OBVIOUS
<1> HIDE DEF Units
<1>8. \A s \in S : at[s] = <<of[s], number(of[s])[s]>> /\ at[s] \in Units
  BY <1>2, <1>3, <1>6
<1>9. \A s, t \in S : at[s] = at[t] => s = t
  <2> SUFFICES ASSUME NEW s \in S, NEW t \in S, at[s] = at[t] PROVE s = t
    OBVIOUS
  <2>1. of[s] = of[t] /\ number(of[s])[s] = number(of[t])[t]
    BY <1>8
  <2> QED
    BY <1>2, <1>3, <2>1
<1>10. \A p \in Units : \E s \in S : at[s] = p
  <2> SUFFICES ASSUME NEW p \in Units PROVE \E s \in S : at[s] = p
    OBVIOUS
  <2>1. PICK s \in Part(p[1]) : number(p[1])[s] = p[2]
    BY <1>2, <1>5
  <2> QED
    BY <1>4, <1>5, <1>8, <2>1
<1>11. at \in [S -> Units]
  BY <1>8
<1>12. at \in Bijection(S, Units)
  BY <1>9, <1>10, <1>11 DEF Bijection, Injection, Surjection, IsInjective
<1>13. ExistsBijection(S, Units)
  BY <1>12 DEF ExistsBijection
<1> QED
  BY <1>7, <1>13, FS_Bijection DEF Total

\* How often x stands in a list.
Times(s, x) == Cardinality({i \in DOMAIN s : s[i] = x})

LEMMA TimesIsNat ==
  ASSUME NEW S, NEW s \in Seq(S)
  PROVE  \A x : /\ Times(s, x) \in Nat
                /\ IsFiniteSet({i \in DOMAIN s : s[i] = x})
                /\ Times(s, x) > 0 <=> \E i \in DOMAIN s : s[i] = x
<1> SUFFICES ASSUME NEW x
             PROVE  /\ Times(s, x) \in Nat
                    /\ IsFiniteSet({i \in DOMAIN s : s[i] = x})
                    /\ Times(s, x) > 0 <=> \E i \in DOMAIN s : s[i] = x
  OBVIOUS
<1> DEFINE P == {i \in DOMAIN s : s[i] = x}
<1>1. IsFiniteSet(DOMAIN s)
  BY FS_Interval
<1>2. IsFiniteSet(P) /\ Cardinality(P) \in Nat
  BY <1>1, FS_Subset, FS_CardinalityType
<1>3. Cardinality(P) = 0 <=> P = {}
  BY <1>2, FS_EmptySet
<1>4. Times(s, x) = Cardinality(P)
  BY DEF Times
<1>5. P # {} <=> \E i \in DOMAIN s : s[i] = x
  OBVIOUS
<1> HIDE DEF P
<1>6. Times(s, x) > 0 <=> P # {}
  BY <1>2, <1>3, <1>4
<1> QED
  BY <1>2, <1>4, <1>5, <1>6 DEF P

LEMMA TimesKept ==
  ASSUME NEW S, NEW s \in Seq(S), NEW P, P \subseteq DOMAIN s, NEW x
  PROVE  /\ Times(Kept(s, P), x) = Cardinality({i \in P : s[i] = x})
         /\ IsFiniteSet({i \in P : s[i] = x})
<1> DEFINE kept == Kept(s, P)
<1>1. kept \in Seq(S)
  BY KeptPlaces
<1>2. PICK at \in Bijection(DOMAIN kept, P) : \A k \in DOMAIN kept : kept[k] = s[at[k]]
  BY KeptPlaces
<1> HIDE DEF kept
<1>3. IsFiniteSet(DOMAIN kept)
  BY <1>1, FS_Interval
<1> DEFINE A == {k \in DOMAIN kept : kept[k] = x}
           B == {i \in P : s[i] = x}
<1>4. at \in [DOMAIN kept -> P]
  BY DEF Bijection, Injection
<1>5. A \subseteq DOMAIN kept /\ B \subseteq P /\ \A k \in DOMAIN kept : k \in A <=> at[k] \in B
  BY <1>2, <1>4
<1> HIDE DEF A, B
<1>6. IsFiniteSet(B) /\ Cardinality(A) = Cardinality(B)
  BY <1>3, <1>5, SameCount
<1> QED
  BY <1>6 DEF Times, A, B, kept

LEMMA TimesJoined ==
  ASSUME NEW S, NEW lists \in Seq(Seq(S)), NEW x
  PROVE  /\ Times(Joined(lists), x) = Cardinality({p \in Places(lists) : lists[p[1]][p[2]] = x})
         /\ IsFiniteSet(Places(lists)) /\ Len(Joined(lists)) = Cardinality(Places(lists))
<1> DEFINE all == Joined(lists)
<1>1. all \in Seq(S)
  BY JoinedPlaces
<1>2. PICK at \in Bijection(DOMAIN all, Places(lists)) :
        \A j \in DOMAIN all : all[j] = lists[at[j][1]][at[j][2]]
  BY JoinedPlaces
<1> HIDE DEF all
<1>3. IsFiniteSet(DOMAIN all)
  BY <1>1, FS_Interval
<1> DEFINE A == {k \in DOMAIN all : all[k] = x}
           B == {p \in Places(lists) : lists[p[1]][p[2]] = x}
<1>4. at \in [DOMAIN all -> Places(lists)]
  BY DEF Bijection, Injection
<1>5. A \subseteq DOMAIN all /\ B \subseteq Places(lists) /\ \A k \in DOMAIN all : k \in A <=> at[k] \in B
  BY <1>2, <1>4
<1> HIDE DEF A, B
<1>6. Cardinality(A) = Cardinality(B)
  BY <1>3, <1>5, SameCount
<1>7. IsFiniteSet(Places(lists)) /\ Len(all) = Cardinality(Places(lists))
  <2>1. ExistsBijection(DOMAIN all, Places(lists))
    BY DEF ExistsBijection
  <2>2. Len(all) \in Nat /\ DOMAIN all = 1..Len(all)
    BY <1>1
  <2>3. \A n \in Nat : Cardinality(1..n) = n
    BY FS_Interval
  <2>4. Cardinality(DOMAIN all) = Len(all)
    <3>1. Cardinality(1..Len(all)) = Len(all)
      BY <2>2, <2>3, Zenon
    <3> QED
      BY <2>2, <3>1, Zenon
  <2> QED
    BY <1>3, <2>1, <2>4, FS_Bijection
<1> QED
  BY <1>6, <1>7 DEF Times, A, B, all

\* A list without one of its places.
LEMMA WithoutPlace ==
  ASSUME NEW S, NEW s \in Seq(S), NEW p \in 1..Len(s)
  PROVE  /\ RemoveAt(s, p) \in Seq(S)
         /\ \A x : Times(RemoveAt(s, p), x) = IF x = s[p] THEN Times(s, x) - 1 ELSE Times(s, x)
<1> DEFINE a == SubSeq(s, 1, p - 1)
           b == SubSeq(s, p + 1, Len(s))
           t == a \o b
<1>1. Len(s) \in Nat /\ p \in Nat /\ p >= 1 /\ p <= Len(s) /\ DOMAIN s = 1..Len(s)
  OBVIOUS
<1>2. a \in Seq(S) /\ Len(a) = p - 1 /\ \A i \in 1..p - 1 : a[i] = s[i]
  <2>1. \A i \in 1..p - 1 : s[i] \in S
    BY <1>1
  <2>2. /\ a \in Seq(S) /\ Len(a) = IF 1 <= p - 1 THEN p - 1 - 1 + 1 ELSE 0
        /\ \A i \in 1..p - 1 - 1 + 1 : a[i] = s[1 + i - 1]
    BY <1>1, <2>1, SubSeqProperties
  <2> HIDE DEF a
  <2> QED
    BY <1>1, <2>2
<1>3. b \in Seq(S) /\ Len(b) = Len(s) - p /\ \A i \in 1..Len(s) - p : b[i] = s[p + i]
  <2>1. \A i \in p + 1..Len(s) : s[i] \in S
    BY <1>1
  <2>2. /\ b \in Seq(S) /\ Len(b) = IF p + 1 <= Len(s) THEN Len(s) - (p + 1) + 1 ELSE 0
        /\ \A i \in 1..Len(s) - (p + 1) + 1 : b[i] = s[p + 1 + i - 1]
    BY <1>1, <2>1, SubSeqProperties
  <2> HIDE DEF b
  <2>3. Len(s) - (p + 1) + 1 = Len(s) - p /\ (~(p + 1 <= Len(s)) => Len(s) - p = 0)
    <3>1. Len(s) \in Nat /\ p \in Nat /\ p <= Len(s)
      BY <1>1
    <3>2. \A n, m \in Nat : m <= n => n - (m + 1) + 1 = n - m /\ (~(m + 1 <= n) => n - m = 0)
      OBVIOUS
    <3> QED
      BY <3>1, <3>2
  <2>4. \A i \in 1..Len(s) - p : p + 1 + i - 1 = p + i
    BY <1>1
  <2>5. \A i \in 1..Len(s) - p : b[i] = s[p + i]
    BY <2>2, <2>3, <2>4
  <2>6. Len(b) = Len(s) - p
    BY <2>2, <2>3
  <2> QED
    BY <2>2, <2>5, <2>6
<1> HIDE DEF a, b
<1>4. /\ t \in Seq(S) /\ Len(t) = Len(s) - 1
      /\ \A j \in 1..Len(s) - 1 : t[j] = IF j <= p - 1 THEN s[j] ELSE s[j + 1]
  <2>1. /\ t \in Seq(S) /\ Len(t) = Len(a) + Len(b)
        /\ \A j \in 1..Len(a) + Len(b) : t[j] = IF j <= Len(a) THEN a[j] ELSE b[j - Len(a)]
    BY <1>2, <1>3, ConcatProperties
  <2>2. Len(t) = Len(s) - 1
    BY <1>1, <1>2, <1>3, <2>1
  <2>3. ASSUME NEW j \in 1..Len(s) - 1 PROVE t[j] = IF j <= p - 1 THEN s[j] ELSE s[j + 1]
    <3>1. t[j] = IF j <= p - 1 THEN a[j] ELSE b[j - (p - 1)]
      BY <1>1, <1>2, <1>3, <2>1
    <3>2. CASE j <= p - 1
      BY <1>1, <1>2, <3>1, <3>2
    <3>3. CASE ~(j <= p - 1)
      <4>1. j - (p - 1) \in 1..Len(s) - p /\ p + (j - (p - 1)) = j + 1
        BY <1>1, <3>3
      <4> QED
        BY <1>3, <3>1, <3>3, <4>1
    <3> QED
      BY <3>2, <3>3
  <2> QED
    BY <2>1, <2>2, <2>3
<1>5. RemoveAt(s, p) = t
  BY DEF RemoveAt, a, b
<1> HIDE DEF t
<1> DEFINE D == 1..Len(s) - 1
           E == (1..Len(s)) \ {p}
           at == [j \in D |-> IF j <= p - 1 THEN j ELSE j + 1]
<1>6. DOMAIN t = D /\ IsFiniteSet(D)
  <2>1. DOMAIN t = 1..Len(t)
    BY <1>4
  <2>2. DOMAIN t = D
    BY <1>4, <2>1
  <2>3. 1 \in Int /\ Len(s) - 1 \in Int
    BY <1>1
  <2> QED
    BY <2>2, <2>3, FS_Interval
<1>7. at \in Bijection(D, E)
  <2>1. at \in [D -> E]
    BY <1>1
  <2>2. \A j, k \in D : at[j] = at[k] => j = k
    BY <1>1
  <2>3. ASSUME NEW i \in E PROVE \E j \in D : at[j] = i
    <3>1. CASE i <= p - 1
      <4>1. i \in D /\ at[i] = i
        BY <1>1, <3>1
      <4> QED
        BY <4>1
    <3>2. CASE ~(i <= p - 1)
      <4>1. i - 1 \in D /\ at[i - 1] = i
        BY <1>1, <3>2
      <4> QED
        BY <4>1
    <3> QED
      BY <3>1, <3>2
  <2> HIDE DEF at, D, E
  <2> QED
    BY <2>1, <2>2, <2>3 DEF Bijection, Injection, Surjection, IsInjective
<1>8. \A j \in D : t[j] = s[at[j]] /\ at[j] \in E
  BY <1>1, <1>4
<1> HIDE DEF D, at
<1>9. ASSUME NEW x
      PROVE  Times(t, x) = IF x = s[p] THEN Times(s, x) - 1 ELSE Times(s, x)
  <2> DEFINE A == {j \in D : t[j] = x}
             B == {i \in E : s[i] = x}
             C == {i \in DOMAIN s : s[i] = x}
  <2>1. A \subseteq D /\ B \subseteq E /\ \A j \in D : j \in A <=> at[j] \in B
    BY <1>8
  <2>2. Times(t, x) = Cardinality(A) /\ Times(s, x) = Cardinality(C)
    BY <1>6 DEF Times
  <2>3. IsFiniteSet(C)
    BY TimesIsNat
  <2>4. B = C \ {p} /\ (p \in C <=> x = s[p])
    BY <1>1
  <2> HIDE DEF A, B, C, E
  <2>5. Cardinality(A) = Cardinality(B)
    BY <1>6, <1>7, <2>1, SameCount
  <2>6. Cardinality(C \ {p}) = IF p \in C THEN Cardinality(C) - 1 ELSE Cardinality(C)
    BY <2>3, FS_RemoveElement
  <2> QED
    BY <2>2, <2>4, <2>5, <2>6
<1> QED
  BY <1>4, <1>5, <1>9

\* A list without the first x, if there is one.
LEMMA WithoutFirst ==
  ASSUME NEW S, NEW s \in Seq(S), NEW e
  PROVE  /\ RemoveFirst(s, e) \in Seq(S)
         /\ \A x : Times(RemoveFirst(s, e), x) =
                     IF x = e /\ Times(s, e) > 0 THEN Times(s, x) - 1 ELSE Times(s, x)
<1>1. Times(s, e) > 0 <=> \E i \in 1..Len(s) : s[i] = e
  <2>1. Times(s, e) > 0 <=> \E i \in DOMAIN s : s[i] = e
    BY TimesIsNat
  <2>2. DOMAIN s = 1..Len(s)
    OBVIOUS
  <2> QED
    BY <2>1, <2>2
<1>2. CASE \E i \in 1..Len(s) : s[i] = e
  <2> DEFINE I == {i \in 1..Len(s) : s[i] = e}
             p == CHOOSE i \in I : \A j \in I : i <= j
  <2>1. \E i \in I : \A j \in I : i <= j
    <3>1. I \subseteq Nat /\ I # {}
      BY <1>2
    <3> HIDE DEF I
    <3> QED
      BY <3>1, Smallest
  <2>2. p \in I
    <3> HIDE DEF I
    <3> QED
      BY <2>1
  <2>3. RemoveFirst(s, e) = RemoveAt(s, p)
    BY <1>2 DEF RemoveFirst, SelectInSeq, Min
  <2>4. p \in 1..Len(s) /\ s[p] = e
    BY <2>2
  <2> HIDE DEF p, I
  <2> QED
    BY <1>1, <1>2, <2>3, <2>4, WithoutPlace
<1>3. CASE ~\E i \in 1..Len(s) : s[i] = e
  BY <1>1, <1>3 DEF RemoveFirst
<1> QED
  BY <1>2, <1>3

\* The list that is left when the first n of the tokens to go were removed.
Removing(content, gone, f) ==
  f = [n \in 0..Len(gone) |-> IF n = 0 THEN content ELSE RemoveFirst(f[n - 1], gone[n])]

RemovedUpTo(content, gone, m, f) ==
  /\ DOMAIN f = 0..m
  /\ \A n \in 0..m : f[n] = IF n = 0 THEN content ELSE RemoveFirst(f[n - 1], gone[n])

LEMMA RemovalExists ==
  ASSUME NEW content, NEW gone, Len(gone) \in Nat
  PROVE  \E f : Removing(content, gone, f)
<1> DEFINE Bad == {m \in 0..Len(gone) : ~\E f : RemovedUpTo(content, gone, m, f)}
<1>1. Bad = {}
  <2> SUFFICES ASSUME Bad # {} PROVE FALSE
    OBVIOUS
  <2>1. PICK m \in Bad : \A k \in Bad : m <= k
    <3>1. Bad \subseteq Nat
      OBVIOUS
    <3> HIDE DEF Bad
    <3> QED
      BY <3>1, Smallest
  <2>2. m \in Nat /\ m \in 0..Len(gone) /\ ~\E f : RemovedUpTo(content, gone, m, f)
    OBVIOUS
  <2>3. CASE m = 0
    <3> DEFINE g == [n \in 0..0 |-> content]
    <3>1. RemovedUpTo(content, gone, 0, g)
      BY DEF RemovedUpTo
    <3> QED
      BY <2>2, <2>3, <3>1
  <2>4. CASE m # 0
    <3>1. m - 1 \in 0..Len(gone) /\ m - 1 \notin Bad
      BY <2>1, <2>2, <2>4
    <3>2. PICK f : RemovedUpTo(content, gone, m - 1, f)
      BY <3>1
    <3> DEFINE g == [n \in 0..m |-> IF n = m THEN RemoveFirst(f[m - 1], gone[m]) ELSE f[n]]
    <3>3. RemovedUpTo(content, gone, m, g)
      BY <2>2, <2>4, <3>2 DEF RemovedUpTo
    <3> QED
      BY <2>2, <3>3
  <2> QED
    BY <2>3, <2>4
<1>2. PICK f : RemovedUpTo(content, gone, Len(gone), f)
  BY <1>1
<1> DEFINE g == [n \in 0..Len(gone) |-> f[n]]
<1>3. Removing(content, gone, g)
  BY <1>2 DEF RemovedUpTo, Removing
<1> QED
  BY <1>3

\* Where x stands in a list.
Where(s, x) == {j \in DOMAIN s : s[j] = x}

LEMMA WhereIs ==
  ASSUME NEW S, NEW s \in Seq(S)
  PROVE  \A x : /\ Where(s, x) \subseteq 1..Len(s) /\ Times(s, x) = Cardinality(Where(s, x))
                /\ IsFiniteSet(Where(s, x))
                /\ \A n \in 1..Len(s) : n \in Where(s, x) <=> s[n] = x
<1>1. \A x : IsFiniteSet({j \in DOMAIN s : s[j] = x})
  BY TimesIsNat
<1>2. DOMAIN s = 1..Len(s)
  OBVIOUS
<1> QED
  BY <1>1, <1>2 DEF Where, Times

\* Removing what a list has often enough, one by one, takes each as often from it.
LEMMA RemovedTimes ==
  ASSUME NEW S, NEW content \in Seq(S), NEW T, NEW gone \in Seq(T),
         \A x : Times(gone, x) <= Times(content, x), NEW f, Removing(content, gone, f)
  PROVE  /\ f[Len(gone)] \in Seq(S)
         /\ \A x : Times(f[Len(gone)], x) = Times(content, x) - Times(gone, x)
<1> DEFINE After(n) == /\ f[n] \in Seq(S)
                       /\ \A x : Times(f[n], x) = Times(content, x) - Cardinality(UpTo(Where(gone, x), n))
           Bad == {n \in 0..Len(gone) : ~After(n)}
<1>1. Len(gone) \in Nat
  OBVIOUS
<1>2. f[0] = content /\ \A n \in 1..Len(gone) : n - 1 \in 0..Len(gone) /\ f[n] = RemoveFirst(f[n - 1], gone[n])
  <2> DEFINE F(n) == IF n = 0 THEN content ELSE RemoveFirst(f[n - 1], gone[n])
  <2>1. f = [n \in 0..Len(gone) |-> F(n)]
    BY DEF Removing
  <2>2. 0 \in 0..Len(gone) /\ \A n \in 1..Len(gone) : n \in 0..Len(gone) /\ n - 1 \in 0..Len(gone) /\ n # 0
    BY <1>1
  <2> HIDE DEF F
  <2>3. \A n \in 0..Len(gone) : f[n] = F(n)
    BY <2>1
  <2> QED
    BY <2>2, <2>3 DEF F
<1>3. \A x : Times(content, x) \in Nat
  BY TimesIsNat
<1>4. \A x : /\ \A n : Cardinality(UpTo(Where(gone, x), n)) \in Nat
             /\ \A n : Cardinality(UpTo(Where(gone, x), n)) <= Times(gone, x)
             /\ Times(gone, x) \in Nat
  <2> SUFFICES ASSUME NEW x, NEW n
               PROVE  /\ Cardinality(UpTo(Where(gone, x), n)) \in Nat
                      /\ Cardinality(UpTo(Where(gone, x), n)) <= Times(gone, x)
                      /\ Times(gone, x) \in Nat
    OBVIOUS
  <2>1. IsFiniteSet(Where(gone, x)) /\ Times(gone, x) = Cardinality(Where(gone, x))
    BY WhereIs
  <2>2. UpTo(Where(gone, x), n) \subseteq Where(gone, x)
    BY DEF UpTo
  <2> QED
    BY <2>1, <2>2, FS_Subset, FS_CardinalityType
<1>5. After(0)
  <2>1. \A x : UpTo(Where(gone, x), 0) = {}
    <3>1. \A x : \A j \in Where(gone, x) : j \in 1..Len(gone)
      BY WhereIs
    <3>2. \A j \in 1..Len(gone) : ~(j <= 0)
      OBVIOUS
    <3> QED
      BY <3>1, <3>2 DEF UpTo
  <2>2. \A x : Cardinality(UpTo(Where(gone, x), 0)) = 0
    BY <2>1, FS_EmptySet
  <2> QED
    BY <1>2, <1>3, <2>2
<1>6. ASSUME NEW n \in 1..Len(gone), After(n - 1) PROVE After(n)
  <2> DEFINE e == gone[n]
  <2>1. n \in Nat /\ n - 1 \in Nat /\ n - 1 + 1 = n
    BY <1>1
  <2>2. ASSUME NEW x
        PROVE  Cardinality(UpTo(Where(gone, x), n)) =
                 IF x = e THEN Cardinality(UpTo(Where(gone, x), n - 1)) + 1
                 ELSE Cardinality(UpTo(Where(gone, x), n - 1))
    <3>1. Where(gone, x) \subseteq 1..Len(gone) /\ (n \in Where(gone, x) <=> e = x)
      BY WhereIs
    <3>2. Cardinality(UpTo(Where(gone, x), n - 1 + 1)) =
            IF n - 1 + 1 \in Where(gone, x) THEN Cardinality(UpTo(Where(gone, x), n - 1)) + 1
            ELSE Cardinality(UpTo(Where(gone, x), n - 1))
      BY <1>1, <2>1, <3>1, CountNext
    <3> QED
      BY <2>1, <3>1, <3>2
  <2>3. f[n - 1] \in Seq(S)
    BY <1>6
  <2>4. f[n] = RemoveFirst(f[n - 1], e)
    BY <1>2
  <2> HIDE DEF e
  <2>5. Times(f[n - 1], e) > 0
    <3>1. Times(f[n - 1], e) = Times(content, e) - Cardinality(UpTo(Where(gone, e), n - 1))
      BY <1>6
    <3>2. Cardinality(UpTo(Where(gone, e), n - 1)) + 1 <= Times(gone, e)
      BY <1>4, <2>2
    <3>3. Times(gone, e) <= Times(content, e)
      OBVIOUS
    <3> QED
      BY <1>3, <1>4, <3>1, <3>2, <3>3
  <2>6. /\ f[n] \in Seq(S)
        /\ \A x : Times(f[n], x) = IF x = e THEN Times(f[n - 1], x) - 1 ELSE Times(f[n - 1], x)
    BY <2>3, <2>4, <2>5, WithoutFirst
  <2>7. ASSUME NEW x PROVE Times(f[n], x) = Times(content, x) - Cardinality(UpTo(Where(gone, x), n))
    <3>1. Times(f[n - 1], x) = Times(content, x) - Cardinality(UpTo(Where(gone, x), n - 1))
      BY <1>6
    <3>2. Times(f[n], x) = IF x = e THEN Times(f[n - 1], x) - 1 ELSE Times(f[n - 1], x)
      BY <2>6
    <3> QED
      BY <1>3, <1>4, <2>2, <3>1, <3>2
  <2> QED
    BY <2>6, <2>7
<1>7. Bad = {}
  <2> SUFFICES ASSUME Bad # {} PROVE FALSE
    OBVIOUS
  <2> HIDE DEF After
  <2>1. Bad \subseteq Nat
    OBVIOUS
  <2>2. PICK n \in Bad : \A k \in Bad : n <= k
    <3> HIDE DEF Bad
    <3> QED
      BY <2>1, Smallest
  <2>3. n \in Nat /\ n <= Len(gone) /\ ~After(n)
    BY <1>1
  <2>4. n # 0
    BY <1>5, <2>3
  <2>5. n \in 1..Len(gone) /\ n - 1 \in 0..Len(gone) /\ ~(n <= n - 1)
    BY <1>1, <2>3, <2>4
  <2>6. n - 1 \notin Bad
    <3> HIDE DEF Bad
    <3> QED
      BY <2>2, <2>5
  <2> QED
    BY <1>6, <2>3, <2>5, <2>6
<1>8. After(Len(gone))
  BY <1>1, <1>7
<1>9. \A x : UpTo(Where(gone, x), Len(gone)) = Where(gone, x)
  <2>1. \A x : \A j \in Where(gone, x) : j \in 1..Len(gone)
    BY WhereIs
  <2>2. \A j \in 1..Len(gone) : j <= Len(gone)
    BY <1>1
  <2> QED
    BY <2>1, <2>2 DEF UpTo
<1>10. \A x : Cardinality(Where(gone, x)) = Times(gone, x)
  BY WhereIs
<1> QED
  BY <1>8, <1>9, <1>10
=============================================================================
