--------------------------- MODULE SequenceLemmas ---------------------------
(***************************************************************************)
(* Facts about lists that the proofs of several components rest on: the     *)
(* first place of an element, what erasing, inserting and cutting off do to *)
(* the elements of a list, how long a list may be, and that every list can  *)
(* be sorted.                                                               *)
(***************************************************************************)
EXTENDS Integers, Sequences, SequencesExt, FiniteSets, SequenceTheorems, FiniteSetTheorems,
        WellFoundedInduction, TLAPS

\* A set of naturals has a least element.
LEMMA LeastNatural ==
  ASSUME NEW T, T \subseteq Nat, T # {}
  PROVE  \E x \in T : \A y \in T : x <= y
<1> DEFINE R == OpToRel(<, Nat)
<1>1. PICK x \in T : \A y \in T : ~ (<<y, x>> \in R)
  <2>1. IsWellFoundedOn(R, Nat)
    BY NatLessThanWellFounded
  <2> HIDE DEF R
  <2>2. QED
    BY <2>1, WFMin
<1>2. ASSUME NEW y \in T
      PROVE  x <= y
  <2>1. x \in Nat /\ y \in Nat
    OBVIOUS
  <2>2. ~ (y < x)
    BY <1>1, <2>1 DEF OpToRel
  <2>3. QED
    BY <2>1, <2>2
<1>3. QED
  BY <1>2

\* An element of a list has a first place in it (std::find).
LEMMA FirstPlace ==
  ASSUME NEW S, NEW s \in Seq(S), NEW p, \E i \in DOMAIN s : s[i] = p
  PROVE  \E i \in DOMAIN s : s[i] = p /\ \A j \in DOMAIN s : s[j] = p => i <= j
<1> DEFINE T == {i \in DOMAIN s : s[i] = p}
<1>1. DOMAIN s = 1 .. Len(s) /\ Len(s) \in Nat
  BY LenProperties
<1>2. T \subseteq Nat /\ T # {}
  BY <1>1
<1>3. PICK x \in T : \A y \in T : x <= y
  <2> HIDE DEF T
  <2>1. QED
    BY <1>2, LeastNatural
<1>4. QED
  BY <1>3

\* The elements of a list are those at its places.
LEMMA PlacesOfSet ==
  ASSUME NEW S, NEW s \in Seq(S)
  PROVE  /\ DOMAIN s = 1 .. Len(s) /\ Len(s) \in Nat
         /\ ToSet(s) \subseteq S
         /\ \A e : e \in ToSet(s) <=> \E i \in 1 .. Len(s) : s[i] = e
         /\ ToSet(s) = {} <=> s = <<>>
<1>1. DOMAIN s = 1 .. Len(s) /\ Len(s) \in Nat
  BY LenProperties
<1>2. \A i \in 1 .. Len(s) : s[i] \in S
  BY ElementOfSeq
<1>3. s = <<>> <=> Len(s) = 0
  BY EmptySeq
<1>4. ToSet(s) \subseteq S
  BY <1>1, <1>2 DEF ToSet
<1>5. \A e : e \in ToSet(s) <=> \E i \in 1 .. Len(s) : s[i] = e
  BY <1>1 DEF ToSet
<1>6. ToSet(s) = {} <=> Len(s) = 0
  <2>1. ASSUME Len(s) # 0
        PROVE  ToSet(s) # {}
    <3>1. 1 \in 1 .. Len(s)
      BY <1>1, <2>1
    <3>2. s[1] \in ToSet(s)
      BY <1>5, <3>1
    <3>3. QED
      BY <3>2
  <2>2. ASSUME Len(s) = 0
        PROVE  ToSet(s) = {}
    BY <1>1, <1>5, <2>2
  <2>3. QED
    BY <2>1, <2>2
<1>7. QED
  BY <1>1, <1>3, <1>4, <1>5, <1>6

\* A function on the first n numbers is a list of n elements.
LEMMA FunctionIsList ==
  ASSUME NEW S, NEW n \in Nat, NEW r \in [1 .. n -> S]
  PROVE  r \in Seq(S) /\ Len(r) = n
<1>1. r \in Seq(S)
  BY SeqDef
<1>2. Len(r) \in Nat /\ DOMAIN r = 1 .. Len(r) /\ DOMAIN r = 1 .. n
  BY <1>1, LenProperties
<1>3. ~ (Len(r) > n)
  <2>1. Len(r) > n => Len(r) \in 1 .. Len(r) /\ Len(r) \notin 1 .. n
    BY <1>2
  <2>2. QED
    BY <1>2, <2>1
<1>4. ~ (n > Len(r))
  <2>1. n > Len(r) => n \in 1 .. n /\ n \notin 1 .. Len(r)
    BY <1>2
  <2>2. QED
    BY <1>2, <2>1
<1>5. Len(r) \in Nat
  BY <1>2
<1>6. Len(r) = n
  BY <1>3, <1>4, <1>5
<1>7. QED
  BY <1>1, <1>6

\* Erasing a place: the list is one shorter, what follows moves up.
LEMMA RemoveKeepsList ==
  ASSUME NEW S, NEW s \in Seq(S), NEW i \in 1 .. Len(s)
  PROVE  /\ RemoveAt(s, i) \in Seq(S)
         /\ Len(RemoveAt(s, i)) = Len(s) - 1
         /\ \A j \in 1 .. Len(s) - 1 :
               RemoveAt(s, i)[j] = IF j < i THEN s[j] ELSE s[j + 1]
<1>1. Len(s) \in Nat
  BY LenProperties
<1> DEFINE a == SubSeq(s, 1, i - 1)
           b == SubSeq(s, i + 1, Len(s))
<1>2. a \in Seq(S) /\ Len(a) = i - 1 /\ \A j \in 1 .. i - 1 : a[j] = s[j]
  BY <1>1, SubSeqProperties
<1>3. b \in Seq(S) /\ Len(b) = Len(s) - i /\ \A j \in 1 .. Len(s) - i : b[j] = s[i + j]
  <2>1. \A j \in i + 1 .. Len(s) : s[j] \in S
    BY <1>1, ElementOfSeq
  <2>2. b \in Seq(S) /\ Len(b) = IF i + 1 <= Len(s) THEN Len(s) - (i + 1) + 1 ELSE 0
    BY <1>1, SubSeqProperties
  <2>3. \A j \in 1 .. Len(s) - (i + 1) + 1 : b[j] = s[i + 1 + j - 1]
    BY <1>1, SubSeqProperties
  <2>4. \A j \in 1 .. Len(s) - i : i + 1 + j - 1 = i + j /\ j \in 1 .. Len(s) - (i + 1) + 1
    BY <1>1
  <2>5. QED
    BY <1>1, <2>2, <2>3, <2>4
<1> HIDE DEF a, b
<1>4. /\ a \o b \in Seq(S) /\ Len(a \o b) = Len(a) + Len(b)
      /\ \A j \in 1 .. Len(a) + Len(b) :
            (a \o b)[j] = IF j <= Len(a) THEN a[j] ELSE b[j - Len(a)]
  BY <1>2, <1>3, ConcatProperties
<1>5. Len(a) + Len(b) = Len(s) - 1
  BY <1>1, <1>2, <1>3
<1>6. ASSUME NEW j \in 1 .. Len(s) - 1
      PROVE  (a \o b)[j] = IF j < i THEN s[j] ELSE s[j + 1]
  <2>1. (a \o b)[j] = IF j <= i - 1 THEN a[j] ELSE b[j - (i - 1)]
    BY <1>2, <1>4, <1>5
  <2>2. CASE j < i
    BY <1>1, <1>2, <2>1, <2>2
  <2>3. CASE j >= i
    <3>1. j - (i - 1) \in 1 .. Len(s) - i /\ i + (j - (i - 1)) = j + 1
      BY <1>1, <2>3
    <3>2. b[j - (i - 1)] = s[j + 1]
      BY <1>3, <3>1
    <3>3. QED
      BY <1>1, <2>1, <2>3, <3>2
  <2>4. i \in Nat /\ j \in Nat
    BY <1>1
  <2>5. j < i \/ j >= i
    BY <2>4
  <2>6. QED
    BY <2>2, <2>3, <2>5
<1>7. QED
  BY <1>4, <1>5, <1>6 DEF RemoveAt, a, b

\* Inserting at a place: the list is one longer and so not empty.
LEMMA InsertKeepsList ==
  ASSUME NEW S, NEW s \in Seq(S), NEW e \in S, NEW i \in 1 .. Len(s) + 1
  PROVE  InsertAt(s, i, e) \in Seq(S) /\ Len(InsertAt(s, i, e)) = Len(s) + 1
<1>1. Len(s) \in Nat
  BY LenProperties
<1> DEFINE a == SubSeq(s, 1, i - 1)
           b == SubSeq(s, i, Len(s))
<1>2. a \in Seq(S) /\ Len(a) = i - 1
  BY <1>1, SubSeqProperties
<1>3. b \in Seq(S) /\ Len(b) = Len(s) - i + 1
  BY <1>1, SubSeqProperties
<1>4. <<e>> \in Seq(S) /\ Len(<<e>>) = 1
  OBVIOUS
<1> HIDE DEF a, b
<1>5. a \o <<e>> \in Seq(S) /\ Len(a \o <<e>>) = i
  BY <1>1, <1>2, <1>4, ConcatProperties
<1> DEFINE c == a \o <<e>>
<1> HIDE DEF c
<1>6. c \o b \in Seq(S) /\ Len(c \o b) = Len(c) + Len(b)
  BY <1>3, <1>5, ConcatProperties DEF c
<1>7. Len(c) + Len(b) = Len(s) + 1
  BY <1>1, <1>3, <1>5 DEF c
<1>8. QED
  BY <1>6, <1>7 DEF c, InsertAt, a, b

\* Cutting off what follows position i leaves i elements, and leaves the list
\* as it is when nothing follows.
LEMMA PrefixKeepsList ==
  ASSUME NEW S, NEW s \in Seq(S), NEW i \in 1 .. Len(s)
  PROVE  /\ SubSeq(s, 1, i) \in Seq(S)
         /\ Len(SubSeq(s, 1, i)) = i
         /\ SubSeq(s, i + 1, Len(s)) \in Seq(S)
         /\ SubSeq(s, i + 1, Len(s)) = <<>> => SubSeq(s, 1, i) = s
<1>1. Len(s) \in Nat
  BY LenProperties
<1>2. SubSeq(s, 1, i) \in Seq(S) /\ Len(SubSeq(s, 1, i)) = i
  BY <1>1, SubSeqProperties
<1>3. SubSeq(s, i + 1, Len(s)) \in Seq(S) /\ Len(SubSeq(s, i + 1, Len(s))) = Len(s) - i
  BY <1>1, SubSeqProperties
<1>4. ASSUME SubSeq(s, i + 1, Len(s)) = <<>>
      PROVE  SubSeq(s, 1, i) = s
  <2>1. Len(s) - i = 0
    BY <1>3, <1>4, EmptySeq
  <2>2. i = Len(s)
    BY <1>1, <2>1
  <2>3. QED
    BY <2>2, SubSeqFull
<1>5. QED
  BY <1>2, <1>3, <1>4

-----------------------------------------------------------------------------
(* Stable sorting.  A sorting of n keys puts them in order and leaves equals *)
(* as they were; adding a last key to sorted ones puts it behind all that    *)
(* are not greater.                                                          *)
Sorting(p, k, n) ==
    /\ p \in [1 .. n -> 1 .. n]
    /\ \A y \in 1 .. n : \E i \in 1 .. n : p[i] = y
    /\ \A i, j \in 1 .. n : i < j =>
          k[p[i]] < k[p[j]] \/ (k[p[i]] = k[p[j]] /\ p[i] < p[j])

LEMMA SortingGrows ==
  ASSUME NEW m \in Nat, NEW k \in [1 .. m + 1 -> Int], NEW q, Sorting(q, k, m)
  PROVE  \E p : Sorting(p, k, m + 1)
<1>1. \A i \in 1 .. m : q[i] \in 1 .. m
  BY DEF Sorting
<1>2. k[m + 1] \in Int /\ \A i \in 1 .. m : k[q[i]] \in Int /\ q[i] < m + 1
  <2>1. \A i \in 1 .. m : q[i] \in 1 .. m + 1 /\ q[i] < m + 1
    BY <1>1
  <2>2. m + 1 \in 1 .. m + 1
    OBVIOUS
  <2>3. QED
    BY <2>1, <2>2
<1>3. \A a, b \in 1 .. m : a < b =>
              k[q[a]] < k[q[b]] \/ (k[q[a]] = k[q[b]] /\ q[a] < q[b])
  BY DEF Sorting
<1> DEFINE T == {c \in 1 .. m + 1 : c = m + 1 \/ (c \in 1 .. m /\ k[q[c]] > k[m + 1])}
<1>4. PICK c \in T : \A d \in T : c <= d
  <2>1. T \subseteq Nat /\ m + 1 \in T
    OBVIOUS
  <2> HIDE DEF T
  <2>2. QED
    BY <2>1, LeastNatural
<1>5. c \in 1 .. m + 1 /\ (c = m + 1 \/ (c \in 1 .. m /\ k[q[c]] > k[m + 1]))
  BY <1>4
<1>6. ASSUME NEW i \in 1 .. m, i < c
      PROVE  k[q[i]] <= k[m + 1]
  <2>1. i \notin T
    <3> HIDE DEF T
    <3>1. QED
      BY <1>4, <1>5, <1>6
  <2>2. ~ (k[q[i]] > k[m + 1]) /\ i \in 1 .. m + 1
    BY <2>1
  <2>3. k[q[i]] \in Int /\ k[m + 1] \in Int
    BY <1>2
  <2>4. QED
    BY <2>2, <2>3
<1> HIDE DEF T
<1>7. ASSUME NEW i \in 1 .. m, c <= i
      PROVE  k[m + 1] < k[q[i]]
  <2>1. c \in 1 .. m /\ k[q[c]] > k[m + 1]
    BY <1>5, <1>7
  <2>2. k[q[i]] \in Int /\ k[q[c]] \in Int /\ k[m + 1] \in Int
    BY <1>2, <2>1
  <2>3. c = i \/ k[q[c]] <= k[q[i]]
    BY <1>7, <1>3, <2>1, <2>2
  <2>4. QED
    BY <2>1, <2>2, <2>3
<1> DEFINE p == [i \in 1 .. m + 1 |->
                   IF i < c THEN q[i] ELSE IF i = c THEN m + 1 ELSE q[i - 1]]
<1>8. /\ \A i \in 1 .. m + 1 : i < c => i \in 1 .. m /\ p[i] = q[i]
      /\ \A i \in 1 .. m + 1 : i > c => i - 1 \in 1 .. m /\ p[i] = q[i - 1]
      /\ p[c] = m + 1
  BY <1>5
<1>9. p \in [1 .. m + 1 -> 1 .. m + 1]
  BY <1>5, <1>1
<1> HIDE DEF p
<1>10. ASSUME NEW y \in 1 .. m + 1
      PROVE  \E i \in 1 .. m + 1 : p[i] = y
  <2>1. CASE y = m + 1
    BY <1>5, <1>8, <2>1
  <2>2. CASE y \in 1 .. m
    <3>1. PICK i \in 1 .. m : q[i] = y
      BY <2>2 DEF Sorting
    <3>2. CASE i < c
      BY <1>8, <3>1, <3>2
    <3>3. CASE i >= c
      <4>1. i + 1 \in 1 .. m + 1 /\ i + 1 > c /\ (i + 1) - 1 = i
        BY <1>5, <3>3
      <4>2. p[i + 1] = q[i]
        BY <1>8, <4>1
      <4>3. QED
        BY <3>1, <4>1, <4>2
    <3>4. QED
      BY <1>5, <3>2, <3>3
  <2>3. QED
    BY <2>1, <2>2
<1>11. ASSUME NEW i \in 1 .. m + 1, NEW j \in 1 .. m + 1, i < j
      PROVE  k[p[i]] < k[p[j]] \/ (k[p[i]] = k[p[j]] /\ p[i] < p[j])
  <2>1. /\ k[m + 1] \in Int /\ \A a \in 1 .. m : k[q[a]] \in Int /\ q[a] < m + 1
        /\ \A a, b \in 1 .. m : a < b =>
              k[q[a]] < k[q[b]] \/ (k[q[a]] = k[q[b]] /\ q[a] < q[b])
    BY <1>2, <1>3
  <2>2. CASE j < c
    BY <1>5, <1>8, <1>11, <2>1, <2>2
  <2>3. CASE j = c
    <3>1. i \in 1 .. m /\ p[i] = q[i] /\ p[j] = m + 1 /\ k[q[i]] <= k[m + 1]
      BY <1>6, <1>8, <1>11, <2>3
    <3>2. QED
      BY <2>1, <3>1
  <2>4. CASE j > c /\ i < c
    <3>1. i \in 1 .. m /\ j - 1 \in 1 .. m /\ i < j - 1 /\ p[i] = q[i] /\ p[j] = q[j - 1]
      BY <1>5, <1>8, <2>4
    <3>2. QED
      BY <2>1, <3>1
  <2>5. CASE j > c /\ i = c
    <3>1. j - 1 \in 1 .. m /\ c <= j - 1 /\ p[i] = m + 1 /\ p[j] = q[j - 1]
      BY <1>5, <1>8, <2>5
    <3>2. k[m + 1] < k[q[j - 1]]
      BY <1>7, <3>1
    <3>3. QED
      BY <3>1, <3>2
  <2>6. CASE i > c
    <3>1. /\ i - 1 \in 1 .. m /\ j - 1 \in 1 .. m /\ i - 1 < j - 1
          /\ p[i] = q[i - 1] /\ p[j] = q[j - 1]
      BY <1>5, <1>8, <1>11, <2>6
    <3>2. QED
      BY <2>1, <3>1
  <2>7. QED
    BY <1>5, <1>11, <2>2, <2>3, <2>4, <2>5, <2>6
<1>12. QED
  BY <1>9, <1>10, <1>11 DEF Sorting

\* Every list of keys has a stable sorting.
LEMMA SortingExists ==
  ASSUME NEW n \in Nat, NEW k \in [1 .. n -> Int]
  PROVE  \E p : Sorting(p, k, n)
<1> DEFINE Sortable(m) == \A l \in [1 .. m -> Int] : \E p : Sorting(p, l, m)
           T == {m \in Nat : ~ Sortable(m)}
<1>1. SUFFICES ASSUME T # {}
               PROVE  FALSE
  BY <1>1
<1>2. T \subseteq Nat
  OBVIOUS
<1>3. PICK x \in T : \A y \in T : x <= y
  <2> HIDE DEF T
  <2>1. QED
    BY <1>1, <1>2, LeastNatural
<1>4. Sortable(0)
  <2>1. ASSUME NEW l \in [1 .. 0 -> Int]
        PROVE  Sorting([i \in 1 .. 0 |-> i], l, 0)
    BY DEF Sorting
  <2>2. QED
    BY <2>1
<1>5. x \in Nat /\ x # 0
  BY <1>4
<1>6. Sortable(x - 1)
  <2>1. x - 1 \in Nat /\ ~ (x <= x - 1)
    BY <1>5
  <2>2. x - 1 \notin T
    <3> HIDE DEF T
    <3>1. QED
      BY <1>3, <2>1
  <2>3. QED
    BY <2>1, <2>2
<1>7. ASSUME NEW l \in [1 .. x -> Int]
      PROVE  \E p : Sorting(p, l, x)
  <2>1. PICK m \in Nat : m = x - 1 /\ m + 1 = x
    BY <1>5
  <2> DEFINE h == [i \in 1 .. m |-> l[i]]
  <2>2. h \in [1 .. m -> Int]
    BY <2>1
  <2>3. PICK q : Sorting(q, h, m)
    BY <1>6, <2>1, <2>2
  <2>4. Sorting(q, l, m)
    BY <2>3 DEF Sorting
  <2>5. l \in [1 .. m + 1 -> Int]
    BY <2>1
  <2>6. \E p : Sorting(p, l, m + 1)
    BY <2>4, <2>5, SortingGrows
  <2>7. QED
    BY <2>1, <2>6
<1>8. Sortable(x)
  BY <1>7
<1>9. QED
  BY <1>3, <1>8

\* Erasing the first e of a list.
LEMMA RemoveFirstPlace ==
  ASSUME NEW S, NEW s \in Seq(S), NEW e
  PROVE  /\ e \in Range(s) =>
              \E k \in 1 .. Len(s) : /\ s[k] = e /\ \A j \in 1 .. k - 1 : s[j] # e
                                     /\ RemoveFirst(s, e) = RemoveAt(s, k)
         /\ e \notin Range(s) => RemoveFirst(s, e) = s
<1> DEFINE T == {i \in 1 .. Len(s) : s[i] = e}
<1>1. Len(s) \in Nat /\ DOMAIN s = 1 .. Len(s)
  BY LenProperties
<1>2. e \in Range(s) <=> T # {}
  BY <1>1 DEF Range
<1>3. CASE T = {}
  BY <1>2, <1>3 DEF RemoveFirst
<1>4. CASE T # {}
  <2>1. RemoveFirst(s, e) = RemoveAt(s, Min(T))
    BY <1>4 DEF RemoveFirst, SelectInSeq
  <2>2. T \subseteq Nat
    BY <1>1
  <2>3. \E x \in T : \A y \in T : x <= y
    <3> HIDE DEF T
    <3>1. QED
      BY <1>4, <2>2, LeastNatural
  <2>4. Min(T) \in T /\ \A y \in T : Min(T) <= y
    <3> HIDE DEF T
    <3>1. QED
      BY <2>3 DEF Min
  <2> DEFINE k == Min(T)
  <2>5. k \in 1 .. Len(s) /\ s[k] = e
    BY <2>4
  <2>6. ASSUME NEW j \in 1 .. k - 1, s[j] = e
        PROVE  FALSE
    <3>1. j \in T
      BY <1>1, <2>5, <2>6
    <3>2. k <= j
      BY <2>4, <3>1
    <3>3. QED
      BY <1>1, <2>5, <3>2
  <2>7. QED
    BY <1>2, <1>4, <2>1, <2>5, <2>6
<1>5. QED
  BY <1>3, <1>4

\* Erasing an element of a list that has each element once: the others stay,
\* once, and that one is gone.
LEMMA RemoveKeepsOnce ==
  ASSUME NEW S, NEW s \in Seq(S), NEW k \in 1 .. Len(s), IsInjective(s)
  PROVE  /\ IsInjective(RemoveAt(s, k))
         /\ Range(RemoveAt(s, k)) = Range(s) \ {s[k]}
<1> DEFINE r == RemoveAt(s, k)
           n == Len(s)
           old(j) == IF j < k THEN j ELSE j + 1
<1>1. n \in Nat /\ DOMAIN s = 1 .. n
  BY LenProperties
<1>2. r \in Seq(S) /\ Len(r) = n - 1 /\ \A j \in 1 .. n - 1 : r[j] = IF j < k THEN s[j] ELSE s[j + 1]
  BY RemoveKeepsList
<1> HIDE DEF r
<1>3. DOMAIN r = 1 .. n - 1
  BY <1>2, LenProperties
<1>4. \A j \in 1 .. n - 1 : old(j) \in 1 .. n /\ r[j] = s[old(j)] /\ old(j) # k
  BY <1>1, <1>2
<1>5. \A i, j \in 1 .. n - 1 : old(i) = old(j) => i = j
  BY <1>1
<1>6. \A i \in 1 .. n : i # k => \E j \in 1 .. n - 1 : old(j) = i
  <2> SUFFICES ASSUME NEW i \in 1 .. n, i # k
               PROVE  \E j \in 1 .. n - 1 : old(j) = i
    OBVIOUS
  <2>1. CASE i < k
    <3>1. i \in 1 .. n - 1 /\ old(i) = i
      BY <1>1, <2>1
    <3>2. QED
      BY <3>1
  <2>2. CASE i > k
    <3>1. i - 1 \in 1 .. n - 1 /\ old(i - 1) = i
      BY <1>1, <2>2
    <3>2. QED
      BY <3>1
  <2>3. QED
    BY <1>1, <2>1, <2>2
<1> HIDE DEF old, n
<1>7. \A i, j \in 1 .. n : s[i] = s[j] => i = j
  BY <1>1 DEF IsInjective
<1>8. IsInjective(r)
  <2>1. \A i, j \in 1 .. n - 1 : r[i] = r[j] => i = j
    BY <1>4, <1>5, <1>7
  <2>2. QED
    BY <1>3, <2>1 DEF IsInjective
<1>9. ASSUME NEW e
      PROVE  e \in Range(r) <=> e \in Range(s) \ {s[k]}
  <2>1. e \in Range(r) <=> \E j \in 1 .. n - 1 : r[j] = e
    BY <1>3 DEF Range
  <2>2. e \in Range(s) <=> \E j \in 1 .. n : s[j] = e
    BY <1>1 DEF Range
  <2>3. k \in 1 .. n
    BY DEF n
  <2>4. QED
    BY <1>4, <1>6, <1>7, <2>1, <2>2, <2>3
<1>10. QED
  BY <1>8, <1>9 DEF r

\* Appending an element that is not there.
LEMMA AppendKeepsOnce ==
  ASSUME NEW S, NEW s \in Seq(S), NEW e \in S, IsInjective(s), e \notin Range(s)
  PROVE  IsInjective(Append(s, e))
<1> DEFINE r == Append(s, e)
           n == Len(s)
<1>1. n \in Nat /\ DOMAIN s = 1 .. n
  BY LenProperties
<1>2. r \in Seq(S) /\ Len(r) = n + 1 /\ r[n + 1] = e /\ \A i \in 1 .. n : r[i] = s[i]
  BY AppendProperties
<1> HIDE DEF r
<1>3. DOMAIN r = 1 .. n + 1
  BY <1>2, LenProperties
<1>4. \A i \in 1 .. n : s[i] # e
  BY <1>1 DEF Range
<1>5. \A i \in 1 .. n + 1 : i \in 1 .. n \/ i = n + 1
  BY <1>1
<1> HIDE DEF n
<1>6. \A i, j \in 1 .. n + 1 : r[i] = r[j] => i = j
  BY <1>1, <1>2, <1>4, <1>5 DEF IsInjective
<1>7. QED
  BY <1>3, <1>6 DEF IsInjective, r

\* A number appended to nothing and taken back.
LEMMA AnswerTakenBack ==
  ASSUME NEW n \in Nat
  PROVE  Append(<<>>, n) \in Seq(Nat) /\ Front(Append(<<>>, n)) = <<>>
<1> DEFINE q == Append(<<>>, n)
<1>1. q \in Seq(Nat) /\ Len(q) = 1
  OBVIOUS
<1> HIDE DEF q
<1>2. SubSeq(q, 1, 0) \in Seq(Nat) /\ Len(SubSeq(q, 1, 0)) = 0
  BY <1>1, SubSeqProperties
<1>3. SubSeq(q, 1, 0) = <<>>
  BY <1>2, EmptySeq
<1>4. QED
  BY <1>1, <1>3 DEF q, Front

\* What makes a list one of bounded length.
LEMMA BoundedList ==
  ASSUME NEW S, NEW n \in Nat, NEW s \in Seq(S), Len(s) <= n
  PROVE  s \in BoundedSeq(S, n)
<1>1. Len(s) \in Nat /\ s \in [1 .. Len(s) -> S]
  BY LenProperties
<1>2. Len(s) \in 0 .. n
  BY <1>1
<1>3. QED
  BY <1>1, <1>2 DEF BoundedSeq, SeqOf

\* A list that has each element once is no longer than there are elements.
LEMMA OnceIsBounded ==
  ASSUME NEW S, IsFiniteSet(S), NEW s \in Seq(S), IsInjective(s)
  PROVE  s \in BoundedSeq(S, Cardinality(S))
<1>1. Len(s) \in Nat /\ s \in [1 .. Len(s) -> S]
  BY LenProperties
<1>2. Cardinality(S) \in Nat
  BY FS_CardinalityType
<1>3. Len(s) <= Cardinality(S)
  <2>1. s \in Injection(1 .. Len(s), S)
    BY <1>1 DEF Injection
  <2>2. Cardinality(1 .. Len(s)) <= Cardinality(S)
    BY <2>1, FS_Injection
  <2>3. Cardinality(1 .. Len(s)) = IF 1 > Len(s) THEN 0 ELSE Len(s) - 1 + 1
    BY <1>1, FS_Interval
  <2>4. QED
    BY <1>1, <2>2, <2>3
<1>4. QED
  BY <1>2, <1>3, BoundedList

-----------------------------------------------------------------------------
\* Counting: how many places of a list hold a member of M.  The counts of two
\* parts add up.
CountIn(M, s) == Cardinality({i \in 1 .. Len(s) : s[i] \in M})

LEMMA CountsAreNumbers ==
  ASSUME NEW S, NEW s \in Seq(S), NEW M
  PROVE  /\ IsFiniteSet({i \in 1 .. Len(s) : s[i] \in M})
         /\ CountIn(M, s) = Cardinality({i \in 1 .. Len(s) : s[i] \in M})
         /\ CountIn(M, s) \in Nat
<1> DEFINE T == {i \in 1 .. Len(s) : s[i] \in M}
<1>1. DOMAIN s = 1 .. Len(s) /\ Len(s) \in Nat
  BY LenProperties
<1>2. IsFiniteSet(1 .. Len(s))
  BY <1>1, FS_Interval
<1>3. IsFiniteSet(T)
  BY <1>2, FS_Subset
<1>4. CountIn(M, s) = Cardinality(T)
  BY <1>1 DEF CountIn
<1>5. Cardinality(T) \in Nat
  BY <1>3, FS_CardinalityType
<1>6. QED
  BY <1>3, <1>4, <1>5

LEMMA CountsAddUp ==
  ASSUME NEW S, NEW s \in Seq(S), NEW t \in Seq(S), NEW M
  PROVE  CountIn(M, s \o t) = CountIn(M, s) + CountIn(M, t)
<1> DEFINE m == Len(s)
           n == Len(t)
           u == s \o t
           A == {i \in 1 .. m : s[i] \in M}
           B == {i \in 1 .. n : t[i] \in M}
           C == {i \in m + 1 .. m + n : u[i] \in M}
           D == {i \in 1 .. m + n : u[i] \in M}
<1>1. m \in Nat /\ n \in Nat
  BY LenProperties
<1>2. u \in Seq(S) /\ Len(u) = m + n
      /\ \A i \in 1 .. m + n : u[i] = IF i <= m THEN s[i] ELSE t[i - m]
  BY ConcatProperties
<1>3. IsFiniteSet(A) /\ CountIn(M, s) = Cardinality(A) /\ Cardinality(A) \in Nat
  BY CountsAreNumbers
<1>4. IsFiniteSet(B) /\ CountIn(M, t) = Cardinality(B) /\ Cardinality(B) \in Nat
  BY CountsAreNumbers
<1> HIDE DEF u
<1>5. CountIn(M, u) = Cardinality(D)
  BY <1>2, CountsAreNumbers
<1>6. D = A \cup C /\ A \cap C = {}
  <2>1. \A i \in 1 .. m : i \in 1 .. m + n /\ u[i] = s[i] /\ i \notin m + 1 .. m + n
    BY <1>1, <1>2
  <2>2. \A i \in 1 .. m + n : i \in 1 .. m \/ i \in m + 1 .. m + n
    BY <1>1
  <2>3. \A i \in m + 1 .. m + n : i \in 1 .. m + n
    BY <1>1
  <2> HIDE DEF m, n
  <2>4. QED
    BY <2>1, <2>2, <2>3
<1>7. IsFiniteSet(C) /\ Cardinality(C) = Cardinality(B)
  <2> DEFINE f == [i \in B |-> m + i]
  <2>1. \A i \in B : m + i \in C
    <3>1. \A i \in 1 .. n : m + i \in m + 1 .. m + n /\ m + i \in 1 .. m + n /\ ~(m + i <= m)
                           /\ (m + i) - m = i
      BY <1>1
    <3>2. \A i \in 1 .. n : u[m + i] = t[i]
      BY <1>2, <3>1
    <3>3. QED
      BY <3>1, <3>2
  <2>2. \A j \in C : j - m \in B /\ m + (j - m) = j
    <3>1. \A j \in m + 1 .. m + n : j - m \in 1 .. n /\ j \in 1 .. m + n /\ ~(j <= m)
                                   /\ m + (j - m) = j
      BY <1>1
    <3>2. \A j \in m + 1 .. m + n : u[j] = t[j - m]
      BY <1>2, <3>1
    <3>3. QED
      BY <3>1, <3>2
  <2>3. \A i, j \in B : m + i = m + j => i = j
    BY <1>1
  <2> HIDE DEF B, C
  <2>4. f \in [B -> C] /\ \A i, j \in B : f[i] = f[j] => i = j
    BY <2>1, <2>3
  <2>5. \A j \in C : \E i \in B : f[i] = j
    <3>1. \A i \in B : f[i] = m + i
      OBVIOUS
    <3> HIDE DEF f
    <3>2. QED
      BY <2>2, <3>1
  <2> HIDE DEF f
  <2>6. f \in Bijection(B, C)
    BY <2>4, <2>5 DEF Bijection, Injection, Surjection, IsInjective
  <2>7. QED
    BY <1>4, <2>6, FS_Bijection DEF ExistsBijection
<1> HIDE DEF A, B, C, D
<1>8. Cardinality(A \cup C) = Cardinality(A) + Cardinality(C) - Cardinality(A \cap C)
  BY <1>3, <1>7, FS_Union
<1>9. Cardinality(A \cap C) = 0
  BY <1>6, FS_EmptySet
<1>10. QED
  BY <1>3, <1>4, <1>5, <1>6, <1>7, <1>8, <1>9 DEF u

\* A list that is not empty is its head before its tail.
LEMMA HeadTailIsConcat ==
  ASSUME NEW S, NEW s \in Seq(S), s # <<>>
  PROVE  /\ <<Head(s)>> \in Seq(S) /\ Tail(s) \in Seq(S)
         /\ s = <<Head(s)>> \o Tail(s)
<1> DEFINE h == Head(s)
           t == Tail(s)
           n == Len(s)
<1>1. /\ h \in S /\ h = s[1] /\ t \in Seq(S) /\ Len(t) = n - 1
      /\ \A i \in 1 .. n - 1 : t[i] = s[i + 1]
  BY HeadTailProperties, EmptySeq
<1>2. n \in Nat /\ n # 0
  BY EmptySeq, LenProperties
<1> HIDE DEF h, t
<1>3. <<h>> \in Seq(S) /\ Len(<<h>>) = 1 /\ <<h>>[1] = h
  BY <1>1
<1> DEFINE one == <<h>>
<1> HIDE DEF one
<1>4. /\ one \o t \in Seq(S) /\ Len(one \o t) = Len(one) + Len(t)
      /\ \A i \in 1 .. Len(one) + Len(t) :
            (one \o t)[i] = IF i <= Len(one) THEN one[i] ELSE t[i - Len(one)]
  BY <1>1, <1>3, ConcatProperties DEF one
<1>5. Len(one) = 1 /\ one[1] = s[1] /\ Len(one) + Len(t) = n
  BY <1>1, <1>2, <1>3 DEF one
<1> HIDE DEF n
<1>6. ASSUME NEW i \in 1 .. n
      PROVE  (one \o t)[i] = s[i]
  <2>1. CASE i = 1
    BY <1>4, <1>5, <2>1
  <2>2. CASE i # 1
    <3>1. i - 1 \in 1 .. n - 1 /\ (i - 1) + 1 = i /\ ~(i <= 1)
      BY <1>2, <2>2
    <3>2. QED
      BY <1>1, <1>4, <1>5, <3>1
  <2>3. QED
    BY <2>1, <2>2
<1>7. s = one \o t
  BY <1>4, <1>5, <1>6, SeqEqual DEF n
<1>8. QED
  BY <1>1, <1>3, <1>7 DEF h, t, one

=============================================================================
