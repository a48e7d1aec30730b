------------------------- MODULE GeneralTimerProofs -------------------------
(***************************************************************************)
(* What holds of the timer list for every number of connections and every   *)
(* set of periods: it stays in order and whole while slots connect and      *)
(* disconnect timers under the iteration, and no entry begins early.        *)
(***************************************************************************)
EXTENDS GeneralTimer, SequenceLemmas

Distinct(s) == \A i, j \in 1 .. Len(s) : s[i] = s[j] => i = j

\* An entry is listed once, from the call that made it until it is empty.
EntriesInv ==
    /\ Distinct(gTimers)
    /\ \A e \in Conns : state[e] = "new" => e \notin Listed
    /\ \A e \in Conns : e \notin Listed => connections[e] = <<>>
    /\ \A e \in Listed : milliseconds[e] \in Periods

\* A connection stands at no more than one place of all entries, and at one
\* while it is connected.
PlacesInv ==
    /\ \A e, f \in Conns : \A i \in 1 .. Len(connections[e]), j \in 1 .. Len(connections[f]) :
           connections[e][i] = connections[f][j] => e = f /\ i = j
    /\ \A e \in Conns : \A i \in 1 .. Len(connections[e]) : state[connections[e][i]] # "new"
    /\ \A c \in Conns : state[c] = "connected" =>
           \E e \in Listed : \E i \in 1 .. Len(connections[e]) : connections[e][i] = c

\* The iterators of operator() stand in the lists.
PassInv ==
    /\ pc = "idle" => iter = NoEntry
    /\ pc = "entry" => iter = NoEntry \/ iter \in Listed
    /\ pc \in {"connection", "slot"} => iter \in Listed
    /\ pc = "slot" => at <= Len(connections[iter])

\* What an entry has waited and what it still waits make up its period; the
\* entry that operator() is in has waited at least since curTime was read.
Waited(e) ==
    IF pc \in {"connection", "slot"} /\ e = iter
    THEN since[e] >= elapsed
    ELSE since[e] + due[e] >= milliseconds[e]

SinceInv == \A e \in Listed : since[e] = MaxPeriod \/ Waited(e)

OneOfAPeriod ==
    \A e, f \in Listed :
        combine[e] /\ combine[f] /\ milliseconds[e] = milliseconds[f] => e = f

IInv == /\ TypeOK /\ EntriesInv /\ PlacesInv /\ PassInv /\ SinceInv
        /\ AlarmIsFront /\ OneOfAPeriod

-----------------------------------------------------------------------------
(* The operators of the model.                                              *)

LEMMA LongestPeriod ==
  /\ MaxPeriod \in Periods /\ MaxPeriod \in Nat
  /\ \A p \in Periods : p \in Nat /\ p <= MaxPeriod /\ p > Grace
  /\ Grace \in Nat /\ MaxLate \in Nat
BY PeriodAssumption, GraceAssumption DEF MaxPeriod

\* The entries that are listed are those at the places of the list.
LEMMA ListedPlaces ==
  ASSUME gTimers \in Seq(Conns)
  PROVE  /\ Len(gTimers) \in Nat /\ DOMAIN gTimers = 1 .. Len(gTimers)
         /\ Listed \subseteq Conns
         /\ \A e : e \in Listed <=> \E i \in 1 .. Len(gTimers) : gTimers[i] = e
         /\ Listed = {} <=> gTimers = <<>>
         /\ gTimers # <<>> => Head(gTimers) = gTimers[1] /\ 1 \in 1 .. Len(gTimers)
<1>1. gTimers # <<>> => Head(gTimers) = gTimers[1] /\ Len(gTimers) # 0
  BY EmptySeq, HeadTailProperties
<1>2. QED
  BY <1>1, PlacesOfSet DEF Listed

\* The same list, in the order of d.
LEMMA SortKeepsEntries ==
  ASSUME NEW S, NEW q \in Seq(S), NEW d \in [S -> Int]
  PROVE  /\ SortedByDue(q, d) \in Seq(S)
         /\ Len(SortedByDue(q, d)) = Len(q)
         /\ ToSet(SortedByDue(q, d)) = ToSet(q)
         /\ Distinct(q) => Distinct(SortedByDue(q, d))
         /\ \A i, j \in 1 .. Len(q) : i < j =>
               d[SortedByDue(q, d)[i]] <= d[SortedByDue(q, d)[j]]
<1> DEFINE n == Len(q)
           k == [i \in 1 .. n |-> d[q[i]]]
<1>1. DOMAIN q = 1 .. n /\ n \in Nat /\ \A i \in 1 .. n : q[i] \in S
  BY LenProperties, ElementOfSeq
<1>2. k \in [1 .. n -> Int]
  BY <1>1
<1>3. PICK w : Sorting(w, k, n)
  <2> HIDE DEF k, n
  <2>1. QED
    BY <1>1, <1>2, SortingExists
<1>4. w \in Bijection(DOMAIN q, DOMAIN q) /\ Sorts(w, q, d)
  <2>1. w \in [1 .. n -> 1 .. n] /\ \A i \in 1 .. n : k[w[i]] = d[q[w[i]]]
    BY <1>3 DEF Sorting
  <2>2. \A i, j \in 1 .. n : i < j =>
            d[q[w[i]]] < d[q[w[j]]] \/ (d[q[w[i]]] = d[q[w[j]]] /\ w[i] < w[j])
    BY <1>3, <2>1 DEF Sorting
  <2>3. \A i \in 1 .. n : d[q[w[i]]] \in Int /\ w[i] \in Int
    BY <1>1, <2>1
  <2>4. \A i, j \in 1 .. n : w[i] = w[j] => i = j
    <3>1. \A i, j \in 1 .. n : i < j => w[i] # w[j]
      BY <2>2, <2>3
    <3>2. QED
      BY <3>1
  <2>5. \A y \in 1 .. n : \E i \in 1 .. n : w[i] = y
    BY <1>3 DEF Sorting
  <2>6. w \in Bijection(1 .. n, 1 .. n)
    BY <2>1, <2>4, <2>5 DEF Bijection, Injection, Surjection, IsInjective
  <2>7. Sorts(w, q, d)
    BY <1>1, <2>2 DEF Sorts
  <2>8. QED
    BY <1>1, <2>6, <2>7
<1> DEFINE p == CHOOSE p \in Bijection(DOMAIN q, DOMAIN q) : Sorts(p, q, d)
           r == SortedByDue(q, d)
<1> HIDE DEF n, k
<1>5. p \in Bijection(DOMAIN q, DOMAIN q) /\ Sorts(p, q, d)
  BY <1>4
<1>6. r = [i \in 1 .. n |-> q[p[i]]]
  BY <1>1 DEF SortedByDue
<1> HIDE DEF p, r
<1>7. /\ p \in [1 .. n -> 1 .. n]
      /\ \A i, j \in 1 .. n : p[i] = p[j] => i = j
      /\ \A y \in 1 .. n : \E i \in 1 .. n : p[i] = y
  BY <1>1, <1>5 DEF Bijection, Injection, Surjection, IsInjective
<1>8. r \in Seq(S) /\ Len(r) = n
  <2>1. r \in [1 .. n -> S]
    BY <1>1, <1>6, <1>7
  <2>2. QED
    BY <1>1, <2>1, FunctionIsList
<1>9. \A i \in 1 .. n : r[i] = q[p[i]] /\ p[i] \in 1 .. n
  BY <1>6, <1>7
<1>10. \A i, j \in 1 .. n : i < j => d[r[i]] <= d[r[j]]
  <2>1. \A i \in 1 .. n : d[q[p[i]]] \in Int
    BY <1>1, <1>7
  <2>2. \A i, j \in 1 .. n : i < j =>
            d[q[p[i]]] < d[q[p[j]]] \/ (d[q[p[i]]] = d[q[p[j]]] /\ p[i] < p[j])
    BY <1>1, <1>5 DEF Sorts
  <2>3. QED
    BY <1>9, <2>1, <2>2
<1>11. ToSet(r) = ToSet(q)
  <2>1. \A e : e \in ToSet(r) <=> \E i \in 1 .. n : r[i] = e
    BY <1>8, PlacesOfSet
  <2>2. \A e : e \in ToSet(q) <=> \E i \in 1 .. n : q[i] = e
    BY PlacesOfSet DEF n
  <2>3. \A e : e \in ToSet(r) => e \in ToSet(q)
    BY <1>9, <2>1, <2>2
  <2>4. ASSUME NEW e, e \in ToSet(q)
        PROVE  e \in ToSet(r)
    <3>1. PICK y \in 1 .. n : q[y] = e
      BY <2>2, <2>4
    <3>2. PICK i \in 1 .. n : p[i] = y
      BY <1>7
    <3>3. QED
      BY <1>9, <2>1, <3>1, <3>2
  <2>5. QED
    BY <2>3, <2>4
<1>12. ASSUME Distinct(q)
       PROVE  Distinct(r)
  <2>1. ASSUME NEW i \in 1 .. n, NEW j \in 1 .. n, r[i] = r[j]
        PROVE  i = j
    <3>1. q[p[i]] = q[p[j]] /\ p[i] \in 1 .. n /\ p[j] \in 1 .. n
      BY <1>9, <2>1
    <3>2. p[i] = p[j]
      BY <1>12, <3>1 DEF Distinct, n
    <3>3. QED
      BY <1>7, <3>2
  <2>2. QED
    BY <1>8, <2>1 DEF Distinct
<1>13. QED
  BY <1>8, <1>10, <1>11, <1>12 DEF r, n

\* A new entry is put in front and sorted in.
LEMMA NewEntryIsListed ==
  ASSUME gTimers \in Seq(Conns), Distinct(gTimers),
         NEW c \in Conns, c \notin Listed, NEW d \in [Conns -> Int],
         gTimers' = SortedByDue(<<c>> \o gTimers, d)
  PROVE  /\ gTimers' \in Seq(Conns)
         /\ gTimers' # <<>>
         /\ Listed' = Listed \cup {c}
         /\ Distinct(gTimers')
         /\ \A i, j \in 1 .. Len(gTimers') : i < j => d[gTimers'[i]] <= d[gTimers'[j]]
<1> DEFINE q == <<c>> \o gTimers
           n == Len(gTimers)
<1>1. n \in Nat /\ \A e : e \in Listed <=> \E i \in 1 .. n : gTimers[i] = e
  BY ListedPlaces
<1>2. <<c>> \in Seq(Conns) /\ Len(<<c>>) = 1 /\ <<c>>[1] = c
  OBVIOUS
<1>3. /\ q \in Seq(Conns) /\ Len(q) = n + 1
      /\ \A i \in 1 .. n + 1 : q[i] = IF i <= 1 THEN <<c>>[i] ELSE gTimers[i - 1]
  <2>1. /\ q \in Seq(Conns) /\ Len(q) = 1 + n
        /\ \A i \in 1 .. 1 + n : q[i] = IF i <= 1 THEN <<c>>[i] ELSE gTimers[i - 1]
    BY <1>2, ConcatProperties
  <2> HIDE DEF q
  <2>2. QED
    BY <1>1, <2>1
<1> HIDE DEF q
<1>4. q[1] = c /\ \A i \in 2 .. n + 1 : i - 1 \in 1 .. n /\ q[i] = gTimers[i - 1]
  BY <1>1, <1>2, <1>3
<1>5. \A i \in 1 .. n : i + 1 \in 2 .. n + 1 /\ q[i + 1] = gTimers[i]
  <2>1. \A i \in 1 .. n : i + 1 \in 2 .. n + 1 /\ (i + 1) - 1 = i
    BY <1>1
  <2>2. QED
    BY <1>4, <2>1
<1>6. ToSet(q) = Listed \cup {c}
  <2>1. \A e : e \in ToSet(q) <=> \E i \in 1 .. n + 1 : q[i] = e
    BY <1>3, PlacesOfSet
  <2>2. \A i \in 1 .. n + 1 : i = 1 \/ i \in 2 .. n + 1
    BY <1>1
  <2>3. 1 \in 1 .. n + 1 /\ \A i \in 2 .. n + 1 : i \in 1 .. n + 1
    BY <1>1
  <2>4. ASSUME NEW e \in ToSet(q)
        PROVE  e \in Listed \cup {c}
    BY <1>1, <1>4, <2>1, <2>2
  <2>5. ASSUME NEW e \in Listed \cup {c}
        PROVE  e \in ToSet(q)
    BY <1>1, <1>4, <1>5, <2>1, <2>3
  <2>6. QED
    BY <2>4, <2>5
<1>7. Distinct(q)
  <2>1. ASSUME NEW i \in 1 .. n + 1, NEW j \in 1 .. n + 1, q[i] = q[j]
        PROVE  i = j
    <3>1. \A a \in 2 .. n + 1 : q[a] # c
      BY <1>1, <1>4
    <3>2. CASE i \in 2 .. n + 1 /\ j \in 2 .. n + 1
      <4>1. gTimers[i - 1] = gTimers[j - 1] /\ i - 1 \in 1 .. n /\ j - 1 \in 1 .. n
        BY <1>4, <2>1, <3>2
      <4>2. i - 1 = j - 1
        BY <4>1 DEF Distinct
      <4>3. QED
        BY <4>2
    <3>3. QED
      BY <1>1, <1>4, <2>1, <3>1, <3>2
  <2>2. QED
    BY <1>3, <2>1 DEF Distinct
<1>8. /\ gTimers' \in Seq(Conns) /\ Len(gTimers') = n + 1 /\ ToSet(gTimers') = ToSet(q)
      /\ Distinct(gTimers')
      /\ \A i, j \in 1 .. n + 1 : i < j => d[gTimers'[i]] <= d[gTimers'[j]]
  BY <1>3, <1>7, SortKeepsEntries DEF q
<1>9. gTimers' # <<>>
  BY <1>1, <1>8, EmptySeq
<1>10. QED
  BY <1>6, <1>8, <1>9 DEF Listed

\* The place of a listed entry.
LEMMA PlaceOfListed ==
  ASSUME gTimers \in Seq(Conns), NEW e \in Listed
  PROVE  PlaceOf(e) \in 1 .. Len(gTimers) /\ gTimers[PlaceOf(e)] = e
BY ListedPlaces DEF PlaceOf

\* What follows a listed entry is another listed entry, or end().
LEMMA NextIsListed ==
  ASSUME gTimers \in Seq(Conns), Distinct(gTimers), NEW e \in Listed
  PROVE  NextEntry(e) = NoEntry \/ NextEntry(e) \in Listed \ {e}
<1>1. Len(gTimers) \in Nat
  BY ListedPlaces
<1>2. PlaceOf(e) \in 1 .. Len(gTimers) /\ gTimers[PlaceOf(e)] = e
  BY PlaceOfListed
<1>3. CASE PlaceOf(e) # Len(gTimers)
  <2>1. PlaceOf(e) + 1 \in 1 .. Len(gTimers)
    BY <1>1, <1>2, <1>3
  <2>2. gTimers[PlaceOf(e) + 1] # e
    BY <1>1, <1>2, <2>1 DEF Distinct
  <2>3. gTimers[PlaceOf(e) + 1] \in Listed
    BY <2>1, ListedPlaces
  <2>4. QED
    BY <1>3, <2>2, <2>3 DEF NextEntry
<1>4. CASE PlaceOf(e) = Len(gTimers)
  BY <1>4 DEF NextEntry
<1>5. QED
  BY <1>3, <1>4

\* Erasing a listed entry leaves all others.
LEMMA EraseLeavesOthers ==
  ASSUME gTimers \in Seq(Conns), Distinct(gTimers), NEW e \in Listed,
         gTimers' = RemoveAt(gTimers, PlaceOf(e))
  PROVE  gTimers' \in Seq(Conns) /\ Listed' = Listed \ {e} /\ Distinct(gTimers')
<1> DEFINE n == Len(gTimers)
           i == PlaceOf(e)
<1>1. n \in Nat /\ \A f : f \in Listed <=> \E j \in 1 .. n : gTimers[j] = f
  BY ListedPlaces
<1>2. i \in 1 .. n /\ gTimers[i] = e
  BY PlaceOfListed
<1> HIDE DEF i
<1>3. /\ gTimers' \in Seq(Conns) /\ Len(gTimers') = n - 1
      /\ \A j \in 1 .. n - 1 : gTimers'[j] = IF j < i THEN gTimers[j] ELSE gTimers[j + 1]
  BY <1>2, RemoveKeepsList DEF i
<1>4. \A f : f \in Listed' <=> \E j \in 1 .. n - 1 : gTimers'[j] = f
  BY <1>3, PlacesOfSet DEF Listed
<1> DEFINE old(j) == IF j < i THEN j ELSE j + 1
<1>5. \A j \in 1 .. n - 1 : old(j) \in 1 .. n /\ old(j) # i /\ gTimers'[j] = gTimers[old(j)]
  BY <1>1, <1>2, <1>3
<1>6. \A j, k \in 1 .. n - 1 : old(j) = old(k) => j = k
  BY <1>1, <1>2
<1>7. \A k \in 1 .. n : k # i => \E j \in 1 .. n - 1 : old(j) = k
  <2>1. ASSUME NEW k \in 1 .. n, k < i
        PROVE  k \in 1 .. n - 1 /\ old(k) = k
    BY <1>1, <1>2, <2>1
  <2>2. ASSUME NEW k \in 1 .. n, k > i
        PROVE  k - 1 \in 1 .. n - 1 /\ old(k - 1) = k
    BY <1>1, <1>2, <2>2
  <2>3. \A k \in 1 .. n : k # i => k < i \/ k > i
    BY <1>1, <1>2
  <2> HIDE DEF old
  <2>4. QED
    BY <2>1, <2>2, <2>3
<1> HIDE DEF old
<1>8. Distinct(gTimers')
  BY <1>3, <1>5, <1>6 DEF Distinct
<1>9. ASSUME NEW f \in Listed'
      PROVE  f \in Listed /\ f # e
  <2>1. PICK j \in 1 .. n - 1 : gTimers'[j] = f
    BY <1>4, <1>9
  <2>2. old(j) \in 1 .. n /\ old(j) # i /\ gTimers[old(j)] = f
    BY <1>5, <2>1
  <2>3. QED
    BY <1>1, <1>2, <2>2 DEF Distinct
<1>10. ASSUME NEW f \in Listed, f # e
       PROVE  f \in Listed'
  <2>1. PICK k \in 1 .. n : gTimers[k] = f
    BY <1>1, <1>10
  <2>2. PICK j \in 1 .. n - 1 : old(j) = k
    BY <1>2, <1>7, <1>10, <2>1
  <2>3. QED
    BY <1>4, <1>5, <2>1, <2>2
<1>11. QED
  BY <1>3, <1>8, <1>9, <1>10

-----------------------------------------------------------------------------
(* What the operations do to the entries and their connections.             *)

\* The connection is appended to the entry it joins, or to its own.
LEMMA ConnectAppends ==
  ASSUME TypeOK, EntriesInv, NEW c \in Conns, NEW m \in Periods, NEW comb \in BOOLEAN,
         ConnectTo(c, m, comb)
  PROVE  /\ gTimers' \in Seq(Conns) /\ Distinct(gTimers')
         /\ \E e \in Conns :
               /\ Listed' = Listed \cup {e}
               /\ connections' = [connections EXCEPT ![e] = Append(@, c)]
               /\ e \in Listed \/ e = c
<1>1. gTimers \in Seq(Conns) /\ connections \in [Conns -> Seq(Conns)]
  BY DEF TypeOK
<1>2. CASE comb /\ Combinable(m) # {} /\ JoinEntry(c, m)
  <2> DEFINE T == Combinable(m)
             i == CHOOSE i \in T : \A j \in T : i <= j
  <2>1. T \subseteq 1 .. Len(gTimers) /\ T \subseteq Nat
    BY <1>1, ListedPlaces DEF Combinable
  <2>2. \E k \in T : \A j \in T : k <= j
    <3> HIDE DEF T
    <3>1. QED
      BY <1>2, <2>1, LeastNatural DEF T
  <2>3. i \in T
    <3> HIDE DEF T
    <3>1. QED
      BY <2>2
  <2> DEFINE e == gTimers[i]
  <2>4. e \in Listed /\ e \in Conns
    <3> HIDE DEF T, i
    <3>1. QED
      BY <1>1, <2>1, <2>3, ListedPlaces
  <2>5. connections' = [connections EXCEPT ![e] = Append(@, c)] /\ gTimers' = gTimers
    BY <1>2 DEF JoinEntry
  <2> HIDE DEF e
  <2>6. Listed' = Listed \cup {e}
    BY <2>4, <2>5 DEF Listed
  <2>7. QED
    BY <1>1, <2>4, <2>5, <2>6 DEF EntriesInv
<1>3. CASE NewEntry(c, m, comb)
  <2>1. c \notin Listed /\ connections[c] = <<>>
    BY DEF ConnectTo, EntriesInv
  <2>2. due' \in [Conns -> Int]
    BY <1>3, LongestPeriod DEF NewEntry, TypeOK
  <2>3. gTimers' = SortedByDue(<<c>> \o gTimers, due')
    BY <1>3 DEF NewEntry
  <2>4. gTimers' \in Seq(Conns) /\ Listed' = Listed \cup {c} /\ Distinct(gTimers')
    BY <1>1, <2>1, <2>2, <2>3, NewEntryIsListed DEF EntriesInv
  <2>5. Append(connections[c], c) = <<c>>
    BY <2>1
  <2>6. connections' = [connections EXCEPT ![c] = Append(@, c)]
    BY <1>3, <2>5 DEF NewEntry
  <2>7. QED
    BY <2>4, <2>6
<1>4. QED
  BY <1>2, <1>3 DEF ConnectTo

\* The connection at i is gone, those behind it move up.
LEMMA DeleteLeavesOthers ==
  ASSUME TypeOK, iter \in Conns, NEW i \in 1 .. Len(connections[iter]), DeleteAt(i)
  PROVE  /\ connections' \in [Conns -> Seq(Conns)]
         /\ \A e \in Conns : e # iter => connections'[e] = connections[e]
         /\ Len(connections'[iter]) = Len(connections[iter]) - 1
         /\ \A j \in 1 .. Len(connections[iter]) - 1 :
               connections'[iter][j] = IF j < i THEN connections[iter][j]
                                       ELSE connections[iter][j + 1]
         /\ connections[iter][i] \in Conns
         /\ state' = [state EXCEPT ![connections[iter][i]] = "deleted"]
<1>1. connections[iter] \in Seq(Conns) /\ connections \in [Conns -> Seq(Conns)]
  BY DEF TypeOK
<1>2. /\ connections' = [connections EXCEPT ![iter] = RemoveAt(connections[iter], i)]
      /\ state' = [state EXCEPT ![connections[iter][i]] = "deleted"]
  BY DEF DeleteAt
<1> DEFINE r == RemoveAt(connections[iter], i)
<1>3. /\ r \in Seq(Conns) /\ Len(r) = Len(connections[iter]) - 1
      /\ \A j \in 1 .. Len(connections[iter]) - 1 :
            r[j] = IF j < i THEN connections[iter][j] ELSE connections[iter][j + 1]
  BY <1>1, RemoveKeepsList
<1> HIDE DEF r
<1>4. connections' = [connections EXCEPT ![iter] = r]
  BY <1>2 DEF r
<1>5. connections'[iter] = r /\ \A e \in Conns : e # iter => connections'[e] = connections[e]
  BY <1>1, <1>4
<1>6. connections[iter][i] \in Conns
  BY <1>1, ElementOfSeq
<1>7. connections' \in [Conns -> Seq(Conns)]
  BY <1>1, <1>3, <1>4
<1>8. QED
  BY <1>2, <1>3, <1>5, <1>6, <1>7

\* A step of operator() that deletes a connection has one under its iterator.
LEMMA DeletesUnderIterator ==
  ASSUME TypeOK, PassInv, DropDisconnected \/ SlotLeaves
  PROVE  /\ iter \in Listed /\ iter \in Conns /\ at \in 1 .. Len(connections[iter])
         /\ DeleteAt(at)
<1>1. iter \in Listed /\ at <= Len(connections[iter]) /\ DeleteAt(at)
  BY DEF DropDisconnected, SlotLeaves, PassInv
<1>2. iter \in Conns /\ at \in Nat \ {0}
  BY <1>1, ListedPlaces DEF TypeOK
<1>3. Len(connections[iter]) \in Nat
  BY <1>2, LenProperties DEF TypeOK
<1>4. QED
  BY <1>1, <1>2, <1>3

\* The end of an entry: it is erased if it is empty, and stays otherwise.
LEMMA EndErases ==
  ASSUME TypeOK, EntriesInv, PassInv, EndEntry
  PROVE  /\ iter \in Listed /\ iter \in Conns
         /\ gTimers' \in Seq(Conns) /\ Distinct(gTimers')
         /\ \/ connections[iter] # <<>> /\ Listed' = Listed /\ gTimers' = gTimers
               /\ due' = [due EXCEPT ![iter] = milliseconds[iter] - elapsed]
               /\ UNCHANGED <<milliseconds, combine, since>>
            \/ connections[iter] = <<>> /\ Listed' = Listed \ {iter}
               /\ due' = [due EXCEPT ![iter] = 0]
               /\ milliseconds' = [milliseconds EXCEPT ![iter] = 0]
               /\ combine' = [combine EXCEPT ![iter] = FALSE]
               /\ since' = [since EXCEPT ![iter] = 0]
         /\ iter' = NoEntry \/ iter' \in Listed'
<1>1. gTimers \in Seq(Conns) /\ iter \in Listed /\ iter \in Conns
  BY ListedPlaces DEF TypeOK, PassInv, EndEntry
<1>2. iter' = NextEntry(iter)
  BY DEF EndEntry
<1>3. NextEntry(iter) = NoEntry \/ NextEntry(iter) \in Listed \ {iter}
  BY <1>1, NextIsListed DEF EntriesInv
<1>4. CASE /\ connections[iter] # <<>>
           /\ due' = [due EXCEPT ![iter] = milliseconds[iter] - elapsed]
           /\ UNCHANGED <<gTimers, milliseconds, combine, since>>
  <2>1. Listed' = Listed
    BY <1>4 DEF Listed
  <2>2. QED
    BY <1>1, <1>2, <1>3, <1>4, <2>1 DEF EntriesInv
<1>5. CASE /\ connections[iter] = <<>>
           /\ gTimers' = RemoveAt(gTimers, PlaceOf(iter))
           /\ due' = [due EXCEPT ![iter] = 0]
           /\ milliseconds' = [milliseconds EXCEPT ![iter] = 0]
           /\ combine' = [combine EXCEPT ![iter] = FALSE]
           /\ since' = [since EXCEPT ![iter] = 0]
  <2>1. gTimers' \in Seq(Conns) /\ Listed' = Listed \ {iter} /\ Distinct(gTimers')
    BY <1>1, <1>5, EraseLeavesOthers DEF EntriesInv
  <2>2. QED
    BY <1>1, <1>2, <1>3, <1>5, <2>1
<1>6. QED
  BY <1>4, <1>5 DEF EndEntry

\* The return of operator() sorts the list again.
LEMMA ReturnSorts ==
  ASSUME TypeOK, EntriesInv, OperatorReturn
  PROVE  /\ gTimers' \in Seq(Conns) /\ Distinct(gTimers') /\ Listed' = Listed
         /\ Len(gTimers') = Len(gTimers)
         /\ \A i, j \in 1 .. Len(gTimers') : i < j => due[gTimers'[i]] <= due[gTimers'[j]]
<1>1. gTimers \in Seq(Conns) /\ due \in [Conns -> Int]
  BY LongestPeriod DEF TypeOK
<1>2. gTimers' = SortedByDue(gTimers, due)
  BY DEF OperatorReturn
<1>3. QED
  BY <1>1, <1>2, SortKeepsEntries DEF EntriesInv, Listed

-----------------------------------------------------------------------------
(* The invariant, part by part.                                             *)

LEMMA InitIInv == Init => IInv
<1> SUFFICES ASSUME Init
             PROVE  IInv
  OBVIOUS
<1> USE LongestPeriod
<1>1. TypeOK
  BY DEF Init, TypeOK
<1>2. Listed = {} /\ Len(gTimers) = 0
  BY ListedPlaces, <1>1 DEF Init, TypeOK
<1>3. EntriesInv
  BY <1>2 DEF Init, EntriesInv, Distinct
<1>4. PlacesInv
  BY <1>2 DEF Init, PlacesInv
<1>5. PassInv /\ SinceInv /\ AlarmIsFront /\ OneOfAPeriod
  BY <1>2 DEF Init, PassInv, SinceInv, AlarmIsFront, OneOfAPeriod
<1>6. QED
  BY <1>1, <1>3, <1>4, <1>5 DEF IInv

LEMMA TypeStep == TypeOK /\ EntriesInv /\ PassInv /\ [Next]_vars => TypeOK'
<1> SUFFICES ASSUME TypeOK, EntriesInv, PassInv, [Next]_vars
             PROVE  TypeOK'
  OBVIOUS
<1> USE LongestPeriod
<1>0. 0 \in 0 .. MaxLate /\ 0 \in 0 .. MaxPeriod /\ 0 \in -MaxLate .. MaxPeriod
  OBVIOUS
<1>1. ASSUME NEW c \in Conns, NEW m \in Periods, NEW comb \in BOOLEAN, ConnectTo(c, m, comb)
      PROVE  TypeOK'
  <2>1. gTimers' \in Seq(Conns)
    BY <1>1, ConnectAppends
  <2>2. connections' \in [Conns -> Seq(Conns)]
    <3>1. PICK e \in Conns : connections' = [connections EXCEPT ![e] = Append(@, c)]
      BY <1>1, ConnectAppends
    <3>2. Append(connections[e], c) \in Seq(Conns)
      BY AppendProperties DEF TypeOK
    <3>3. QED
      BY <3>1, <3>2 DEF TypeOK
  <2>3. CASE JoinEntry(c, m)
    BY <1>1, <2>1, <2>2, <2>3 DEF TypeOK, ConnectTo, JoinEntry, passVars
  <2>4. CASE NewEntry(c, m, comb)
    <3>1. due' \in [Conns -> -MaxLate .. MaxPeriod]
      BY <2>4 DEF NewEntry, TypeOK
    <3>2. alarm' \in -MaxLate .. MaxPeriod
      <4>1. gTimers' # <<>> /\ Head(gTimers') \in Conns
        <5>1. Listed' # {}
          BY <1>1, ConnectAppends
        <5>2. gTimers' # <<>>
          BY <2>1, <5>1, PlacesOfSet DEF Listed
        <5>3. QED
          BY <2>1, <5>2, HeadTailProperties
      <4>2. QED
        BY <2>4, <3>1, <4>1 DEF NewEntry, TypeOK
    <3>3. since' \in [Conns -> 0 .. MaxPeriod]
      BY <1>0, <2>4 DEF TypeOK, NewEntry
    <3>4. /\ milliseconds' \in [Conns -> Periods \cup {0}]
          /\ combine' \in [Conns -> BOOLEAN]
      BY <2>4 DEF TypeOK, NewEntry
    <3>5. state' = [state EXCEPT ![c] = "connected"] /\ UNCHANGED <<pc, iter, at, elapsed>>
      BY <1>1 DEF ConnectTo, passVars
    <3>6. QED
      BY <2>1, <2>2, <3>1, <3>2, <3>3, <3>4, <3>5 DEF TypeOK
  <2>5. QED
    BY <1>1, <2>3, <2>4 DEF ConnectTo
<1>2. ASSUME NEW c \in Conns, Disconnect(c)
      PROVE  TypeOK'
  BY <1>2 DEF TypeOK, Disconnect, entryVars, passVars
<1>3. CASE TimerEvent
  <2>1. Head(gTimers) \in Conns
    BY <1>3, HeadTailProperties DEF TypeOK, TimerEvent
  <2>2. QED
    BY <1>3, <2>1 DEF TypeOK, TimerEvent, entryVars
<1>4. CASE TimerEventEmpty
  BY <1>4 DEF TypeOK, TimerEventEmpty, entryVars, passVars
<1>5. CASE BeginEntry
  <2>1. since' \in [Conns -> 0 .. MaxPeriod]
    BY <1>0, <1>5 DEF TypeOK, BeginEntry
  <2>2. /\ elapsed' = 0 /\ at' = 1 /\ pc' = "connection"
        /\ UNCHANGED <<entryVars, state, alarm, iter>>
    BY <1>5 DEF BeginEntry
  <2>3. QED
    BY <1>0, <2>1, <2>2 DEF TypeOK, entryVars
<1>6. CASE CallSlot \/ SlotKeeps
  <2>1. CASE CallSlot
    BY <2>1 DEF TypeOK, CallSlot, entryVars
  <2>2. CASE SlotKeeps
    BY <2>2 DEF TypeOK, SlotKeeps, entryVars
  <2>3. QED
    BY <1>6, <2>1, <2>2
<1>7. CASE DropDisconnected \/ SlotLeaves
  <2>1. iter \in Conns /\ at \in 1 .. Len(connections[iter]) /\ DeleteAt(at)
    BY <1>7, DeletesUnderIterator
  <2>2. /\ connections' \in [Conns -> Seq(Conns)]
        /\ state' = [state EXCEPT ![connections[iter][at]] = "deleted"]
    BY <2>1, DeleteLeavesOthers
  <2>3. QED
    BY <1>7, <2>1, <2>2 DEF TypeOK, DropDisconnected, SlotLeaves, DeleteAt, passVars
<1>8. CASE EndEntry
  <2>1. gTimers' \in Seq(Conns) /\ (iter' = NoEntry \/ iter' \in Listed')
    BY <1>8, EndErases
  <2>2. iter' \in Conns \cup {NoEntry}
    BY <2>1, PlacesOfSet DEF Listed
  <2>3. milliseconds[iter] - elapsed \in -MaxLate .. MaxPeriod
    <3>1. milliseconds[iter] \in Periods /\ elapsed \in 0 .. MaxLate
      BY <1>8, EndErases DEF TypeOK, EntriesInv
    <3>2. \A p \in Periods : p \in Nat /\ p <= MaxPeriod
      OBVIOUS
    <3>3. milliseconds[iter] \in Nat /\ milliseconds[iter] <= MaxPeriod
      BY <3>1, <3>2
    <3>4. elapsed \in Nat /\ elapsed <= MaxLate
      BY <3>1
    <3>5. QED
      BY <3>3, <3>4
  <2>4. /\ \E w \in {milliseconds[iter] - elapsed, 0} : due' = [due EXCEPT ![iter] = w]
        /\ milliseconds' = milliseconds \/ milliseconds' = [milliseconds EXCEPT ![iter] = 0]
        /\ combine' = combine \/ combine' = [combine EXCEPT ![iter] = FALSE]
        /\ since' = since \/ since' = [since EXCEPT ![iter] = 0]
    BY <1>8, EndErases
  <2>5. due' \in [Conns -> -MaxLate .. MaxPeriod]
    <3>1. PICK w \in -MaxLate .. MaxPeriod : due' = [due EXCEPT ![iter] = w]
      BY <1>0, <2>3, <2>4
    <3>2. QED
      BY <3>1 DEF TypeOK
  <2>6. /\ milliseconds' \in [Conns -> Periods \cup {0}]
        /\ combine' \in [Conns -> BOOLEAN]
    BY <2>4 DEF TypeOK
  <2>7. since' \in [Conns -> 0 .. MaxPeriod]
    BY <1>0, <2>4 DEF TypeOK
  <2>8. /\ at' = 1 /\ elapsed' = 0 /\ pc' = "entry"
        /\ UNCHANGED <<connections, state, alarm>>
    BY <1>8 DEF EndEntry
  <2>9. QED
    BY <1>0, <2>1, <2>2, <2>5, <2>6, <2>7, <2>8 DEF TypeOK
<1>9. CASE OperatorReturn
  <2>1. gTimers' \in Seq(Conns) /\ Listed' = Listed
    BY <1>9, ReturnSorts
  <2>2. alarm' \in -MaxLate .. MaxPeriod
    <3>1. CASE gTimers # <<>>
      <4>1. gTimers' # <<>>
        BY <2>1, <3>1, ListedPlaces, PlacesOfSet DEF TypeOK, Listed
      <4>2. Head(gTimers') \in Conns
        BY <2>1, <4>1, HeadTailProperties
      <4>3. QED
        BY <1>9, <4>2 DEF TypeOK, OperatorReturn
    <3>2. CASE gTimers = <<>>
      BY <1>9, <3>2 DEF TypeOK, OperatorReturn
    <3>3. QED
      BY <3>1, <3>2
  <2>3. QED
    BY <1>9, <2>1, <2>2 DEF TypeOK, OperatorReturn
<1>10. CASE Tick
  <2>1. due' \in [Conns -> -MaxLate .. MaxPeriod]
    BY <1>10 DEF TypeOK, Tick
  <2>2. since' \in [Conns -> 0 .. MaxPeriod]
    BY <1>10 DEF TypeOK, Tick
  <2>3. alarm' \in -MaxLate .. MaxPeriod /\ elapsed' \in 0 .. MaxLate
    BY <1>10 DEF TypeOK, Tick
  <2>4. QED
    BY <1>10, <2>1, <2>2, <2>3 DEF TypeOK, Tick
<1>11. CASE UNCHANGED vars
  BY <1>11 DEF TypeOK, vars, entryVars, passVars
<1>12. QED
  BY <1>1, <1>2, <1>3, <1>4, <1>5, <1>6, <1>7, <1>8, <1>9, <1>10, <1>11 DEF Next, OperatorStep

LEMMA EntriesStep == TypeOK /\ EntriesInv /\ PassInv /\ [Next]_vars => EntriesInv'
<1> SUFFICES ASSUME TypeOK, EntriesInv, PassInv, [Next]_vars
             PROVE  EntriesInv'
  OBVIOUS
<1>1. ASSUME NEW c \in Conns, NEW m \in Periods, NEW comb \in BOOLEAN, ConnectTo(c, m, comb)
      PROVE  EntriesInv'
  <2>1. Distinct(gTimers')
    BY <1>1, ConnectAppends
  <2>2. PICK e \in Conns :
            /\ Listed' = Listed \cup {e}
            /\ connections' = [connections EXCEPT ![e] = Append(@, c)]
            /\ e \in Listed \/ e = c
    BY <1>1, ConnectAppends
  <2>3. state[c] = "new" /\ state' = [state EXCEPT ![c] = "connected"]
    BY <1>1 DEF ConnectTo
  <2>4. \A f \in Conns : state'[f] = "new" => f \notin Listed'
    BY <2>2, <2>3 DEF TypeOK, EntriesInv
  <2>5. \A f \in Conns : f \notin Listed' => connections'[f] = <<>>
    BY <2>2 DEF TypeOK, EntriesInv
  <2>6. \A f \in Listed' : milliseconds'[f] \in Periods
    <3>1. CASE JoinEntry(c, m)
      <4>1. Listed' = Listed
        BY <3>1 DEF JoinEntry, Listed
      <4>2. QED
        BY <3>1, <4>1 DEF JoinEntry, EntriesInv
    <3>2. CASE NewEntry(c, m, comb)
      <4>1. Listed' \subseteq Listed \cup {c} /\ Listed \subseteq Conns
        <5>1. Listed \subseteq Conns
          BY ListedPlaces DEF TypeOK
        <5>2. connections'[c] = <<c>> /\ connections[c] = <<>>
          BY <2>3, <3>2 DEF NewEntry, TypeOK, EntriesInv
        <5>3. <<c>> # <<>>
          OBVIOUS
        <5>4. e = c
          BY <2>2, <5>2, <5>3 DEF TypeOK
        <5>5. QED
          BY <2>2, <5>1, <5>4
      <4>2. milliseconds' = [milliseconds EXCEPT ![c] = m]
        BY <3>2 DEF NewEntry
      <4>3. QED
        BY <4>1, <4>2 DEF TypeOK, EntriesInv
    <3>3. QED
      BY <1>1, <3>1, <3>2 DEF ConnectTo
  <2>7. QED
    BY <2>1, <2>4, <2>5, <2>6 DEF EntriesInv
<1>2. ASSUME NEW c \in Conns, Disconnect(c)
      PROVE  EntriesInv'
  <2>1. /\ Listed' = Listed /\ gTimers' = gTimers
        /\ connections' = connections /\ milliseconds' = milliseconds
        /\ state' = [state EXCEPT ![c] = "disconnected"]
    BY <1>2 DEF Disconnect, entryVars, Listed
  <2>2. QED
    BY <2>1 DEF EntriesInv, TypeOK
<1>3. CASE DropDisconnected \/ SlotLeaves
  <2>1. iter \in Listed /\ iter \in Conns /\ at \in 1 .. Len(connections[iter]) /\ DeleteAt(at)
    BY <1>3, DeletesUnderIterator
  <2>2. /\ \A e \in Conns : e # iter => connections'[e] = connections[e]
        /\ connections[iter][at] \in Conns
        /\ state' = [state EXCEPT ![connections[iter][at]] = "deleted"]
    BY <2>1, DeleteLeavesOthers
  <2>3. Listed' = Listed /\ gTimers' = gTimers /\ milliseconds' = milliseconds
    BY <2>1 DEF DeleteAt, Listed
  <2>4. QED
    BY <2>1, <2>2, <2>3 DEF EntriesInv, TypeOK
<1>4. CASE EndEntry
  <2>1. /\ iter \in Listed /\ iter \in Conns /\ Distinct(gTimers')
        /\ \/ /\ Listed' = Listed /\ milliseconds' = milliseconds
           \/ /\ connections[iter] = <<>> /\ Listed' = Listed \ {iter}
              /\ milliseconds' = [milliseconds EXCEPT ![iter] = 0]
    BY <1>4, EndErases
  <2>2. connections' = connections /\ state' = state
    BY <1>4 DEF EndEntry
  <2>3. Listed \subseteq Conns
    BY ListedPlaces DEF TypeOK
  <2>4. QED
    BY <2>1, <2>2, <2>3 DEF EntriesInv, TypeOK
<1>5. CASE OperatorReturn
  <2>1. Distinct(gTimers') /\ Listed' = Listed
    BY <1>5, ReturnSorts
  <2>2. UNCHANGED <<connections, state, milliseconds>>
    BY <1>5 DEF OperatorReturn
  <2>3. QED
    BY <2>1, <2>2 DEF EntriesInv
<1>6. CASE UNCHANGED <<gTimers, connections, state, milliseconds>>
  BY <1>6 DEF EntriesInv, Listed
<1>7. ASSUME TimerEvent \/ TimerEventEmpty \/ BeginEntry \/ CallSlot \/ SlotKeeps \/ Tick
             \/ UNCHANGED vars
      PROVE  UNCHANGED <<gTimers, connections, state, milliseconds>>
  BY <1>7 DEF TimerEvent, TimerEventEmpty, BeginEntry, CallSlot, SlotKeeps, Tick,
              entryVars, vars
<1>8. QED
  BY <1>1, <1>2, <1>3, <1>4, <1>5, <1>6, <1>7 DEF Next, OperatorStep

LEMMA PlacesStep == TypeOK /\ EntriesInv /\ PassInv /\ PlacesInv /\ [Next]_vars => PlacesInv'
<1> SUFFICES ASSUME TypeOK, EntriesInv, PassInv, PlacesInv, [Next]_vars
             PROVE  PlacesInv'
  OBVIOUS
<1>1. \A e \in Conns : Len(connections[e]) \in Nat /\ connections[e] \in Seq(Conns)
  BY LenProperties DEF TypeOK
<1>2. Listed \subseteq Conns
  BY ListedPlaces DEF TypeOK
<1>3. \A e \in Conns : \A i \in 1 .. Len(connections[e]) : connections[e][i] \in Conns
  BY <1>1, ElementOfSeq
<1>4. \A e, f \in Conns : \A i \in 1 .. Len(connections[e]), j \in 1 .. Len(connections[f]) :
         connections[e][i] = connections[f][j] => e = f /\ i = j
  BY DEF PlacesInv
<1>5. \A e \in Conns : \A i \in 1 .. Len(connections[e]) : state[connections[e][i]] # "new"
  BY DEF PlacesInv
<1>6. ASSUME NEW c \in Conns, NEW m \in Periods, NEW comb \in BOOLEAN, ConnectTo(c, m, comb)
      PROVE  PlacesInv'
  <2>1. PICK e \in Conns :
            /\ Listed' = Listed \cup {e}
            /\ connections' = [connections EXCEPT ![e] = Append(@, c)]
    BY <1>6, ConnectAppends
  <2>2. state[c] = "new" /\ state' = [state EXCEPT ![c] = "connected"]
    BY <1>6 DEF ConnectTo
  <2> DEFINE n == Len(connections[e])
             r == Append(connections[e], c)
  <2>3. /\ Len(r) = n + 1 /\ r[n + 1] = c
        /\ \A i \in 1 .. n : r[i] = connections[e][i]
    BY <1>1, AppendProperties
  <2>4. connections'[e] = r /\ \A f \in Conns : f # e => connections'[f] = connections[f]
    BY <2>1 DEF TypeOK
  <2> HIDE DEF r
  <2>5. /\ Len(connections'[e]) = n + 1 /\ connections'[e][n + 1] = c
        /\ \A i \in 1 .. n : connections'[e][i] = connections[e][i]
        /\ n + 1 \in 1 .. n + 1 /\ \A i \in 1 .. n : i \in 1 .. n + 1
        /\ \A i \in 1 .. n + 1 : i \in 1 .. n \/ i = n + 1
    BY <1>1, <2>3, <2>4
  <2>6. \A f \in Conns : \A i \in 1 .. Len(connections[f]) : connections[f][i] # c
    BY <2>2 DEF PlacesInv
  <2>7. ASSUME NEW f \in Conns, NEW g \in Conns,
               NEW i \in 1 .. Len(connections'[f]), NEW j \in 1 .. Len(connections'[g]),
               connections'[f][i] = connections'[g][j]
        PROVE  f = g /\ i = j
    <3>1. CASE connections'[f][i] = c
      <4>1. f = e /\ g = e
        BY <2>4, <2>6, <2>7, <3>1
      <4>2. i = n + 1 /\ j = n + 1
        BY <2>5, <2>6, <2>7, <3>1, <4>1
      <4>3. QED
        BY <4>1, <4>2
    <3>2. CASE connections'[f][i] # c
      <4>1. i \in 1 .. Len(connections[f]) /\ connections'[f][i] = connections[f][i]
        BY <2>4, <2>5, <3>2
      <4>2. j \in 1 .. Len(connections[g]) /\ connections'[g][j] = connections[g][j]
        BY <2>4, <2>5, <2>7, <3>2
      <4>3. connections[f][i] = connections[g][j]
        BY <2>7, <4>1, <4>2
      <4>4. QED
        BY <1>4, <4>1, <4>2, <4>3
    <3>3. QED
      BY <3>1, <3>2
  <2>8. \A f \in Conns : \A i \in 1 .. Len(connections'[f]) : state'[connections'[f][i]] # "new"
    <3>1. \A f \in Conns : \A i \in 1 .. Len(connections'[f]) :
             \/ connections'[f][i] = c
             \/ i \in 1 .. Len(connections[f]) /\ connections'[f][i] = connections[f][i]
      BY <2>4, <2>5
    <3>2. state'[c] = "connected" /\ \A d : d # c => state'[d] = state[d]
      BY <2>2 DEF TypeOK
    <3>3. QED
      BY <3>1, <3>2 DEF PlacesInv
  <2>9. ASSUME NEW d \in Conns, state'[d] = "connected"
        PROVE  \E f \in Listed' : \E i \in 1 .. Len(connections'[f]) : connections'[f][i] = d
    <3>1. CASE d = c
      BY <2>1, <2>5, <3>1
    <3>2. CASE d # c
      <4>1. state[d] = "connected"
        BY <2>2, <2>9, <3>2 DEF TypeOK
      <4>2. PICK f \in Listed : \E i \in 1 .. Len(connections[f]) : connections[f][i] = d
        BY <4>1 DEF PlacesInv
      <4>3. PICK i \in 1 .. Len(connections[f]) : connections[f][i] = d
        BY <4>2
      <4>4. i \in 1 .. Len(connections'[f]) /\ connections'[f][i] = d
        BY <1>2, <2>4, <2>5, <4>3
      <4>5. QED
        BY <2>1, <4>4
    <3>3. QED
      BY <3>1, <3>2
  <2>10. QED
    BY <2>7, <2>8, <2>9 DEF PlacesInv
<1>7. ASSUME NEW c \in Conns, Disconnect(c)
      PROVE  PlacesInv'
  <2>1. /\ Listed' = Listed /\ connections' = connections
        /\ state' = [state EXCEPT ![c] = "disconnected"]
    BY <1>7 DEF Disconnect, entryVars, Listed
  <2>2. \A d \in Conns : state'[d] = IF d = c THEN "disconnected" ELSE state[d]
    BY <2>1 DEF TypeOK
  <2>3. \A e \in Conns : \A i \in 1 .. Len(connections[e]) : state'[connections[e][i]] # "new"
    BY <1>3, <1>5, <2>2
  <2>4. QED
    BY <2>1, <2>2, <2>3 DEF PlacesInv
<1>8. CASE DropDisconnected \/ SlotLeaves
  <2>1. iter \in Listed /\ iter \in Conns /\ at \in 1 .. Len(connections[iter]) /\ DeleteAt(at)
    BY <1>8, DeletesUnderIterator
  <2> DEFINE n == Len(connections[iter])
             d == connections[iter][at]
  <2>2. /\ \A e \in Conns : e # iter => connections'[e] = connections[e]
        /\ Len(connections'[iter]) = n - 1
        /\ \A j \in 1 .. n - 1 :
              connections'[iter][j] = IF j < at THEN connections[iter][j]
                                      ELSE connections[iter][j + 1]
        /\ d \in Conns /\ state' = [state EXCEPT ![d] = "deleted"]
    BY <2>1, DeleteLeavesOthers
  <2>3. Listed' = Listed
    BY <2>1 DEF DeleteAt, Listed
  <2> DEFINE old(e, j) == IF e # iter \/ j < at THEN j ELSE j + 1
  <2>4. \A e \in Conns : \A j \in 1 .. Len(connections'[e]) :
           /\ old(e, j) \in 1 .. Len(connections[e])
           /\ connections'[e][j] = connections[e][old(e, j)]
           /\ e = iter => old(e, j) # at
    <3>1. \A j \in 1 .. n - 1 : old(iter, j) \in 1 .. n /\ old(iter, j) # at
      BY <1>1, <2>1
    <3>2. QED
      BY <2>1, <2>2, <3>1
  <2>5. \A e \in Conns : \A i, j \in 1 .. Len(connections'[e]) : old(e, i) = old(e, j) => i = j
    <3>1. \A i, j \in 1 .. n - 1 : old(iter, i) = old(iter, j) => i = j
      BY <1>1, <2>1
    <3>2. QED
      BY <2>2, <3>1
  <2> HIDE DEF old
  <2>6. ASSUME NEW f \in Conns, NEW g \in Conns,
               NEW i \in 1 .. Len(connections'[f]), NEW j \in 1 .. Len(connections'[g]),
               connections'[f][i] = connections'[g][j]
        PROVE  f = g /\ i = j
    <3>1. f = g /\ old(f, i) = old(g, j)
      BY <2>4, <2>6 DEF PlacesInv
    <3>2. QED
      BY <2>5, <3>1
  <2>7. \A f \in Conns : \A i \in 1 .. Len(connections'[f]) : state'[connections'[f][i]] # "new"
    <3>1. \A c \in Conns : state'[c] = IF c = d THEN "deleted" ELSE state[c]
      BY <2>2 DEF TypeOK
    <3>2. \A f \in Conns : \A i \in 1 .. Len(connections[f]) : state'[connections[f][i]] # "new"
      BY <1>3, <1>5, <3>1
    <3>3. QED
      BY <2>4, <3>2
  <2>8. ASSUME NEW c \in Conns, state'[c] = "connected"
        PROVE  \E f \in Listed' : \E i \in 1 .. Len(connections'[f]) : connections'[f][i] = c
    <3>1. state[c] = "connected" /\ c # d
      BY <2>2, <2>8 DEF TypeOK
    <3>2. PICK f \in Listed : \E i \in 1 .. Len(connections[f]) : connections[f][i] = c
      BY <3>1 DEF PlacesInv
    <3>3. PICK i \in 1 .. Len(connections[f]) : connections[f][i] = c
      BY <3>2
    <3>4. CASE f # iter
      BY <1>2, <2>2, <2>3, <3>3, <3>4
    <3>5. CASE f = iter /\ i < at
      <4>1. i \in 1 .. n - 1
        BY <1>1, <2>1, <3>5
      <4>2. QED
        BY <2>1, <2>2, <2>3, <3>3, <3>5, <4>1
    <3>6. CASE f = iter /\ i > at
      <4>1. i - 1 \in 1 .. n - 1 /\ ~ (i - 1 < at) /\ (i - 1) + 1 = i
        BY <1>1, <2>1, <3>6
      <4>2. connections'[iter][i - 1] = c
        BY <2>2, <3>3, <3>6, <4>1
      <4>3. QED
        BY <2>1, <2>2, <2>3, <4>1, <4>2
    <3>7. f # iter \/ i # at
      BY <3>1, <3>3
    <3>8. f = iter /\ i # at => i < at \/ i > at
      BY <1>1, <2>1
    <3>9. QED
      BY <3>4, <3>5, <3>6, <3>7, <3>8
  <2>9. QED
    BY <2>6, <2>7, <2>8 DEF PlacesInv
<1>9. CASE EndEntry
  <2>1. /\ iter \in Conns
        /\ Listed' = Listed \/ (connections[iter] = <<>> /\ Listed' = Listed \ {iter})
    BY <1>9, EndErases
  <2>2. connections' = connections /\ state' = state
    BY <1>9 DEF EndEntry
  <2>3. connections[iter] = <<>> => Len(connections[iter]) = 0
    BY <1>1, <2>1, EmptySeq
  <2>4. ASSUME NEW c \in Conns, state'[c] = "connected"
        PROVE  \E f \in Listed' : \E i \in 1 .. Len(connections'[f]) : connections'[f][i] = c
    <3>1. PICK f \in Listed : \E i \in 1 .. Len(connections[f]) : connections[f][i] = c
      BY <2>2, <2>4 DEF PlacesInv
    <3>2. Len(connections[f]) # 0
      BY <3>1
    <3>3. f \in Listed'
      BY <2>1, <2>3, <3>2
    <3>4. QED
      BY <2>2, <3>1, <3>3
  <2>5. QED
    BY <2>2, <2>4 DEF PlacesInv
<1>10. CASE OperatorReturn
  <2>1. Listed' = Listed /\ connections' = connections /\ state' = state
    BY <1>10, ReturnSorts DEF OperatorReturn
  <2>2. QED
    BY <2>1 DEF PlacesInv
<1>11. CASE UNCHANGED <<gTimers, connections, state>>
  BY <1>11 DEF PlacesInv, Listed
<1>12. ASSUME TimerEvent \/ TimerEventEmpty \/ BeginEntry \/ CallSlot \/ SlotKeeps \/ Tick
             \/ UNCHANGED vars
      PROVE  UNCHANGED <<gTimers, connections, state>>
  BY <1>12 DEF TimerEvent, TimerEventEmpty, BeginEntry, CallSlot, SlotKeeps, Tick,
              entryVars, vars
<1>13. QED
  BY <1>6, <1>7, <1>8, <1>9, <1>10, <1>11, <1>12 DEF Next, OperatorStep

LEMMA PassStep == TypeOK /\ EntriesInv /\ PassInv /\ [Next]_vars => PassInv'
<1> SUFFICES ASSUME TypeOK, EntriesInv, PassInv, [Next]_vars
             PROVE  PassInv'
  OBVIOUS
<1>1. ASSUME NEW c \in Conns, NEW m \in Periods, NEW comb \in BOOLEAN, ConnectTo(c, m, comb)
      PROVE  PassInv'
  <2>1. PICK e \in Conns :
            /\ Listed' = Listed \cup {e}
            /\ connections' = [connections EXCEPT ![e] = Append(@, c)]
    BY <1>1, ConnectAppends
  <2>2. pc \in {"idle", "slot"} /\ UNCHANGED <<pc, iter, at>>
    BY <1>1 DEF ConnectTo, passVars
  <2>3. CASE pc = "slot"
    <3>1. iter \in Listed /\ iter \in Conns /\ at <= Len(connections[iter])
      BY <2>3, ListedPlaces DEF PassInv, TypeOK
    <3>2. Len(connections[iter]) \in Nat /\ at \in Nat
      BY <3>1, LenProperties DEF TypeOK
    <3>3. CASE iter = e
      <4>1. connections'[iter] = Append(connections[iter], c)
        BY <2>1, <3>1, <3>3 DEF TypeOK
      <4>2. Len(connections'[iter]) = Len(connections[iter]) + 1
        BY <3>1, <4>1, AppendProperties DEF TypeOK
      <4>3. QED
        BY <2>1, <2>2, <2>3, <3>1, <3>2, <4>2 DEF PassInv
    <3>4. CASE iter # e
      <4>1. connections'[iter] = connections[iter]
        BY <2>1, <3>1, <3>4 DEF TypeOK
      <4>2. QED
        BY <2>1, <2>2, <2>3, <3>1, <4>1 DEF PassInv
    <3>5. QED
      BY <3>3, <3>4
  <2>4. CASE pc = "idle"
    BY <2>2, <2>4 DEF PassInv
  <2>5. QED
    BY <2>2, <2>3, <2>4
<1>2. CASE TimerEvent
  <2>1. Head(gTimers) \in Listed
    BY <1>2, ListedPlaces DEF TimerEvent, TypeOK
  <2>2. Listed' = Listed /\ iter' = Head(gTimers) /\ pc' = "entry"
    BY <1>2 DEF TimerEvent, entryVars, Listed
  <2>3. QED
    BY <2>1, <2>2 DEF PassInv
<1>3. CASE BeginEntry
  <2>1. Listed' = Listed /\ iter' = iter /\ pc' = "connection" /\ iter \in Listed
    BY <1>3 DEF BeginEntry, EntryIsDue, PassInv, entryVars, Listed
  <2>2. QED
    BY <2>1 DEF PassInv
<1>4. CASE CallSlot
  <2>1. /\ Listed' = Listed /\ iter' = iter /\ pc' = "slot" /\ iter \in Listed
        /\ at' = at /\ connections' = connections /\ at <= Len(connections[iter])
    BY <1>4 DEF CallSlot, PassInv, entryVars, Listed
  <2>2. QED
    BY <2>1 DEF PassInv
<1>5. CASE SlotKeeps
  <2>1. Listed' = Listed /\ iter' = iter /\ pc' = "connection" /\ iter \in Listed
    BY <1>5 DEF SlotKeeps, PassInv, entryVars, Listed
  <2>2. QED
    BY <2>1 DEF PassInv
<1>6. CASE DropDisconnected \/ SlotLeaves
  <2>1. Listed' = Listed /\ iter' = iter /\ pc' = "connection" /\ iter \in Listed
    BY <1>6, DeletesUnderIterator DEF DropDisconnected, SlotLeaves, DeleteAt, passVars, Listed
  <2>2. QED
    BY <2>1 DEF PassInv
<1>7. CASE EndEntry
  <2>1. (iter' = NoEntry \/ iter' \in Listed') /\ pc' = "entry"
    BY <1>7, EndErases DEF EndEntry
  <2>2. QED
    BY <2>1 DEF PassInv
<1>8. CASE OperatorReturn
  BY <1>8 DEF PassInv, OperatorReturn
<1>9. CASE UNCHANGED <<gTimers, connections, pc, iter, at>>
  BY <1>9 DEF PassInv, Listed
<1>10. ASSUME \/ \E c \in Conns : Disconnect(c)
              \/ TimerEventEmpty \/ Tick \/ UNCHANGED vars
       PROVE  UNCHANGED <<gTimers, connections, pc, iter, at>>
  BY <1>10 DEF Disconnect, TimerEventEmpty, Tick, entryVars, passVars, vars
<1>11. QED
  BY <1>1, <1>2, <1>3, <1>4, <1>5, <1>6, <1>7, <1>8, <1>9, <1>10 DEF Next, OperatorStep

LEMMA SinceStep ==
  TypeOK /\ TypeOK' /\ EntriesInv /\ PassInv /\ SinceInv /\ [Next]_vars => SinceInv'
<1> SUFFICES ASSUME TypeOK, TypeOK', EntriesInv, PassInv, SinceInv, [Next]_vars
             PROVE  SinceInv'
  OBVIOUS
<1> DEFINE Begun(e) == pc \in {"connection", "slot"} /\ e = iter
<1>1. /\ Listed \subseteq Conns /\ MaxPeriod \in Nat
      /\ \A e \in Conns : /\ due[e] \in Int /\ since[e] \in Nat /\ milliseconds[e] \in Nat
                          /\ since[e] <= MaxPeriod
      /\ elapsed \in Nat
  <2>1. Listed \subseteq Conns
    BY ListedPlaces DEF TypeOK
  <2>2. \A e \in Conns : due[e] \in -MaxLate .. MaxPeriod /\ since[e] \in 0 .. MaxPeriod
    BY DEF TypeOK
  <2>3. \A e \in Conns : milliseconds[e] \in Nat
    <3>1. \A m \in Periods \cup {0} : m \in Nat
      BY LongestPeriod
    <3>2. QED
      BY <3>1 DEF TypeOK
  <2>4. elapsed \in Nat
    BY LongestPeriod DEF TypeOK
  <2>5. QED
    BY <2>1, <2>2, <2>3, <2>4, LongestPeriod
<1>2. \A e \in Listed :
         \/ since[e] = MaxPeriod
         \/ Begun(e) /\ since[e] >= elapsed
         \/ ~ Begun(e) /\ since[e] + due[e] >= milliseconds[e]
  BY DEF SinceInv, Waited
<1>3. SUFFICES ASSUME NEW e \in Listed'
               PROVE  \/ since'[e] = MaxPeriod
                      \/ Begun(e)' /\ since'[e] >= elapsed'
                      \/ ~ Begun(e)' /\ since'[e] + due'[e] >= milliseconds'[e]
  BY DEF SinceInv, Waited
<1>4. e \in Conns
  BY PlacesOfSet DEF TypeOK, Listed
<1>5. ASSUME NEW c \in Conns, NEW m \in Periods, NEW comb \in BOOLEAN, ConnectTo(c, m, comb)
      PROVE  \/ since'[e] = MaxPeriod
             \/ Begun(e)' /\ since'[e] >= elapsed'
             \/ ~ Begun(e)' /\ since'[e] + due'[e] >= milliseconds'[e]
  <2>1. UNCHANGED <<pc, iter, elapsed>>
    BY <1>5 DEF ConnectTo, passVars
  <2>2. CASE JoinEntry(c, m)
    <3>1. Listed' = Listed /\ UNCHANGED <<due, milliseconds, since>>
      BY <2>2 DEF JoinEntry, Listed
    <3>2. QED
      BY <1>2, <2>1, <3>1
  <2>3. CASE NewEntry(c, m, comb)
    <3>1. /\ since' = [since EXCEPT ![c] = 0]
          /\ due' = [due EXCEPT ![c] = m]
          /\ milliseconds' = [milliseconds EXCEPT ![c] = m]
      BY <2>3 DEF NewEntry
    <3>2. CASE e = c
      <4>1. c \notin Listed
        BY <1>5 DEF ConnectTo, EntriesInv
      <4>2. ~ Begun(c)
        BY <4>1 DEF PassInv
      <4>3. since'[c] = 0 /\ due'[c] = m /\ milliseconds'[c] = m /\ m \in Nat
        BY <3>1, LongestPeriod DEF TypeOK
      <4>4. QED
        BY <2>1, <3>2, <4>2, <4>3
    <3>3. CASE e # c
      <4>1. since'[e] = since[e] /\ due'[e] = due[e] /\ milliseconds'[e] = milliseconds[e]
        BY <1>4, <3>1, <3>3 DEF TypeOK
      <4>2. e \in Listed
        <5>1. PICK f \in Conns : /\ Listed' = Listed \cup {f} /\ (f \in Listed \/ f = c)
          BY <1>5, ConnectAppends
        <5>2. QED
          BY <3>3, <5>1
      <4>3. QED
        BY <1>2, <2>1, <4>1, <4>2
    <3>4. QED
      BY <3>2, <3>3
  <2>4. QED
    BY <1>5, <2>2, <2>3 DEF ConnectTo
<1>6. CASE BeginEntry
  <2>1. /\ pc = "entry" /\ pc' = "connection" /\ iter' = iter /\ elapsed' = 0
        /\ since' = [since EXCEPT ![iter] = 0] /\ Listed' = Listed
        /\ UNCHANGED <<due, milliseconds>>
    BY <1>6 DEF BeginEntry, entryVars, Listed
  <2>2. CASE e = iter
    <3>1. since'[e] = 0
      BY <1>4, <2>1, <2>2 DEF TypeOK
    <3>2. QED
      BY <2>1, <2>2, <3>1
  <2>3. CASE e # iter
    <3>1. since'[e] = since[e]
      BY <1>4, <2>1, <2>3 DEF TypeOK
    <3>2. QED
      BY <1>2, <2>1, <2>3, <3>1
  <2>4. QED
    BY <2>2, <2>3
<1>7. CASE EndEntry
  <2>1. iter \in Listed /\ iter \in Conns /\ pc = "connection" /\ pc' = "entry"
    BY <1>7, EndErases DEF EndEntry
  <2>2. CASE /\ Listed' = Listed
             /\ due' = [due EXCEPT ![iter] = milliseconds[iter] - elapsed]
             /\ UNCHANGED <<milliseconds, since>>
    <3>1. CASE e = iter
      <4>1. due'[e] = milliseconds[e] - elapsed
        BY <1>4, <2>2, <3>1 DEF TypeOK
      <4>2. since[e] = MaxPeriod \/ since[e] >= elapsed
        BY <1>2, <2>1, <3>1
      <4>3. QED
        BY <1>1, <1>4, <2>1, <2>2, <4>1, <4>2
    <3>2. CASE e # iter
      <4>1. due'[e] = due[e]
        BY <1>4, <2>2, <3>2 DEF TypeOK
      <4>2. QED
        BY <1>2, <2>1, <2>2, <3>2, <4>1
    <3>3. QED
      BY <3>1, <3>2
  <2>3. CASE /\ Listed' = Listed \ {iter}
             /\ due' = [due EXCEPT ![iter] = 0]
             /\ milliseconds' = [milliseconds EXCEPT ![iter] = 0]
             /\ since' = [since EXCEPT ![iter] = 0]
    <3>1. /\ e \in Listed /\ e # iter
          /\ due'[e] = due[e] /\ milliseconds'[e] = milliseconds[e] /\ since'[e] = since[e]
      BY <1>4, <2>3 DEF TypeOK
    <3>2. QED
      BY <1>2, <2>1, <3>1
  <2>4. QED
    BY <1>7, <2>2, <2>3, EndErases
<1>8. CASE Tick
  <2>1. /\ Listed' = Listed /\ UNCHANGED <<pc, iter, milliseconds>>
        /\ elapsed' = IF pc \in {"connection", "slot"} THEN elapsed + 1 ELSE elapsed
    BY <1>8 DEF Tick, Listed
  <2>2. e \in Listed
    BY <2>1
  <2>3. /\ due'[e] = due[e] - 1
        /\ since'[e] = IF since[e] < MaxPeriod THEN since[e] + 1 ELSE since[e]
    BY <1>4, <1>8, <2>2 DEF Tick
  <2>4. CASE since[e] = MaxPeriod
    BY <1>1, <2>3, <2>4
  <2>5. CASE since[e] # MaxPeriod
    <3>1. since'[e] = since[e] + 1
      BY <1>1, <1>4, <2>3, <2>5
    <3>2. CASE Begun(e)
      BY <1>1, <1>2, <1>4, <2>1, <2>2, <2>5, <3>1, <3>2
    <3>3. CASE ~ Begun(e)
      BY <1>1, <1>2, <1>4, <2>1, <2>2, <2>3, <2>5, <3>1, <3>3
    <3>4. QED
      BY <3>2, <3>3
  <2>6. QED
    BY <2>4, <2>5
<1>9. ASSUME \/ \E c \in Conns : Disconnect(c)
             \/ TimerEvent \/ TimerEventEmpty \/ CallSlot \/ SlotKeeps
             \/ DropDisconnected \/ SlotLeaves \/ OperatorReturn \/ UNCHANGED vars
      PROVE  \/ since'[e] = MaxPeriod
             \/ Begun(e)' /\ since'[e] >= elapsed'
             \/ ~ Begun(e)' /\ since'[e] + due'[e] >= milliseconds'[e]
  <2>1. UNCHANGED <<due, milliseconds, since, elapsed>>
    BY <1>9 DEF Disconnect, TimerEvent, TimerEventEmpty, CallSlot, SlotKeeps, DropDisconnected,
                SlotLeaves, DeleteAt, OperatorReturn, entryVars, passVars, vars
  <2>2. Listed' = Listed
    <3>1. CASE OperatorReturn
      BY <3>1, ReturnSorts
    <3>2. CASE gTimers' = gTimers
      BY <3>2 DEF Listed
    <3>3. QED
      BY <1>9, <3>1, <3>2 DEF Disconnect, TimerEvent, TimerEventEmpty, CallSlot, SlotKeeps,
             DropDisconnected, SlotLeaves, DeleteAt, entryVars, vars
  <2>3. Begun(e)' <=> Begun(e)
    BY <1>9 DEF Disconnect, TimerEvent, TimerEventEmpty, CallSlot, SlotKeeps, DropDisconnected,
                SlotLeaves, OperatorReturn, passVars, vars
  <2>4. QED
    BY <1>2, <2>1, <2>2, <2>3
<1>10. QED
  BY <1>5, <1>6, <1>7, <1>8, <1>9 DEF Next, OperatorStep

LEMMA FrontStep ==
  TypeOK /\ TypeOK' /\ EntriesInv /\ PassInv /\ AlarmIsFront /\ [Next]_vars => AlarmIsFront'
<1> SUFFICES ASSUME TypeOK, TypeOK', EntriesInv, PassInv, AlarmIsFront, [Next]_vars,
                    pc' = "idle", gTimers' # <<>>
             PROVE  /\ alarm' = due'[Head(gTimers')]
                    /\ \A i, j \in 1 .. Len(gTimers') :
                          i < j => due'[gTimers'[i]] <= due'[gTimers'[j]]
  <2>1. DOMAIN gTimers' = 1 .. Len(gTimers')
    BY LenProperties DEF TypeOK
  <2>2. QED
    BY <2>1 DEF AlarmIsFront
<1>1. ASSUME pc = "idle", gTimers # <<>>
      PROVE  /\ alarm = due[Head(gTimers)]
             /\ \A i, j \in 1 .. Len(gTimers) :
                   i < j => due[gTimers[i]] <= due[gTimers[j]]
  BY <1>1, ListedPlaces DEF AlarmIsFront, TypeOK
<1>2. /\ gTimers' \in Seq(Conns) /\ Head(gTimers') = gTimers'[1]
      /\ Len(gTimers') \in Nat /\ 1 \in 1 .. Len(gTimers')
      /\ \A f : f \in Listed' <=> \E i \in 1 .. Len(gTimers') : gTimers'[i] = f
      /\ Head(gTimers') \in Listed' /\ Listed' \subseteq Conns
  <2>1. gTimers' \in Seq(Conns)
    BY DEF TypeOK
  <2>2. Head(gTimers') = gTimers'[1] /\ Len(gTimers') # 0 /\ Len(gTimers') \in Nat
    BY <2>1, HeadTailProperties, EmptySeq, LenProperties
  <2>3. /\ \A f : f \in Listed' <=> \E i \in 1 .. Len(gTimers') : gTimers'[i] = f
        /\ Listed' \subseteq Conns
    BY <2>1, PlacesOfSet DEF Listed
  <2>4. QED
    BY <2>1, <2>2, <2>3
<1>3. /\ \A f \in Conns : due[f] \in Int /\ due'[f] \in Int
      /\ Listed \subseteq Conns
  <2>1. \A i \in -MaxLate .. MaxPeriod : i \in Int
    BY LongestPeriod
  <2>2. Listed \subseteq Conns
    BY ListedPlaces DEF TypeOK
  <2>3. QED
    BY <2>1, <2>2 DEF TypeOK
<1>4. ASSUME NEW c \in Conns, NEW m \in Periods, NEW comb \in BOOLEAN, ConnectTo(c, m, comb)
      PROVE  /\ alarm' = due'[Head(gTimers')]
             /\ \A i, j \in 1 .. Len(gTimers') :
                   i < j => due'[gTimers'[i]] <= due'[gTimers'[j]]
  <2>1. pc = "idle"
    BY <1>4 DEF ConnectTo, passVars
  <2>2. CASE JoinEntry(c, m)
    BY <1>1, <2>1, <2>2 DEF JoinEntry
  <2>3. CASE NewEntry(c, m, comb)
    <3>1. c \notin Listed /\ c \in Conns
      BY <1>4 DEF ConnectTo, EntriesInv
    <3>2. due' \in [Conns -> Int] /\ due' = [due EXCEPT ![c] = m]
      BY <1>3, <2>3 DEF NewEntry, TypeOK
    <3>3. gTimers' = SortedByDue(<<c>> \o gTimers, due')
      BY <2>3 DEF NewEntry
    <3>4. /\ Listed' = Listed \cup {c}
          /\ \A i, j \in 1 .. Len(gTimers') :
                i < j => due'[gTimers'[i]] <= due'[gTimers'[j]]
      BY <3>1, <3>2, <3>3, NewEntryIsListed DEF TypeOK, EntriesInv
    <3>5. \A f \in Listed' : due'[Head(gTimers')] <= due'[f]
      <4>1. ASSUME NEW f \in Listed'
            PROVE  due'[Head(gTimers')] <= due'[f]
        <5>1. PICK i \in 1 .. Len(gTimers') : gTimers'[i] = f
          BY <1>2
        <5>2. i = 1 \/ 1 < i
          BY <1>2
        <5>3. due'[f] \in Int
          BY <1>2, <1>3
        <5>4. QED
          BY <1>2, <3>4, <5>1, <5>2, <5>3
      <4>2. QED
        BY <4>1
    <3>6. CASE gTimers # <<>>
      <4>1. /\ alarm = due[Head(gTimers)] /\ Head(gTimers) \in Listed
        BY <1>1, <2>1, <3>6, ListedPlaces DEF TypeOK
      <4>2. due'[Head(gTimers)] = due[Head(gTimers)]
        BY <1>3, <3>1, <3>2, <4>1
      <4>3. due'[Head(gTimers')] <= due[Head(gTimers)]
        BY <3>4, <3>5, <4>1, <4>2
      <4>4. due'[Head(gTimers')] \in Int /\ due[Head(gTimers)] \in Int
        BY <1>2, <1>3, <4>1
      <4>5. alarm' = IF due'[Head(gTimers')] < due[Head(gTimers)]
                     THEN due'[Head(gTimers')] ELSE alarm
        BY <2>3, <3>6 DEF NewEntry
      <4>6. QED
        BY <3>4, <4>1, <4>3, <4>4, <4>5
    <3>7. CASE gTimers = <<>>
      BY <2>3, <3>4, <3>7 DEF NewEntry
    <3>8. QED
      BY <3>6, <3>7
  <2>4. QED
    BY <1>4, <2>2, <2>3 DEF ConnectTo
<1>5. CASE OperatorReturn
  <2>1. /\ Listed' = Listed /\ due' = due
        /\ \A i, j \in 1 .. Len(gTimers') : i < j => due[gTimers'[i]] <= due[gTimers'[j]]
    BY <1>5, ReturnSorts DEF OperatorReturn
  <2>2. gTimers # <<>>
    BY <1>2, <2>1, ListedPlaces DEF TypeOK
  <2>3. alarm' = due[Head(gTimers')]
    BY <1>5, <2>2 DEF OperatorReturn
  <2>4. QED
    BY <2>1, <2>3
<1>6. CASE Tick
  <2>1. pc = "idle" /\ gTimers' = gTimers /\ gTimers # <<>>
    BY <1>6 DEF Tick
  <2>2. \A f \in Listed : due'[f] = due[f] - 1 /\ due[f] > -MaxLate
    BY <1>3, <1>6 DEF Tick
  <2>3. Listed' = Listed
    BY <2>1 DEF Listed
  <2>4. alarm = due[Head(gTimers)] /\ alarm > -MaxLate
    BY <1>1, <1>2, <2>1, <2>2, <2>3
  <2>5. alarm' = due'[Head(gTimers')]
    BY <1>2, <1>6, <2>1, <2>2, <2>3, <2>4 DEF Tick
  <2>6. ASSUME NEW i \in 1 .. Len(gTimers), NEW j \in 1 .. Len(gTimers), i < j
        PROVE  due'[gTimers[i]] <= due'[gTimers[j]]
    <3>1. gTimers[i] \in Listed /\ gTimers[j] \in Listed
      BY <1>2, <2>1, <2>3
    <3>2. due[gTimers[i]] <= due[gTimers[j]]
      BY <1>1, <2>1, <2>6
    <3>3. due[gTimers[i]] \in Int /\ due[gTimers[j]] \in Int
      BY <1>3, <3>1
    <3>4. QED
      BY <2>2, <3>1, <3>2, <3>3
  <2>7. QED
    BY <2>1, <2>5, <2>6
<1>7. CASE TimerEventEmpty
  BY <1>7 DEF TimerEventEmpty, entryVars
<1>8. CASE UNCHANGED <<gTimers, due, alarm, pc>>
  BY <1>1, <1>8
<1>9. ASSUME (\E c \in Conns : Disconnect(c)) \/ UNCHANGED vars
      PROVE  UNCHANGED <<gTimers, due, alarm, pc>>
  BY <1>9 DEF Disconnect, entryVars, passVars, vars
<1>10. ~ (\/ TimerEvent \/ BeginEntry \/ CallSlot \/ DropDisconnected \/ SlotKeeps \/ SlotLeaves
          \/ EndEntry)
  BY DEF TimerEvent, BeginEntry, CallSlot, DropDisconnected, SlotKeeps, SlotLeaves, EndEntry,
         passVars
<1>11. QED
  BY <1>4, <1>5, <1>6, <1>7, <1>8, <1>9, <1>10 DEF Next, OperatorStep

LEMMA PeriodStep ==
  TypeOK /\ EntriesInv /\ PassInv /\ OneOfAPeriod /\ [Next]_vars => OneOfAPeriod'
<1> SUFFICES ASSUME TypeOK, EntriesInv, PassInv, OneOfAPeriod, [Next]_vars
             PROVE  OneOfAPeriod'
  OBVIOUS
<1>1. Listed \subseteq Conns
  BY ListedPlaces DEF TypeOK
<1>2. ASSUME NEW c \in Conns, NEW m \in Periods, NEW comb \in BOOLEAN, ConnectTo(c, m, comb)
      PROVE  OneOfAPeriod'
  <2>1. CASE JoinEntry(c, m)
    BY <2>1 DEF JoinEntry, OneOfAPeriod, Listed
  <2>2. CASE NewEntry(c, m, comb) /\ ~ (comb /\ Combinable(m) # {})
    <3>1. c \notin Listed
      BY <1>2 DEF ConnectTo, EntriesInv
    <3>2. PICK f \in Conns : Listed' = Listed \cup {f} /\ (f \in Listed \/ f = c)
      BY <1>2, ConnectAppends
    <3>3. Listed' \subseteq Listed \cup {c}
      BY <3>2
    <3>4. /\ \A e \in Listed : combine'[e] = combine[e] /\ milliseconds'[e] = milliseconds[e]
          /\ combine'[c] = comb /\ milliseconds'[c] = m
      BY <1>1, <2>2, <3>1 DEF NewEntry, TypeOK
    <3>5. ASSUME NEW e \in Listed, combine[e], milliseconds[e] = m
          PROVE  ~ comb
      <4>1. PICK i \in DOMAIN gTimers : gTimers[i] = e
        BY ListedPlaces DEF TypeOK
      <4>2. i \in Combinable(m)
        BY <3>5, <4>1 DEF Combinable
      <4>3. QED
        BY <2>2, <4>2
    <3>6. QED
      BY <3>3, <3>4, <3>5 DEF OneOfAPeriod
  <2>3. QED
    BY <1>2, <2>1, <2>2 DEF ConnectTo
<1>3. CASE EndEntry
  <2>1. \/ /\ Listed' = Listed /\ UNCHANGED <<milliseconds, combine>>
        \/ /\ Listed' = Listed \ {iter}
           /\ milliseconds' = [milliseconds EXCEPT ![iter] = 0]
           /\ combine' = [combine EXCEPT ![iter] = FALSE]
    BY <1>3, EndErases
  <2>2. \A e \in Listed' :
           e \in Listed /\ combine'[e] = combine[e] /\ milliseconds'[e] = milliseconds[e]
    BY <1>1, <2>1 DEF TypeOK
  <2>3. QED
    BY <2>2 DEF OneOfAPeriod
<1>4. CASE OperatorReturn
  BY <1>4, ReturnSorts DEF OperatorReturn, OneOfAPeriod
<1>5. CASE UNCHANGED <<gTimers, milliseconds, combine>>
  BY <1>5 DEF OneOfAPeriod, Listed
<1>6. ASSUME \/ \E c \in Conns : Disconnect(c)
             \/ TimerEvent \/ TimerEventEmpty \/ BeginEntry \/ CallSlot \/ SlotKeeps
             \/ DropDisconnected \/ SlotLeaves \/ Tick \/ UNCHANGED vars
      PROVE  UNCHANGED <<gTimers, milliseconds, combine>>
  BY <1>6 DEF Disconnect, TimerEvent, TimerEventEmpty, BeginEntry, CallSlot, SlotKeeps,
              DropDisconnected, SlotLeaves, DeleteAt, Tick, entryVars, vars
<1>7. QED
  BY <1>2, <1>3, <1>4, <1>5, <1>6 DEF Next, OperatorStep

-----------------------------------------------------------------------------
(* The theorems.                                                            *)

LEMMA IInvStep == IInv /\ [Next]_vars => IInv'
<1> SUFFICES ASSUME IInv, [Next]_vars
             PROVE  IInv'
  OBVIOUS
<1>1. TypeOK'
  BY TypeStep DEF IInv
<1>2. EntriesInv' /\ PlacesInv' /\ PassInv'
  BY EntriesStep, PlacesStep, PassStep DEF IInv
<1>3. SinceInv' /\ AlarmIsFront' /\ OneOfAPeriod'
  BY <1>1, SinceStep, FrontStep, PeriodStep DEF IInv
<1>4. QED
  BY <1>1, <1>2, <1>3 DEF IInv

LEMMA IInvHolds == Spec => []IInv
<1>1. QED
  BY InitIInv, IInvStep, PTL DEF Spec

LEMMA IInvLists == IInv => ListInv
<1> SUFFICES ASSUME IInv
             PROVE  ListInv
  OBVIOUS
<1>1. TypeOK /\ EntriesInv /\ PlacesInv /\ AlarmIsFront /\ OneOfAPeriod
  BY DEF IInv
<1>2. /\ DOMAIN gTimers = 1 .. Len(gTimers) /\ Listed \subseteq Conns
      /\ \A i \in 1 .. Len(gTimers) : gTimers[i] \in Listed
  BY <1>1, ListedPlaces DEF TypeOK
<1>3. \A e \in Conns : DOMAIN connections[e] = 1 .. Len(connections[e])
  BY <1>1, LenProperties DEF TypeOK
<1>4. ASSUME NEW c \in Conns, state[c] = "connected"
      PROVE  \E e \in Listed : \E i \in DOMAIN connections[e] :
                /\ connections[e][i] = c
                /\ \A f \in Listed : \A j \in DOMAIN connections[f] :
                      connections[f][j] = c => f = e /\ j = i
  <2>1. PICK e \in Listed : \E i \in 1 .. Len(connections[e]) : connections[e][i] = c
    BY <1>1, <1>4 DEF PlacesInv
  <2>2. PICK i \in 1 .. Len(connections[e]) : connections[e][i] = c
    BY <2>1
  <2>3. ASSUME NEW f \in Listed, NEW j \in DOMAIN connections[f], connections[f][j] = c
        PROVE  f = e /\ j = i
    <3>1. f \in Conns /\ e \in Conns /\ j \in 1 .. Len(connections[f])
      BY <1>2, <1>3
    <3>2. connections[f][j] = connections[e][i]
      BY <2>2, <2>3
    <3>3. QED
      BY <1>1, <3>1, <3>2 DEF PlacesInv
  <2>4. QED
    BY <1>2, <1>3, <2>2, <2>3
<1>5. ConnectedIsListed
  BY <1>4 DEF ConnectedIsListed
<1>6. OneCombinedEntry
  BY <1>1, <1>2 DEF OneCombinedEntry, OneOfAPeriod, EntriesInv, Distinct
<1>7. QED
  BY <1>1, <1>5, <1>6 DEF ListInv

\* The list stays in order and whole: outside operator() (GeneralTimer.cpp) the
\* alarm stands at the entry that is due first, and every connection nobody
\* disconnected is in one entry, once, however slots connect and disconnect
\* timers while the list is iterated over.
THEOREM ListStaysWhole == Spec => []ListInv
<1>1. QED
  BY IInvHolds, IInvLists, PTL

\* An entry begins no earlier than its period, less the 10 ms, after it was
\* made or began last, whatever was combined, re-sorted or late in between.
THEOREM PeriodIsKept == Spec => PeriodKept
<1>1. IInv /\ [Next]_vars => [BeginEntry => since[iter] >= milliseconds[iter] - Grace]_vars
  <2> SUFFICES ASSUME IInv, BeginEntry
               PROVE  since[iter] >= milliseconds[iter] - Grace
    OBVIOUS
  <2>1. iter \in Listed /\ due[iter] <= Grace /\ pc = "entry"
    BY DEF IInv, BeginEntry, EntryIsDue, PassInv
  <2>2. since[iter] = MaxPeriod \/ since[iter] + due[iter] >= milliseconds[iter]
    BY <2>1 DEF IInv, SinceInv, Waited
  <2>3. iter \in Conns
    BY <2>1, ListedPlaces DEF IInv, TypeOK
  <2>4. due[iter] \in Int /\ since[iter] \in Nat /\ Grace \in Nat
    BY <2>3, LongestPeriod DEF IInv, TypeOK
  <2>5. milliseconds[iter] \in Nat /\ milliseconds[iter] <= MaxPeriod
    BY <2>1, LongestPeriod DEF IInv, EntriesInv
  <2>6. QED
    BY <2>1, <2>2, <2>4, <2>5, LongestPeriod
<1>2. QED
  BY IInvHolds, <1>1, PTL DEF Spec, PeriodKept
=============================================================================
