------------------------ MODULE FeedSelection_Proofs -------------------------
(***************************************************************************)
(* The windows of every feed at every instant, and what a cycle's          *)
(* selection is, for any inventory, page size, limit and allowance and     *)
(* however the inventory changes while it is listed.                       *)
(*                                                                         *)
(* The order of the due feeds is an argument about counting: the feed at   *)
(* place k is the one with fewer than k rows ahead of it and at least k    *)
(* rows that are not behind it, and neither number depends on the order    *)
(* in which the rows came.                                                 *)
(***************************************************************************)
EXTENDS FeedSelection, SequenceTheorems, FiniteSetTheorems, TLAPS

-----------------------------------------------------------------------------
(* Windows                                                                 *)

(* Integer division by a positive number, as the proofs need it.           *)
LEMMA Division ==
    ASSUME NEW n \in Nat, NEW d \in Nat \ {0}
    PROVE  /\ n \div d \in Nat
           /\ (n \div d) * d \in Nat
           /\ (n \div d) * d <= n
           /\ n < (n \div d) * d + d
  OBVIOUS

LEMMA Multiples ==
    ASSUME NEW a \in Nat, NEW b \in Nat, NEW d \in Nat \ {0}, a < b
    PROVE  a * d + d <= b * d
  <1>1. (b - a) * d >= d
    OBVIOUS
  <1>2. (b - a) * d = b * d - a * d
    OBVIOUS
  <1> QED BY <1>1, <1>2

(* A multiple of d within a distance of d from n is the quotient's.        *)
LEMMA OneQuotient ==
    ASSUME NEW n \in Nat, NEW d \in Nat \ {0}, NEW k \in Nat,
           k * d <= n, n < k * d + d
    PROVE  k = n \div d
  <1> DEFINE q == n \div d
  <1>1. q \in Nat /\ q * d \in Nat /\ k * d \in Nat /\ q * d <= n /\ n < q * d + d
    BY Division
  <1>2. ~(k < q)
    BY <1>1, Multiples
  <1>3. ~(q < k)
    BY <1>1, Multiples
  <1> QED BY <1>1, <1>2, <1>3

(* The windows of a feed tile time: an instant lies in the window it is    *)
(* given, and two instants have the same window exactly when the one lies  *)
(* in the other's.  So the key tells windows apart and nothing else.       *)
THEOREM WindowsTile ==
    ASSUME NEW feed \in Feed, NEW s \in Nat, NEW t \in Nat
    PROVE  /\ WindowStart(feed, t) <= t /\ t < WindowEnd(feed, t)
           /\ WindowStart(feed, s) = WindowStart(feed, t)
                 <=> WindowStart(feed, t) <= s /\ s < WindowEnd(feed, t)
  <1> DEFINE d == feed.cadence
             q == t \div d
  <1>1. d \in Nat \ {0}
    BY DEF Feed
  <1>2. q \in Nat /\ q * d \in Nat /\ q * d <= t /\ t < q * d + d
    BY <1>1, Division
  <1>3. (s \div d) * d <= s /\ s < (s \div d) * d + d
    BY <1>1, Division
  <1>4. q * d <= s /\ s < q * d + d => q = s \div d
    BY <1>1, <1>2, OneQuotient
  <1> QED BY <1>2, <1>3, <1>4 DEF WindowStart, WindowEnd

-----------------------------------------------------------------------------
(* The order of the due feeds                                              *)

(* Every feed that the backend lists is due.                               *)
LEMMA ListedIsDue ==
    ASSUME NEW feeds
    PROVE  DueRows(feeds) = DOMAIN feeds
  <1>1. \A f : Due(Definition(f), 0)
    BY DEF Due, Evaluate, Definition, BacksOff, NextEligibleAt, Undefined
  <1> QED BY <1>1 DEF DueRows

LEMMA RowsToSelect ==
    ASSUME NEW s \in Seq(Nat)
    PROVE  /\ DueRows(s) = DOMAIN s
           /\ IsFiniteSet(DOMAIN s) /\ Cardinality(DOMAIN s) = Len(s) /\ Len(s) \in Nat
  <1>1. Len(s) \in Nat /\ DOMAIN s = 1..Len(s)
    OBVIOUS
  <1>2. ASSUME NEW n \in Nat PROVE IsFiniteSet(1..n) /\ Cardinality(1..n) = n
    BY FS_Interval
  <1> QED BY <1>1, <1>2, ListedIsDue

(* compareDueFeeds tells any two feeds apart.                              *)
LEMMA PrecedesIsTotal ==
    ASSUME NEW f \in Nat, NEW g \in Nat
    PROVE  /\ ~Precedes(f, f)
           /\ ~(Precedes(f, g) /\ Precedes(g, f))
           /\ f = g \/ Precedes(f, g) \/ Precedes(g, f)
  BY DEF Precedes, Priority

LEMMA PrecedesIsTransitive ==
    ASSUME NEW f \in Nat, NEW g \in Nat, NEW h \in Nat, Precedes(f, g), Precedes(g, h)
    PROVE  Precedes(f, h)
  BY DEF Precedes, Priority

(* The same of rows, which keep their order when their feeds are the same. *)
LEMMA BeforeIsTotal ==
    ASSUME NEW s \in Seq(Nat), NEW i \in DOMAIN s, NEW j \in DOMAIN s
    PROVE  /\ ~Before(s, i, i)
           /\ ~(Before(s, i, j) /\ Before(s, j, i))
           /\ i = j \/ Before(s, i, j) \/ Before(s, j, i)
  <1>1. s[i] \in Nat /\ s[j] \in Nat /\ i \in Int /\ j \in Int
    OBVIOUS
  <1> QED BY <1>1, PrecedesIsTotal DEF Before

LEMMA BeforeIsTransitive ==
    ASSUME NEW s \in Seq(Nat), NEW i \in DOMAIN s, NEW j \in DOMAIN s, NEW k \in DOMAIN s,
           Before(s, i, j), Before(s, j, k)
    PROVE  Before(s, i, k)
  <1>1. s[i] \in Nat /\ s[j] \in Nat /\ s[k] \in Nat /\ i \in Int /\ j \in Int /\ k \in Int
    OBVIOUS
  <1> QED BY <1>1 DEF Before, Precedes, Priority

RowsBefore(s, i) == {j \in DOMAIN s : Before(s, j, i)}

LEMMA RankIsAPlace ==
    ASSUME NEW s \in Seq(Nat), NEW i \in DOMAIN s
    PROVE  /\ Rank(s, i) = Cardinality(RowsBefore(s, i)) + 1
           /\ IsFiniteSet(RowsBefore(s, i))
           /\ Rank(s, i) \in 1..Len(s)
  <1>1. IsFiniteSet(DOMAIN s) /\ Cardinality(DOMAIN s) = Len(s)
    BY RowsToSelect
  <1>2. RowsBefore(s, i) \subseteq DOMAIN s /\ RowsBefore(s, i) # DOMAIN s
    BY BeforeIsTotal DEF RowsBefore
  <1>3. /\ IsFiniteSet(RowsBefore(s, i))
        /\ Cardinality(RowsBefore(s, i)) \in Nat
        /\ Cardinality(RowsBefore(s, i)) <= Len(s)
        /\ Cardinality(RowsBefore(s, i)) # Len(s)
    BY <1>1, <1>2, FS_Subset, FS_CardinalityType
  <1>4. Rank(s, i) = Cardinality(RowsBefore(s, i)) + 1
    BY ListedIsDue DEF Rank, RowsBefore
  <1> QED BY <1>3, <1>4

LEMMA RankOrders ==
    ASSUME NEW s \in Seq(Nat), NEW i \in DOMAIN s, NEW j \in DOMAIN s, Before(s, i, j)
    PROVE  Rank(s, i) < Rank(s, j)
  <1>1. RowsBefore(s, i) \subseteq RowsBefore(s, j)
    BY BeforeIsTransitive DEF RowsBefore
  <1>2. i \in RowsBefore(s, j) /\ i \notin RowsBefore(s, i)
    BY BeforeIsTotal DEF RowsBefore
  <1>3. Cardinality(RowsBefore(s, i)) <= Cardinality(RowsBefore(s, j))
        /\ Cardinality(RowsBefore(s, i)) # Cardinality(RowsBefore(s, j))
    BY <1>1, <1>2, FS_Subset, RankIsAPlace
  <1>4. Cardinality(RowsBefore(s, i)) \in Nat /\ Cardinality(RowsBefore(s, j)) \in Nat
    BY RankIsAPlace, FS_CardinalityType
  <1> QED BY <1>3, <1>4, RankIsAPlace

(* So every place is some row's.                                           *)
LEMMA PlaceIsTaken ==
    ASSUME NEW s \in Seq(Nat), NEW k \in 1..Len(s)
    PROVE  \E i \in DOMAIN s : Rank(s, i) = k
  <1> DEFINE R == [i \in DOMAIN s |-> Rank(s, i)]
  <1>1. R \in [DOMAIN s -> 1..Len(s)]
    BY RankIsAPlace
  <1>2. ASSUME NEW i \in DOMAIN s, NEW j \in DOMAIN s, R[i] = R[j]
        PROVE  i = j
    <2>1. Rank(s, i) = Rank(s, j) /\ Rank(s, i) \in Int /\ Rank(s, j) \in Int
      BY <1>2, RankIsAPlace
    <2> QED BY <2>1, BeforeIsTotal, RankOrders
  <1>3. R \in Injection(DOMAIN s, 1..Len(s))
    BY <1>1, <1>2 DEF Injection, IsInjective
  <1>4. IsFiniteSet(1..Len(s)) /\ DOMAIN s = 1..Len(s)
    BY FS_Interval
  <1>5. R \in Surjection(DOMAIN s, 1..Len(s))
    BY <1>3, <1>4, FS_Injection
  <1> QED BY <1>5 DEF Surjection

Ahead(s, f) == {i \in DOMAIN s : Precedes(s[i], f)}
NotBehind(s, f) == {i \in DOMAIN s : ~Precedes(f, s[i])}

LEMMA CountsAreFinite ==
    ASSUME NEW s \in Seq(Nat), NEW f
    PROVE  /\ IsFiniteSet(Ahead(s, f)) /\ Cardinality(Ahead(s, f)) \in Nat
           /\ IsFiniteSet(NotBehind(s, f)) /\ Cardinality(NotBehind(s, f)) \in Nat
  <1>1. IsFiniteSet(DOMAIN s)
    BY RowsToSelect
  <1>2. Ahead(s, f) \subseteq DOMAIN s /\ NotBehind(s, f) \subseteq DOMAIN s
    BY DEF Ahead, NotBehind
  <1> QED BY <1>1, <1>2, FS_Subset, FS_CardinalityType

(* The place of a feed is told by how many rows there are ahead of it.     *)
LEMMA SelectedAt ==
    ASSUME NEW s \in Seq(Nat), NEW k \in 1..Len(s)
    PROVE  /\ Selected(s)[k] \in ToSet(s)
           /\ Cardinality(Ahead(s, Selected(s)[k])) < k
           /\ k <= Cardinality(NotBehind(s, Selected(s)[k]))
  <1>1. DueRows(s) = DOMAIN s /\ Cardinality(DOMAIN s) = Len(s)
    BY RowsToSelect
  <1>2. PICK i \in DOMAIN s : Rank(s, i) = k /\ Selected(s)[k] = s[i]
    BY <1>1, PlaceIsTaken DEF Selected
  <1>3. s[i] \in Nat
    OBVIOUS
  <1>4. Cardinality(Ahead(s, s[i])) <= Cardinality(RowsBefore(s, i))
    <2>1. Ahead(s, s[i]) \subseteq RowsBefore(s, i)
      BY DEF Ahead, RowsBefore, Before
    <2> QED BY <2>1, RankIsAPlace, FS_Subset
  <1>5. Cardinality(RowsBefore(s, i)) + 1 <= Cardinality(NotBehind(s, s[i]))
    <2>1. RowsBefore(s, i) \cup {i} \subseteq NotBehind(s, s[i])
      <3>1. i \in NotBehind(s, s[i])
        BY <1>3, PrecedesIsTotal DEF NotBehind
      <3>2. ASSUME NEW j \in RowsBefore(s, i) PROVE j \in NotBehind(s, s[i])
        <4>1. j \in DOMAIN s /\ s[j] \in Nat /\ Before(s, j, i)
          BY DEF RowsBefore
        <4> QED BY <1>3, <4>1, PrecedesIsTotal DEF NotBehind, Before
      <3> QED BY <3>1, <3>2
    <2>2. i \notin RowsBefore(s, i)
      BY BeforeIsTotal DEF RowsBefore
    <2>3. Cardinality(RowsBefore(s, i) \cup {i}) = Cardinality(RowsBefore(s, i)) + 1
      BY <2>2, RankIsAPlace, FS_AddElement
    <2> QED BY <2>1, <2>3, CountsAreFinite, FS_Subset
  <1>6. /\ Cardinality(Ahead(s, s[i])) \in Nat /\ Cardinality(NotBehind(s, s[i])) \in Nat
        /\ Cardinality(RowsBefore(s, i)) \in Nat /\ k \in Nat
        /\ k = Cardinality(RowsBefore(s, i)) + 1
    BY <1>2, CountsAreFinite, RankIsAPlace, FS_CardinalityType
  <1>7. s[i] \in ToSet(s)
    BY DEF ToSet
  <1> QED BY <1>2, <1>4, <1>5, <1>6, <1>7

(* One feed fits a place.                                                  *)
LEMMA PlaceIsItsOwn ==
    ASSUME NEW s \in Seq(Nat), NEW f \in Nat, NEW g \in Nat, Precedes(f, g)
    PROVE  Cardinality(NotBehind(s, f)) <= Cardinality(Ahead(s, g))
  <1>1. NotBehind(s, f) \subseteq Ahead(s, g)
    <2>1. SUFFICES ASSUME NEW i \in DOMAIN s, ~Precedes(f, s[i])
                   PROVE  Precedes(s[i], g)
      BY DEF NotBehind, Ahead
    <2>2. s[i] \in Nat
      OBVIOUS
    <2> QED BY <2>1, <2>2, PrecedesIsTotal, PrecedesIsTransitive
  <1> QED BY <1>1, CountsAreFinite, FS_Subset

LEMMA SelectedIsSeq ==
    ASSUME NEW S \in SUBSET Nat, NEW s \in Seq(S)
    PROVE  /\ Selected(s) \in Seq(S) /\ Len(Selected(s)) = Len(s)
           /\ Selected(s) = [k \in 1..Len(s) |-> Selected(s)[k]]
  <1>1. s \in Seq(Nat) /\ ToSet(s) \subseteq S
    <2>1. Len(s) \in Nat /\ s = [i \in 1..Len(s) |-> s[i]] /\ \A i \in 1..Len(s) : s[i] \in S
      OBVIOUS
    <2>2. \A i \in 1..Len(s) : s[i] \in Nat
      BY <2>1
    <2> QED BY <2>1, <2>2 DEF ToSet
  <1>2. DueRows(s) = DOMAIN s /\ Cardinality(DOMAIN s) = Len(s) /\ Len(s) \in Nat
    BY <1>1, RowsToSelect
  <1>3. Selected(s) = [k \in 1..Len(s) |-> Selected(s)[k]]
    BY <1>2 DEF Selected
  <1>4. \A k \in 1..Len(s) : Selected(s)[k] \in S
    BY <1>1, SelectedAt
  <1> HIDE DEF Selected
  <1> QED BY <1>2, <1>3, <1>4

(* The selection is sorted.                                                *)
LEMMA SelectedIsSorted ==
    ASSUME NEW s \in Seq(Nat), NEW k \in 1..Len(s), NEW l \in 1..Len(s), k < l
    PROVE  ~Precedes(Selected(s)[l], Selected(s)[k])
  <1> DEFINE f == Selected(s)[l]
             g == Selected(s)[k]
  <1>1. f \in Nat /\ g \in Nat
    <2>1. ToSet(s) \subseteq Nat
      BY DEF ToSet
    <2> QED BY <2>1, SelectedAt
  <1>2. l <= Cardinality(NotBehind(s, f)) /\ Cardinality(Ahead(s, g)) < k
    BY SelectedAt
  <1>3. Cardinality(NotBehind(s, f)) \in Nat /\ Cardinality(Ahead(s, g)) \in Nat
    BY CountsAreFinite
  <1> HIDE DEF f, g
  <1> SUFFICES ~Precedes(f, g)
    BY DEF f, g
  <1> QED BY <1>1, <1>2, <1>3, PlaceIsItsOwn

(* What matters is how many rows a feed has, not where.                    *)
LEMMA SelectedIsUnordered ==
    ASSUME NEW s \in Seq(Nat), NEW p \in Bijection(DOMAIN s, DOMAIN s)
    PROVE  Selected([i \in DOMAIN s |-> s[p[i]]]) = Selected(s)
  <1> DEFINE t == [i \in DOMAIN s |-> s[p[i]]]
  <1>1. /\ p \in [DOMAIN s -> DOMAIN s]
        /\ \A i, j \in DOMAIN s : p[i] = p[j] => i = j
        /\ \A j \in DOMAIN s : \E i \in DOMAIN s : p[i] = j
    BY DEF Bijection, Injection, Surjection, IsInjective
  <1>2. t \in Seq(Nat) /\ DOMAIN t = DOMAIN s /\ Len(t) = Len(s)
    BY <1>1
  <1>3. ASSUME NEW A, NEW B, A \subseteq DOMAIN s, B \subseteq DOMAIN s,
               \A i \in DOMAIN s : i \in A <=> p[i] \in B
        PROVE  Cardinality(A) = Cardinality(B)
    <2> DEFINE q == [i \in A |-> p[i]]
    <2>1. q \in [A -> B]
      BY <1>1, <1>3
    <2>2. \A i, j \in A : q[i] = q[j] => i = j
      BY <1>1, <1>3
    <2>3. \A j \in B : \E i \in A : q[i] = j
      BY <1>1, <1>3
    <2>4. q \in Bijection(A, B)
      BY <2>1, <2>2, <2>3 DEF Bijection, Injection, Surjection, IsInjective
    <2>5. IsFiniteSet(A)
      BY <1>3, RowsToSelect, FS_Subset
    <2> QED BY <2>4, <2>5, FS_Bijection DEF ExistsBijection
  <1>4. ASSUME NEW f
        PROVE  /\ Cardinality(Ahead(t, f)) = Cardinality(Ahead(s, f))
               /\ Cardinality(NotBehind(t, f)) = Cardinality(NotBehind(s, f))
    <2>1. \A i \in DOMAIN s : i \in Ahead(t, f) <=> p[i] \in Ahead(s, f)
      BY <1>1, <1>2 DEF Ahead
    <2>2. \A i \in DOMAIN s : i \in NotBehind(t, f) <=> p[i] \in NotBehind(s, f)
      BY <1>1, <1>2 DEF NotBehind
    <2>3. /\ Ahead(t, f) \subseteq DOMAIN s /\ Ahead(s, f) \subseteq DOMAIN s
          /\ NotBehind(t, f) \subseteq DOMAIN s /\ NotBehind(s, f) \subseteq DOMAIN s
      BY <1>2 DEF Ahead, NotBehind
    <2> HIDE DEF t
    <2> QED BY <1>3, <2>1, <2>2, <2>3
  <1> HIDE DEF t
  <1>5. ASSUME NEW k \in 1..Len(s)
        PROVE  Selected(t)[k] = Selected(s)[k]
    <2> DEFINE f == Selected(t)[k]
               g == Selected(s)[k]
    <2>1. ToSet(s) \subseteq Nat /\ ToSet(t) \subseteq Nat
      BY <1>2 DEF ToSet
    <2>2. f \in Nat /\ g \in Nat
      BY <1>2, <2>1, SelectedAt
    <2>3. /\ Cardinality(Ahead(s, f)) < k /\ k <= Cardinality(NotBehind(s, f))
          /\ Cardinality(Ahead(s, g)) < k /\ k <= Cardinality(NotBehind(s, g))
      BY <1>2, <1>4, SelectedAt
    <2>4. /\ Cardinality(Ahead(s, f)) \in Nat /\ Cardinality(NotBehind(s, f)) \in Nat
          /\ Cardinality(Ahead(s, g)) \in Nat /\ Cardinality(NotBehind(s, g)) \in Nat
      BY CountsAreFinite
    <2> HIDE DEF f, g
    <2>5. f = g
      BY <2>2, <2>3, <2>4, PlaceIsItsOwn, PrecedesIsTotal
    <2> QED BY <2>5 DEF f, g
  <1>6. /\ Selected(s) = [k \in 1..Len(s) |-> Selected(s)[k]]
        /\ Selected(t) = [k \in 1..Len(s) |-> Selected(t)[k]]
    BY <1>2, SelectedIsSeq
  <1>7. Selected(t) = Selected(s)
    BY <1>5, <1>6
  <1> QED BY <1>7 DEF t

-----------------------------------------------------------------------------
(* Listing the inventory                                                   *)

(* What a page holds, and what a page that is not full leaves behind it.   *)
LEMMA PageRows ==
    ASSUME inventory \in Seq(Feeds), offset \in Nat
    PROVE  /\ Page \in Seq(Feeds) /\ Len(Page) <= PageSize
           /\ \A i \in DOMAIN Page :
                 offset + i \in DOMAIN inventory /\ Page[i] = inventory[offset + i]
           /\ ~IsLastPage => Len(Page) = PageSize
           /\ \A i \in DOMAIN inventory :
                 IsLastPage /\ offset < i => i - offset \in DOMAIN Page
           /\ IsLastPage /\ offset <= Len(inventory) => offset + Len(Page) = Len(inventory)
  <1> DEFINE n == Len(inventory)
             m == IF offset + PageSize < n THEN offset + PageSize ELSE n
  <1>1. n \in Nat /\ PageSize \in Nat /\ m \in Nat /\ m <= n /\ m <= offset + PageSize
    BY SelectionAssumption
  <1>2. Page = SubSeq(inventory, offset + 1, m)
    BY DEF Page
  <1>3. /\ Page \in Seq(Feeds)
        /\ Len(Page) = IF offset + 1 <= m THEN m - offset ELSE 0
        /\ \A i \in 1..Len(Page) : Page[i] = inventory[offset + i]
    <2> HIDE DEF m, n
    <2>1. \A i \in (offset + 1)..m : inventory[i] \in Feeds
      BY <1>1 DEF n
    <2> QED BY <1>1, <1>2, <2>1
  <1>4. /\ Len(Page) \in Nat /\ DOMAIN Page = 1..Len(Page) /\ DOMAIN inventory = 1..n
        /\ IsLastPage <=> Len(Page) < PageSize
    BY <1>3 DEF IsLastPage
  <1> DEFINE l == Len(Page)
  <1> HIDE DEF n, l
  <1>5. l \in Nat /\ l = (IF offset + 1 <= m THEN m - offset ELSE 0)
    BY <1>3, <1>4 DEF l
  <1>6. /\ l <= PageSize /\ \A i \in 1..l : offset + i \in 1..n
        /\ ~(l < PageSize) => l = PageSize
        /\ l < PageSize /\ offset <= n => offset + l = n
    BY <1>1, <1>5
  <1>7. \A i \in 1..n : l < PageSize /\ offset < i => i - offset \in 1..l
    BY <1>1, <1>5
  <1> QED BY <1>3, <1>4, <1>6, <1>7 DEF l, n

LEMMA Insertion ==
    ASSUME NEW S, NEW s \in Seq(S), NEW i \in 1..Len(s) + 1, NEW e \in S
    PROVE  /\ InsertAt(s, i, e) \in Seq(S)
           /\ Len(InsertAt(s, i, e)) = Len(s) + 1
           /\ \A j \in 1..Len(s) + 1 :
                 InsertAt(s, i, e)[j] =
                    IF j < i THEN s[j] ELSE IF j = i THEN e ELSE s[j - 1]
  <1> DEFINE a == SubSeq(s, 1, i - 1)
             b == SubSeq(s, i, Len(s))
  <1>1. a \in Seq(S) /\ Len(a) = i - 1 /\ \A j \in 1..i - 1 : a[j] = s[j]
    OBVIOUS
  <1>2. /\ b \in Seq(S) /\ Len(b) = Len(s) - i + 1
        /\ \A j \in 1..Len(s) - i + 1 : b[j] = s[i + j - 1]
    OBVIOUS
  <1>3. <<e>> \in Seq(S) /\ Len(<<e>>) = 1 /\ <<e>>[1] = e
    OBVIOUS
  <1> HIDE DEF a, b
  <1>4. /\ a \o <<e>> \in Seq(S) /\ Len(a \o <<e>>) = i
        /\ \A j \in 1..i : (a \o <<e>>)[j] = IF j < i THEN s[j] ELSE e
    BY <1>1, <1>3
  <1>5. InsertAt(s, i, e) = (a \o <<e>>) \o b
    BY DEF InsertAt, a, b
  <1> DEFINE c == a \o <<e>>
  <1> HIDE DEF c
  <1>6. /\ c \in Seq(S) /\ Len(c) = i /\ InsertAt(s, i, e) = c \o b
        /\ \A j \in 1..i : c[j] = IF j < i THEN s[j] ELSE e
    BY <1>4, <1>5 DEF c
  <1>7. ASSUME NEW j \in (i + 1)..Len(s) + 1 PROVE (c \o b)[j] = s[j - 1]
    <2>1. j \in 1..Len(c) + Len(b) /\ ~(j <= Len(c)) /\ j - i \in 1..Len(s) - i + 1
      BY <1>2, <1>6
    <2>2. (c \o b)[j] = b[j - i]
      BY <1>2, <1>6, <2>1, ConcatProperties
    <2>3. i + (j - i) - 1 = j - 1
      OBVIOUS
    <2> QED BY <1>2, <2>1, <2>2, <2>3
  <1>8. \A j \in 1..i : (c \o b)[j] = c[j]
    BY <1>2, <1>6
  <1>9. c \o b \in Seq(S) /\ Len(c \o b) = Len(c) + Len(b)
    BY <1>2, <1>6, ConcatProperties
  <1>10. Len(c \o b) = Len(s) + 1
    BY <1>2, <1>6, <1>9
  <1> QED BY <1>6, <1>7, <1>8, <1>9, <1>10

LEMMA Removal ==
    ASSUME NEW S, NEW s \in Seq(S), NEW i \in DOMAIN s
    PROVE  /\ RemoveAt(s, i) \in Seq(S)
           /\ Len(RemoveAt(s, i)) = Len(s) - 1
           /\ \A j \in 1..Len(s) - 1 :
                 RemoveAt(s, i)[j] = IF j < i THEN s[j] ELSE s[j + 1]
  <1> DEFINE a == SubSeq(s, 1, i - 1)
             b == SubSeq(s, i + 1, Len(s))
  <1>1. a \in Seq(S) /\ Len(a) = i - 1 /\ \A j \in 1..i - 1 : a[j] = s[j]
    OBVIOUS
  <1>2. /\ b \in Seq(S) /\ Len(b) = Len(s) - i
        /\ \A j \in 1..Len(s) - i : b[j] = s[i + j]
    OBVIOUS
  <1>3. RemoveAt(s, i) = a \o b
    BY DEF RemoveAt
  <1> HIDE DEF a, b
  <1>4. ASSUME NEW j \in i..Len(s) - 1 PROVE (a \o b)[j] = s[j + 1]
    <2>1. (a \o b)[j] = b[j - i + 1] /\ j - i + 1 \in 1..Len(s) - i
      BY <1>1, <1>2
    <2> QED BY <1>2, <2>1
  <1>5. \A j \in 1..i - 1 : (a \o b)[j] = s[j]
    BY <1>1, <1>2
  <1>6. a \o b \in Seq(S) /\ Len(a \o b) = Len(a) + Len(b)
    BY <1>1, <1>2, ConcatProperties
  <1>7. Len(a \o b) = Len(s) - 1
    BY <1>1, <1>2, <1>6
  <1>8. ASSUME NEW j \in 1..Len(s) - 1
        PROVE  (a \o b)[j] = IF j < i THEN s[j] ELSE s[j + 1]
    <2>1. Len(s) \in Nat /\ i \in 1..Len(s)
      OBVIOUS
    <2>2. j \in 1..i - 1 \/ (j \in i..Len(s) - 1 /\ ~(j < i))
      BY <2>1
    <2>3. CASE j \in 1..i - 1
      <3>1. j < i
        BY <2>1, <2>3
      <3>2. (a \o b)[j] = s[j]
        BY <1>5, <2>3, Zenon
      <3> QED BY <3>1, <3>2
    <2>4. CASE j \in i..Len(s) - 1 /\ ~(j < i)
      BY <1>4, <2>4
    <2> QED BY <2>2, <2>3, <2>4
  <1> QED BY <1>3, <1>6, <1>7, <1>8

-----------------------------------------------------------------------------
(* The state between two steps                                             *)

(* A cycle counts from nothing, in a window that has a turn left, and the  *)
(* offset is what has been read.  No feed is in the inventory twice.       *)
ProgressOK ==
    /\ status = "reading" => position = 0 /\ attempted = 0 /\ Len(rows) = offset
    /\ status \in {"reading", "listed"} => rounds < MaxRounds
    /\ IsInjective(inventory)

(* What is still to be read, as far as changes allow to tell: a feed that  *)
(* stayed is read or comes later unless another was removed, nothing that  *)
(* comes later is read unless another was added, and if there was neither  *)
(* the rows are the inventory up to the offset.                            *)
ReadingOK ==
    status = "reading" =>
        /\ removed = 0 =>
              \A f \in stayed : f \in ToSet(rows)
                                   \/ \E i \in DOMAIN inventory : offset < i /\ inventory[i] = f
        /\ added = 0 =>
              /\ IsInjective(rows)
              /\ \A i \in DOMAIN inventory : offset < i => inventory[i] \notin ToSet(rows)
        /\ added + removed = 0 =>
              /\ offset <= Len(inventory)
              /\ \A i \in 1..offset : rows[i] = inventory[i]

DueOK == status = "listed" => due = Selected(rows)

(* The attempts are those of earlier cycles and the current one's so far.  *)
AttemptsOK ==
    \A a \in attempts :
        /\ a.round <= rounds
        /\ a.round = rounds => status = "listed" /\ a.number < attempted

AttemptsAhead(f) == {a \in attempts : Precedes(a.feed, f)}

(* What an overlooked feed has stood back for: full allowances, and those  *)
(* of the current cycle's attempts that came before it.                    *)
TurnsOK ==
    /\ PassedOverOnlyForAttempts
    /\ status = "listed" =>
          \A f \in overlooked :
              /\ \A k \in 1..position : due[k] # f
              /\ f \in ToSet(due) =>
                    Cardinality(AttemptsAhead(f)) >= rounds * Concurrency + attempted

FeedSelectionInv ==
    /\ TypeOK /\ ProgressOK /\ ReadingOK /\ ListingMatchesInventory
    /\ DueOK /\ AttemptsOK /\ TurnsOK

USE SelectionAssumption

LEMMA FeedsAreNumbers ==
    ASSUME NEW s \in Seq(Feeds)
    PROVE  s \in Seq(Nat)
  <1>1. Len(s) \in Nat /\ s = [i \in 1..Len(s) |-> s[i]] /\ \A i \in 1..Len(s) : s[i] \in Feeds
    OBVIOUS
  <1>2. \A i \in 1..Len(s) : s[i] \in Nat
    BY <1>1
  <1> QED BY <1>1, <1>2

LEMMA StartListingStep ==
    ASSUME FeedSelectionInv, StartListing
    PROVE  FeedSelectionInv'
  <1> USE DEF FeedSelectionInv
  <1>1. rounds' \in Nat /\ rounds' < MaxRounds
    BY DEF StartListing, SameWindow, LaterWindow, turns, TypeOK
  <1>2. overlooked' \subseteq Feeds /\ attempts' \subseteq Attempt /\ IsFiniteSet(attempts')
    BY FS_EmptySet DEF StartListing, SameWindow, LaterWindow, turns, TypeOK
  <1>3. TypeOK'
    BY <1>1, <1>2 DEF StartListing, TypeOK, ToSet
  <1>4. ProgressOK' /\ ListingMatchesInventory' /\ DueOK'
    BY <1>1 DEF StartListing, ProgressOK, ListingMatchesInventory, DueOK
  <1>5. ReadingOK'
    BY DEF StartListing, ReadingOK, TypeOK, ToSet, IsInjective
  <1>6. AttemptsOK'
    BY DEF StartListing, SameWindow, LaterWindow, turns, AttemptsOK
  <1>7. PassedOverOnlyForAttempts'
    <2>1. CASE SameWindow
      BY <2>1 DEF StartListing, SameWindow, turns, TurnsOK, PassedOverOnlyForAttempts
    <2>2. CASE LaterWindow
      <3>1. rounds' * Concurrency = 0
        BY <2>2 DEF LaterWindow
      <3>2. \A f : {a \in attempts' : Precedes(a.feed, f)} = {}
        BY <2>2 DEF LaterWindow
      <3> QED BY <3>1, <3>2, FS_EmptySet DEF PassedOverOnlyForAttempts
    <2> QED BY <2>1, <2>2 DEF StartListing
  <1>8. TurnsOK'
    BY <1>7 DEF StartListing, TurnsOK
  <1> QED BY <1>3, <1>4, <1>5, <1>6, <1>8

LEMMA PageFailsStep ==
    ASSUME FeedSelectionInv, PageFails
    PROVE  FeedSelectionInv'
  <1> USE DEF FeedSelectionInv
  <1>1. TypeOK' /\ ProgressOK'
    BY DEF PageFails, TypeOK, ProgressOK, listing, turns
  <1>2. ReadingOK' /\ ListingMatchesInventory' /\ DueOK' /\ AttemptsOK'
    BY DEF PageFails, ReadingOK, ListingMatchesInventory, DueOK, AttemptsOK, listing, turns
  <1>3. TurnsOK'
    BY DEF PageFails, TurnsOK, PassedOverOnlyForAttempts, listing, turns
  <1> QED BY <1>1, <1>2, <1>3

(* The rows that a page adds to those that were read.                      *)
LEMMA RowsWithPage ==
    ASSUME TypeOK
    PROVE  /\ rows \o Page \in Seq(Feeds)
           /\ Len(rows \o Page) = Len(rows) + Len(Page)
           /\ DOMAIN (rows \o Page) = 1..Len(rows) + Len(Page)
           /\ Len(rows) \in Nat /\ Len(Page) \in Nat /\ DOMAIN Page = 1..Len(Page)
           /\ \A i \in 1..Len(rows) : (rows \o Page)[i] = rows[i]
           /\ \A i \in DOMAIN Page : (rows \o Page)[Len(rows) + i] = inventory[offset + i]
           /\ \A i \in 1..Len(rows) + Len(Page) : i <= Len(rows) \/ i - Len(rows) \in DOMAIN Page
  <1>1. rows \in Seq(Feeds) /\ inventory \in Seq(Feeds) /\ offset \in Nat
    BY DEF TypeOK
  <1>2. Page \in Seq(Feeds) /\ \A i \in DOMAIN Page : Page[i] = inventory[offset + i]
    BY <1>1, PageRows
  <1> QED BY <1>1, <1>2

LEMMA RowsStayDistinct ==
    ASSUME TypeOK, ProgressOK, ReadingOK, status = "reading", added = 0
    PROVE  IsInjective(rows \o Page)
  <1>1. rows \in Seq(Feeds) /\ inventory \in Seq(Feeds) /\ offset \in Nat /\ Len(rows) = offset
    BY DEF TypeOK, ProgressOK
  <1>2. /\ \A i, j \in 1..offset : rows[i] = rows[j] => i = j
        /\ \A i \in DOMAIN inventory, j \in 1..offset : offset < i => inventory[i] # rows[j]
        /\ \A i, j \in DOMAIN inventory : inventory[i] = inventory[j] => i = j
    BY <1>1 DEF ReadingOK, ProgressOK, IsInjective, ToSet
  <1>3. \A i \in DOMAIN Page : offset + i \in DOMAIN inventory /\ i \in Int /\ i > 0
    BY <1>1, PageRows
  <1>4. SUFFICES ASSUME NEW i \in 1..offset + Len(Page), NEW j \in 1..offset + Len(Page),
                        i < j
                 PROVE  (rows \o Page)[i] # (rows \o Page)[j]
    <2>1. DOMAIN (rows \o Page) = 1..offset + Len(Page) /\ Len(Page) \in Nat
      BY <1>1, RowsWithPage
    <2>2. ASSUME NEW i \in DOMAIN (rows \o Page), NEW j \in DOMAIN (rows \o Page),
                 (rows \o Page)[i] = (rows \o Page)[j]
          PROVE  i = j
      BY <1>1, <2>1, <2>2
    <2> QED BY <2>2, Zenon DEF IsInjective
  <1>5. CASE j <= offset
    BY <1>1, <1>2, <1>4, <1>5, RowsWithPage
  <1>6. CASE offset < j
    <2> DEFINE l == j - offset
    <2>1. l \in DOMAIN Page /\ (rows \o Page)[j] = inventory[j] /\ j \in DOMAIN inventory
      <3>1. l \in DOMAIN Page
        BY <1>1, <1>6, RowsWithPage
      <3>2. (rows \o Page)[Len(rows) + l] = inventory[offset + l]
        BY <3>1, RowsWithPage
      <3>3. offset + l = j /\ Len(rows) + l = j
        BY <1>1
      <3> QED BY <1>3, <3>1, <3>2, <3>3
    <2>2. CASE i <= offset
      BY <1>1, <1>2, <1>6, <2>1, <2>2, RowsWithPage
    <2>3. CASE offset < i
      <3> DEFINE k == i - offset
      <3>1. k \in DOMAIN Page
        BY <1>1, <2>3, RowsWithPage
      <3>2. (rows \o Page)[Len(rows) + k] = inventory[offset + k]
        BY <3>1, RowsWithPage
      <3>3. offset + k = i /\ Len(rows) + k = i
        BY <1>1
      <3> QED BY <1>2, <1>3, <1>4, <2>1, <3>1, <3>2, <3>3
    <2> QED BY <1>1, <2>2, <2>3
  <1> QED BY <1>1, <1>5, <1>6

(* A feed that stayed is read by then, or comes on a later page.           *)
LEMMA StayedIsRead ==
    ASSUME TypeOK, ProgressOK, ReadingOK, status = "reading", removed = 0, NEW f \in stayed
    PROVE  \/ f \in ToSet(rows \o Page)
           \/ ~IsLastPage /\ \E i \in DOMAIN inventory : NextOffset < i /\ inventory[i] = f
  <1>1. rows \in Seq(Feeds) /\ inventory \in Seq(Feeds) /\ offset \in Nat /\ Len(rows) = offset
    BY DEF TypeOK, ProgressOK
  <1>2. Page \in Seq(Feeds) /\ DOMAIN (rows \o Page) = 1..offset + Len(Page)
    <2>1. Page \in Seq(Feeds)
      BY <1>1, PageRows
    <2> QED BY <1>1, <2>1, RowsWithPage
  <1>3. CASE f \in ToSet(rows)
    <2>1. PICK i \in DOMAIN rows : rows[i] = f
      BY <1>3 DEF ToSet
    <2>2. (rows \o Page)[i] = f /\ i \in DOMAIN (rows \o Page)
      BY <1>1, <1>2, <2>1, RowsWithPage
    <2> QED BY <2>2 DEF ToSet
  <1>4. ASSUME NEW i \in DOMAIN inventory, offset < i, inventory[i] = f,
               i - offset \in DOMAIN Page
        PROVE  f \in ToSet(rows \o Page)
    <2> DEFINE k == i - offset
    <2>1. (rows \o Page)[Len(rows) + k] = inventory[offset + k]
      BY <1>4, RowsWithPage
    <2>2. offset + k = i /\ Len(rows) + k = i /\ i \in DOMAIN (rows \o Page)
      BY <1>1, <1>2, <1>4
    <2> QED BY <1>4, <2>1, <2>2 DEF ToSet
  <1>5. ASSUME NEW i \in DOMAIN inventory, offset < i, inventory[i] = f
        PROVE  f \in ToSet(rows \o Page) \/ (~IsLastPage /\ NextOffset < i)
    <2>1. CASE IsLastPage
      <3>1. i - offset \in DOMAIN Page
        BY <1>1, <1>5, <2>1, PageRows
      <3> QED BY <1>4, <1>5, <3>1, Zenon
    <2>2. CASE ~IsLastPage
      <3>1. Len(Page) = PageSize /\ DOMAIN Page = 1..PageSize
        BY <1>1, <1>2, <2>2, PageRows
      <3>2. i - offset \in DOMAIN Page \/ NextOffset < i
        BY <1>1, <1>5, <3>1 DEF NextOffset
      <3>3. CASE i - offset \in DOMAIN Page
        BY <1>4, <1>5, <3>3, Zenon
      <3> QED BY <2>2, <3>2, <3>3
    <2> QED BY <2>1, <2>2
  <1> QED BY <1>3, <1>5 DEF ReadingOK

LEMMA RowsAreTheInventory ==
    ASSUME TypeOK, ProgressOK, ReadingOK, status = "reading", added + removed = 0
    PROVE  /\ Len(rows \o Page) <= Len(inventory)
           /\ \A i \in 1..Len(rows \o Page) : (rows \o Page)[i] = inventory[i]
           /\ IsLastPage => rows \o Page = inventory
  <1>1. rows \in Seq(Feeds) /\ inventory \in Seq(Feeds) /\ offset \in Nat /\ Len(rows) = offset
    BY DEF TypeOK, ProgressOK
  <1>2. /\ offset <= Len(inventory) /\ Page \in Seq(Feeds)
        /\ \A i \in 1..offset : rows[i] = inventory[i]
        /\ \A i \in DOMAIN Page : offset + i \in DOMAIN inventory
        /\ IsLastPage => offset + Len(Page) = Len(inventory)
    BY <1>1, PageRows DEF ReadingOK
  <1>3. Len(rows \o Page) = offset + Len(Page)
    BY <1>1, RowsWithPage
  <1>4. Len(rows \o Page) <= Len(inventory)
    <2>1. Len(Page) \in Nat /\ Len(inventory) \in Nat /\ DOMAIN Page = 1..Len(Page)
      BY <1>1, <1>2
    <2>2. Len(Page) = 0 \/ Len(Page) \in DOMAIN Page
      BY <2>1
    <2>3. Len(Page) = 0 \/ offset + Len(Page) \in 1..Len(inventory)
      BY <1>1, <1>2, <2>2
    <2> QED BY <1>1, <1>2, <1>3, <2>1, <2>3
  <1>5. ASSUME NEW i \in 1..Len(rows \o Page)
        PROVE  (rows \o Page)[i] = inventory[i]
    <2>1. CASE i <= offset
      BY <1>1, <1>2, <2>1, RowsWithPage
    <2>2. CASE offset < i
      <3> DEFINE k == i - offset
      <3>1. k \in DOMAIN Page
        BY <1>1, <1>3, <2>2, RowsWithPage
      <3>2. (rows \o Page)[Len(rows) + k] = inventory[offset + k]
        BY <3>1, RowsWithPage
      <3>3. offset + k = i /\ Len(rows) + k = i
        BY <1>1
      <3> QED BY <3>2, <3>3
    <2> QED BY <1>1, <2>1, <2>2
  <1>6. rows \o Page \in Seq(Feeds)
    BY RowsWithPage
  <1>7. ASSUME IsLastPage PROVE rows \o Page = inventory
    <2>1. Len(rows \o Page) = Len(inventory)
      BY <1>2, <1>3, <1>7
    <2> DEFINE t == rows \o Page
    <2>2. t \in Seq(Feeds) /\ Len(t) = Len(inventory)
          /\ \A i \in 1..Len(t) : t[i] = inventory[i]
      BY <1>5, <1>6, <2>1
    <2> HIDE DEF t
    <2>3. t = inventory
      BY <1>1, <2>2
    <2> QED BY <2>3 DEF t
  <1> QED BY <1>4, <1>5, <1>7

(* A page that is not full ends the listing.                               *)
LEMMA LastPageStep ==
    ASSUME FeedSelectionInv, LastPage
    PROVE  FeedSelectionInv'
  <1> USE DEF FeedSelectionInv
  <1>1. /\ status = "reading" /\ IsLastPage /\ status' = "listed"
        /\ rows' = rows \o Page /\ due' = Selected(rows')
        /\ position = 0 /\ attempted = 0 /\ Len(rows) = offset
        /\ offset \in Nat /\ offset < MaxRows
        /\ UNCHANGED <<inventory, offset, position, attempted, size, stayed, added, removed,
                       rounds, overlooked, attempts>>
    BY DEF LastPage, listing, turns, TypeOK, ProgressOK
  <1>2. rows' \in Seq(Feeds) /\ Len(rows') < MaxRows + PageSize
    <2>1. inventory \in Seq(Feeds)
      BY DEF TypeOK
    <2>2. Len(rows') = offset + Len(Page) /\ Len(Page) \in Nat
      BY <1>1, RowsWithPage
    <2>3. Len(Page) <= PageSize
      BY <1>1, <2>1, PageRows
    <2> QED BY <1>1, <2>2, <2>3, RowsWithPage
  <1>3. due' \in Seq(Feeds)
    BY <1>1, <1>2, SelectedIsSeq
  <1>4. TypeOK'
    <2>1. position' \in 0..Len(due') /\ status' \in {"listed"}
      BY <1>1, <1>3
    <2> QED BY <1>1, <1>2, <1>3, <2>1 DEF TypeOK
  <1>5. ProgressOK' /\ ReadingOK' /\ DueOK'
    BY <1>1 DEF ProgressOK, ReadingOK, DueOK
  <1>6. ListingMatchesInventory'
    <2>1. removed = 0 => stayed \subseteq ToSet(rows')
      BY <1>1, StayedIsRead
    <2>2. added = 0 => IsInjective(rows')
      BY <1>1, RowsStayDistinct
    <2>3. added + removed = 0 => rows' = inventory
      BY <1>1, RowsAreTheInventory
    <2> QED BY <1>1, <2>1, <2>2, <2>3 DEF ListingMatchesInventory
  <1>7. AttemptsOK'
    BY <1>1 DEF AttemptsOK
  <1>8. TurnsOK'
    <2>1. \A f \in overlooked : Cardinality(AttemptsAhead(f)) >= rounds * Concurrency
      BY <1>1 DEF TurnsOK, PassedOverOnlyForAttempts, AttemptsAhead
    <2>2. rounds * Concurrency + attempted = rounds * Concurrency
      BY <1>1 DEF TypeOK
    <2> QED BY <1>1, <2>1, <2>2 DEF TurnsOK, PassedOverOnlyForAttempts, AttemptsAhead
  <1> QED BY <1>4, <1>5, <1>6, <1>7, <1>8

(* A full page is followed by another, up to the limit.                    *)
LEMMA FullPageStep ==
    ASSUME FeedSelectionInv, FullPage
    PROVE  FeedSelectionInv'
  <1> USE DEF FeedSelectionInv
  <1>1. /\ status = "reading" /\ ~IsLastPage /\ status' \in {"reading", "refused"}
        /\ rows' = rows \o Page /\ Len(rows) = offset
        /\ offset \in Nat /\ offset < MaxRows
        /\ status' = "reading" => offset' = offset + PageSize /\ offset' < MaxRows
        /\ status' # "reading" => offset' = offset
        /\ UNCHANGED <<inventory, due, position, attempted, size, stayed, added, removed,
                       rounds, overlooked, attempts>>
    BY DEF FullPage, listing, turns, TypeOK, ProgressOK, WithinLimit, NextOffset
  <1>2. inventory \in Seq(Feeds) /\ Len(Page) = PageSize /\ Len(rows') = offset + PageSize
    BY <1>1, PageRows, RowsWithPage DEF TypeOK
  <1>3. rows' \in Seq(Feeds)
    BY <1>1, RowsWithPage
  <1>4. TypeOK'
    <2>1. offset' \in 0..MaxRows - 1 /\ Len(rows') < MaxRows + PageSize
      BY <1>1, <1>2
    <2> QED BY <1>1, <1>3, <2>1 DEF TypeOK
  <1>5. ProgressOK'
    BY <1>1, <1>2 DEF ProgressOK
  <1>6. ListingMatchesInventory' /\ DueOK' /\ AttemptsOK'
    BY <1>1 DEF ListingMatchesInventory, DueOK, AttemptsOK
  <1>7. TurnsOK'
    BY <1>1 DEF TurnsOK, PassedOverOnlyForAttempts
  <1>8. ReadingOK'
    <2>1. SUFFICES ASSUME status' = "reading" PROVE ReadingOK'
      BY DEF ReadingOK
    <2>2. offset' = NextOffset /\ offset' = Len(rows') /\ offset' = offset + PageSize
      BY <1>1, <1>2, <2>1 DEF NextOffset
    <2>3. removed = 0 => \A f \in stayed :
              \/ f \in ToSet(rows')
              \/ \E i \in DOMAIN inventory : offset' < i /\ inventory[i] = f
      BY <1>1, <2>2, StayedIsRead
    <2>4. added = 0 => IsInjective(rows')
      BY <1>1, RowsStayDistinct
    <2>5. ASSUME added = 0, NEW i \in DOMAIN inventory, offset' < i
          PROVE  inventory[i] \notin ToSet(rows')
      <3>1. SUFFICES ASSUME NEW j \in 1..offset + PageSize PROVE rows'[j] # inventory[i]
        BY <1>2, <1>3 DEF ToSet
      <3>2. CASE j <= offset
        <4>1. rows'[j] = rows[j] /\ j \in DOMAIN rows
          BY <1>1, <3>2, RowsWithPage
        <4>2. inventory[i] \notin ToSet(rows)
          <5>1. offset < i
            BY <1>1, <1>2, <2>2, <2>5
          <5> QED BY <1>1, <2>5, <5>1 DEF ReadingOK
        <4> QED BY <4>1, <4>2 DEF ToSet
      <3>3. CASE offset < j
        <4> DEFINE k == j - offset
        <4>1. k \in DOMAIN Page
          BY <1>1, <1>2, <3>3, RowsWithPage
        <4>2. (rows \o Page)[Len(rows) + k] = inventory[offset + k]
              /\ offset + k \in DOMAIN inventory
          BY <1>1, <1>2, <4>1, RowsWithPage, PageRows
        <4>3. offset + k = j /\ Len(rows) + k = j
          BY <1>1
        <4>4. j \in DOMAIN inventory /\ j # i /\ rows'[j] = inventory[j]
          BY <1>1, <1>2, <2>2, <2>5, <4>2, <4>3
        <4> QED BY <2>5, <4>4 DEF ProgressOK, IsInjective
      <3>4. j <= offset \/ offset < j
        BY <1>1, <3>1
      <3> QED BY <3>2, <3>3, <3>4
    <2>6. added + removed = 0 =>
              /\ offset' <= Len(inventory)
              /\ \A i \in 1..offset' : rows'[i] = inventory[i]
      BY <1>1, <2>2, RowsAreTheInventory
    <2> QED BY <1>1, <2>3, <2>4, <2>5, <2>6 DEF ReadingOK
  <1> QED BY <1>4, <1>5, <1>6, <1>7, <1>8

(* A feed is added somewhere: what was still to come comes no earlier.     *)
LEMMA FeedAddedStep ==
    ASSUME FeedSelectionInv, FeedAdded
    PROVE  FeedSelectionInv'
  <1> USE DEF FeedSelectionInv
  <1>1. /\ status = "reading" /\ added' = added + 1
        /\ added \in Nat /\ removed \in Nat /\ inventory \in Seq(Feeds)
        /\ UNCHANGED <<status, offset, rows, due, position, attempted, size, stayed, removed,
                       rounds, overlooked, attempts>>
    BY DEF FeedAdded, MayChange, turns, TypeOK
  <1>2. PICK f \in Feeds \ ToSet(inventory), k \in 1..Len(inventory) + 1 :
            inventory' = InsertAt(inventory, k, f)
    BY DEF FeedAdded
  <1>3. /\ inventory' \in Seq(Feeds) /\ DOMAIN inventory' = 1..Len(inventory) + 1
        /\ \A j \in 1..Len(inventory) + 1 :
              inventory'[j] = IF j < k THEN inventory[j] ELSE IF j = k THEN f ELSE inventory[j - 1]
    <2>1. /\ inventory' \in Seq(Feeds) /\ Len(inventory') = Len(inventory) + 1
          /\ \A j \in 1..Len(inventory) + 1 :
                inventory'[j] =
                    IF j < k THEN inventory[j] ELSE IF j = k THEN f ELSE inventory[j - 1]
      <3> DEFINE t == InsertAt(inventory, k, f)
      <3>1. f \in Feeds
        OBVIOUS
      <3>2. /\ t \in Seq(Feeds) /\ Len(t) = Len(inventory) + 1
            /\ \A j \in 1..Len(inventory) + 1 :
                  t[j] = IF j < k THEN inventory[j] ELSE IF j = k THEN f ELSE inventory[j - 1]
        BY <1>1, <3>1, Insertion
      <3> HIDE DEF t
      <3> QED BY <1>2, <3>2 DEF t
    <2> QED BY <2>1
  <1>4. ASSUME NEW i \in DOMAIN inventory
        PROVE  \E j \in DOMAIN inventory' : i <= j /\ inventory'[j] = inventory[i]
    <2>1. Len(inventory) \in Nat /\ i \in 1..Len(inventory) /\ k \in 1..Len(inventory) + 1
      BY <1>1
    <2>2. CASE i < k
      BY <1>3, <2>1, <2>2
    <2>3. CASE ~(i < k)
      <3>1. i + 1 \in 1..Len(inventory) + 1 /\ ~(i + 1 < k) /\ i + 1 # k /\ (i + 1) - 1 = i
        BY <2>1, <2>3
      <3>2. inventory'[i + 1] = inventory[(i + 1) - 1]
        BY <1>3, <3>1
      <3> QED BY <1>3, <2>1, <3>1, <3>2
    <2> QED BY <2>2, <2>3
  <1>5. TypeOK'
    <2>1. stayed \subseteq ToSet(inventory')
      BY <1>1, <1>4 DEF TypeOK, ToSet
    <2> QED BY <1>1, <1>3, <2>1 DEF TypeOK
  <1>6. IsInjective(inventory')
    <2>1. SUFFICES ASSUME NEW i \in 1..Len(inventory) + 1, NEW j \in 1..Len(inventory) + 1,
                          i < j
                   PROVE  inventory'[i] # inventory'[j]
      <3>1. ASSUME NEW i \in DOMAIN inventory', NEW j \in DOMAIN inventory',
                   inventory'[i] = inventory'[j]
            PROVE  i = j
        BY <1>1, <1>3, <2>1, <3>1
      <3> QED BY <3>1, Zenon DEF IsInjective
    <2>2. Len(inventory) \in Nat /\ k \in Int /\ i \in Int /\ j \in Int
      BY <1>1
    <2>3. /\ \A m \in 1..Len(inventory) : inventory[m] # f
          /\ \A m, n \in 1..Len(inventory) : inventory[m] = inventory[n] => m = n
      BY <1>1 DEF ToSet, ProgressOK, IsInjective
    <2>4. CASE j < k
      BY <1>3, <2>1, <2>2, <2>3, <2>4
    <2>5. CASE j = k
      BY <1>3, <2>1, <2>2, <2>3, <2>5
    <2>6. CASE k < j
      <3>1. inventory'[j] = inventory[j - 1] /\ j - 1 \in 1..Len(inventory)
        BY <1>3, <2>1, <2>2, <2>6
      <3>2. CASE i < k
        BY <1>3, <2>1, <2>2, <2>3, <2>6, <3>1, <3>2
      <3>3. CASE i = k
        BY <1>3, <2>1, <2>3, <3>1, <3>3
      <3>4. CASE k < i
        <4>1. inventory'[i] = inventory[i - 1] /\ i - 1 \in 1..Len(inventory) /\ i - 1 # j - 1
          BY <1>3, <2>1, <2>2, <2>6, <3>4
        <4> QED BY <2>3, <3>1, <4>1
      <3> QED BY <2>2, <3>2, <3>3, <3>4
    <2> QED BY <2>2, <2>4, <2>5, <2>6
  <1>7. ProgressOK'
    BY <1>1, <1>6 DEF ProgressOK
  <1>8. ReadingOK'
    <2>1. added' # 0 /\ added' + removed' # 0
      BY <1>1
    <2>2. ASSUME removed = 0, NEW g \in stayed, g \notin ToSet(rows)
          PROVE  \E j \in DOMAIN inventory' : offset < j /\ inventory'[j] = g
      <3>1. PICK i \in DOMAIN inventory : offset < i /\ inventory[i] = g
        BY <1>1, <2>2 DEF ReadingOK
      <3>2. PICK j \in DOMAIN inventory' : i <= j /\ inventory'[j] = g
        BY <1>4, <3>1
      <3>3. offset \in Int /\ i \in Int /\ j \in Int
        BY <1>1, <1>3 DEF TypeOK
      <3> QED BY <3>1, <3>2, <3>3
    <2> QED BY <1>1, <2>1, <2>2 DEF ReadingOK
  <1>9. ListingMatchesInventory' /\ DueOK' /\ AttemptsOK'
    BY <1>1 DEF ListingMatchesInventory, DueOK, AttemptsOK
  <1>10. TurnsOK'
    BY <1>1 DEF TurnsOK, PassedOverOnlyForAttempts
  <1> QED BY <1>5, <1>7, <1>8, <1>9, <1>10

(* A feed is removed: what comes later was still to come.                  *)
LEMMA FeedRemovedStep ==
    ASSUME FeedSelectionInv, FeedRemoved
    PROVE  FeedSelectionInv'
  <1> USE DEF FeedSelectionInv
  <1>1. /\ status = "reading" /\ removed' = removed + 1
        /\ added \in Nat /\ removed \in Nat /\ inventory \in Seq(Feeds)
        /\ UNCHANGED <<status, offset, rows, due, position, attempted, size, added,
                       rounds, overlooked, attempts>>
    BY DEF FeedRemoved, MayChange, turns, TypeOK
  <1>2. PICK k \in DOMAIN inventory :
            inventory' = RemoveAt(inventory, k) /\ stayed' = stayed \ {inventory[k]}
    BY DEF FeedRemoved
  <1>3. /\ inventory' \in Seq(Feeds) /\ DOMAIN inventory' = 1..Len(inventory) - 1
        /\ \A j \in 1..Len(inventory) - 1 :
              inventory'[j] = IF j < k THEN inventory[j] ELSE inventory[j + 1]
    <2> DEFINE t == RemoveAt(inventory, k)
    <2>1. /\ t \in Seq(Feeds) /\ Len(t) = Len(inventory) - 1
          /\ \A j \in 1..Len(inventory) - 1 :
                t[j] = IF j < k THEN inventory[j] ELSE inventory[j + 1]
      BY <1>1, Removal
    <2> HIDE DEF t
    <2>2. DOMAIN t = 1..Len(inventory) - 1
      BY <2>1
    <2> QED BY <1>2, <2>1, <2>2 DEF t
  <1>4. Len(inventory) \in Nat /\ k \in 1..Len(inventory)
    BY <1>1
  <1>5. TypeOK'
    <2>1. ASSUME NEW g \in stayed' PROVE g \in ToSet(inventory')
      <3>1. PICK i \in 1..Len(inventory) : inventory[i] = g /\ i # k
        <4>1. g \in ToSet(inventory) /\ g # inventory[k]
          BY <1>2 DEF TypeOK
        <4> QED BY <1>1, <4>1 DEF ToSet
      <3>2. CASE i < k
        <4>1. i \in 1..Len(inventory) - 1
          BY <1>4, <3>1, <3>2
        <4>2. i \in DOMAIN inventory'
          BY <1>3, <4>1
        <4>3. inventory'[i] = inventory[i]
          BY <1>3, <3>2, <4>1
        <4> QED BY <3>1, <4>2, <4>3 DEF ToSet
      <3>3. CASE k < i
        <4>1. i - 1 \in 1..Len(inventory) - 1 /\ ~(i - 1 < k) /\ (i - 1) + 1 = i
          BY <1>4, <3>3
        <4>2. inventory'[i - 1] = inventory[(i - 1) + 1]
          BY <1>3, <4>1
        <4> QED BY <1>3, <3>1, <4>1, <4>2 DEF ToSet
      <3> QED BY <1>4, <3>1, <3>2, <3>3
    <2> QED BY <1>1, <1>3, <2>1 DEF TypeOK
  <1>6. IsInjective(inventory')
    <2>1. ASSUME NEW i \in 1..Len(inventory) - 1, NEW j \in 1..Len(inventory) - 1,
                 inventory'[i] = inventory'[j]
          PROVE  i = j
      <3>1. \A m, n \in 1..Len(inventory) : inventory[m] = inventory[n] => m = n
        BY <1>1 DEF ProgressOK, IsInjective
      <3> DEFINE m == IF i < k THEN i ELSE i + 1
                 n == IF j < k THEN j ELSE j + 1
      <3>2. inventory'[i] = inventory[m] /\ inventory'[j] = inventory[n]
        BY <1>3
      <3>3. m \in 1..Len(inventory) /\ n \in 1..Len(inventory)
        BY <1>4
      <3>4. m = n
        BY <2>1, <3>1, <3>2, <3>3, Zenon
      <3> QED BY <1>4, <3>4
    <2> QED BY <1>3, <2>1, Zenon DEF IsInjective
  <1>7. ProgressOK'
    BY <1>1, <1>6 DEF ProgressOK
  <1>8. ReadingOK'
    <2>1. removed' # 0 /\ added' + removed' # 0
      BY <1>1
    <2>2. ASSUME added = 0, NEW i \in DOMAIN inventory', offset < i
          PROVE  inventory'[i] \notin ToSet(rows)
      <3>1. PICK j \in DOMAIN inventory : i <= j /\ inventory'[i] = inventory[j]
        <4>1. i \in DOMAIN inventory /\ i + 1 \in DOMAIN inventory /\ i <= i + 1
          BY <1>1, <1>3, <1>4
        <4> QED BY <1>3, <4>1
      <3>2. offset < j
        BY <1>1, <1>3, <2>2, <3>1 DEF TypeOK
      <3> QED BY <1>1, <2>2, <3>1, <3>2 DEF ReadingOK
    <2> QED BY <1>1, <2>1, <2>2 DEF ReadingOK
  <1>9. ListingMatchesInventory' /\ DueOK' /\ AttemptsOK'
    BY <1>1 DEF ListingMatchesInventory, DueOK, AttemptsOK
  <1>10. TurnsOK'
    BY <1>1 DEF TurnsOK, PassedOverOnlyForAttempts
  <1> QED BY <1>5, <1>7, <1>8, <1>9, <1>10

-----------------------------------------------------------------------------
(* The cycle's turns                                                       *)

(* Considering a decision moves on; its feed is no longer overlooked, and  *)
(* every overlooked feed that is due comes after it.                       *)
LEMMA Consideration ==
    ASSUME FeedSelectionInv, Considering
    PROVE  /\ status = "listed" /\ due \in Seq(Feeds)
           /\ position + 1 \in DOMAIN due /\ Considered \in Feeds
           /\ \A f \in overlooked \ {Considered} :
                 /\ \A k \in 1..position + 1 : due[k] # f
                 /\ f \in ToSet(due) => Precedes(Considered, f)
  <1> USE DEF FeedSelectionInv
  <1>1. /\ status = "listed" /\ due \in Seq(Feeds) /\ position \in 0..Len(due)
        /\ position < Len(due) /\ overlooked \subseteq Feeds
    BY DEF Considering, TypeOK
  <1>2. position + 1 \in DOMAIN due /\ due[position + 1] \in Feeds
    BY <1>1
  <1>3. ASSUME NEW f \in overlooked, f # Considered, NEW k \in 1..position + 1
        PROVE  due[k] # f
    <2>1. k \in 1..position \/ k = position + 1
      BY <1>1
    <2> QED BY <1>1, <1>3, <2>1 DEF TurnsOK, Considered
  <1>4. ASSUME NEW f \in overlooked, f # Considered, f \in ToSet(due)
        PROVE  Precedes(Considered, f)
    <2>1. PICK l \in DOMAIN due : due[l] = f
      BY <1>4 DEF ToSet
    <2>2. position + 1 < l
      <3>1. l \in Int /\ 1 <= l /\ l \notin 1..position + 1
        BY <1>1, <1>3, <1>4, <2>1
      <3> QED BY <1>1, <3>1
    <2>3. rows \in Seq(Nat) /\ due = Selected(rows) /\ Len(due) = Len(rows)
      <3>1. rows \in Seq(Feeds) /\ due = Selected(rows)
        BY <1>1 DEF TypeOK, DueOK
      <3>2. Len(due) = Len(rows)
        BY <3>1, SelectedIsSeq
      <3> QED BY <3>1, <3>2, FeedsAreNumbers
    <2>4. ~Precedes(f, Considered)
      <3>1. position + 1 \in 1..Len(rows) /\ l \in 1..Len(rows)
        BY <1>1, <1>2, <2>3
      <3> QED BY <2>1, <2>2, <2>3, <3>1, SelectedIsSorted DEF Considered
    <2>5. f \in Nat /\ Considered \in Nat
      BY <1>1, <1>2 DEF Considered
    <2> QED BY <1>4, <2>4, <2>5, PrecedesIsTotal
  <1> QED BY <1>1, <1>2, <1>3, <1>4 DEF Considered

LEMMA OccupiedStep ==
    ASSUME FeedSelectionInv, Occupied
    PROVE  FeedSelectionInv'
  <1> USE DEF FeedSelectionInv
  <1>1. /\ Considering /\ position' = position + 1 /\ overlooked' = overlooked \ {Considered}
        /\ UNCHANGED <<inventory, status, offset, rows, due, attempted, size, stayed, added,
                       removed, rounds, attempts>>
    BY DEF Occupied, listing
  <1>2. TypeOK'
    <2>1. position' \in 0..Len(due')
      <3>1. due \in Seq(Feeds) /\ position + 1 \in DOMAIN due /\ due' = due
        BY <1>1, Consideration
      <3> QED BY <1>1, <3>1
    <2> QED BY <1>1, <2>1 DEF TypeOK
  <1>3. ProgressOK' /\ ReadingOK' /\ ListingMatchesInventory' /\ DueOK' /\ AttemptsOK'
    BY <1>1, Consideration
    DEF ProgressOK, ReadingOK, ListingMatchesInventory, DueOK, AttemptsOK
  <1>4. TurnsOK'
    <2>1. \A f \in overlooked' : f \in ToSet(due) =>
              Cardinality(AttemptsAhead(f)) >= rounds * Concurrency + attempted
      BY <1>1, Consideration DEF TurnsOK
    <2>2. \A f \in overlooked' : \A k \in 1..position' : due[k] # f
      BY <1>1, Consideration
    <2> QED BY <1>1, <2>1, <2>2, Consideration
        DEF TurnsOK, PassedOverOnlyForAttempts, AttemptsAhead
  <1> QED BY <1>2, <1>3, <1>4

(* An attempt is a new one, and one more that came before whoever is still *)
(* overlooked.                                                             *)
LEMMA AttemptedStep ==
    ASSUME FeedSelectionInv, Attempted
    PROVE  FeedSelectionInv'
  <1> USE DEF FeedSelectionInv
  <1> DEFINE new == [round |-> rounds, number |-> attempted, feed |-> Considered]
  <1>1. /\ Considering /\ position' = position + 1 /\ overlooked' = overlooked \ {Considered}
        /\ attempted' = attempted + 1 /\ attempts' = attempts \cup {new}
        /\ UNCHANGED <<inventory, status, offset, rows, due, size, stayed, added, removed, rounds>>
    BY DEF Attempted, listing
  <1>2. /\ status = "listed" /\ attempted \in Nat /\ attempted < Concurrency
        /\ rounds \in 0..MaxRounds /\ attempts \subseteq Attempt /\ IsFiniteSet(attempts)
    BY <1>1 DEF Considering, TypeOK
  <1>3. new \in Attempt /\ new.round = rounds /\ new.number = attempted /\ new.feed = Considered
    BY <1>1, <1>2, Consideration DEF Attempt
  <1> HIDE DEF new
  <1>4. new \notin attempts
    BY <1>2, <1>3 DEF AttemptsOK
  <1>5. TypeOK'
    <2>1. position' \in 0..Len(due')
      <3>1. due \in Seq(Feeds) /\ position + 1 \in DOMAIN due /\ due' = due
        BY <1>1, Consideration
      <3> QED BY <1>1, <3>1
    <2>2. attempted' \in 0..Concurrency
      BY <1>1, <1>2
    <2>3. attempts' \subseteq Attempt /\ IsFiniteSet(attempts')
      BY <1>1, <1>2, <1>3, FS_AddElement
    <2> QED BY <1>1, <2>1, <2>2, <2>3 DEF TypeOK
  <1>6. ProgressOK' /\ ReadingOK' /\ ListingMatchesInventory' /\ DueOK'
    BY <1>1, <1>2 DEF ProgressOK, ReadingOK, ListingMatchesInventory, DueOK
  <1>7. AttemptsOK'
    <2>1. ASSUME NEW a \in attempts
          PROVE  a.round <= rounds /\ (a.round = rounds => a.number < attempted + 1)
      <3>1. a.number \in Nat
        BY <1>2 DEF Attempt
      <3> QED BY <1>2, <3>1 DEF AttemptsOK
    <2> QED BY <1>1, <1>2, <1>3, <2>1 DEF AttemptsOK
  <1>8. ASSUME NEW f \in overlooked', f \in ToSet(due)
        PROVE  Cardinality(AttemptsAhead(f)') >= rounds * Concurrency + attempted + 1
    <2>1. Precedes(new.feed, f) /\ f \in overlooked
      BY <1>1, <1>3, <1>8, Consideration
    <2>2. AttemptsAhead(f)' = AttemptsAhead(f) \cup {new}
      BY <1>1, <2>1 DEF AttemptsAhead
    <2>3. IsFiniteSet(AttemptsAhead(f)) /\ new \notin AttemptsAhead(f)
      BY <1>2, <1>4, FS_Subset DEF AttemptsAhead
    <2>4. Cardinality(AttemptsAhead(f)') = Cardinality(AttemptsAhead(f)) + 1
      BY <2>2, <2>3, FS_AddElement
    <2>5. Cardinality(AttemptsAhead(f)) >= rounds * Concurrency + attempted
      BY <1>2, <1>8, <2>1 DEF TurnsOK
    <2>6. Cardinality(AttemptsAhead(f)) \in Nat /\ rounds * Concurrency \in Nat
      BY <1>2, <2>3, FS_CardinalityType
    <2> QED BY <1>2, <2>4, <2>5, <2>6
  <1>9. TurnsOK'
    <2>1. \A f \in overlooked' : \A k \in 1..position' : due[k] # f
      BY <1>1, Consideration
    <2>2. rounds * Concurrency + attempted + 1 = rounds * Concurrency + attempted'
      BY <1>1, <1>2
    <2> QED BY <1>1, <1>2, <1>8, <2>1, <2>2 DEF TurnsOK, PassedOverOnlyForAttempts
  <1> QED BY <1>5, <1>6, <1>7, <1>9

(* A cycle that leaves a due feed unconsidered has used up its allowance,  *)
(* all of it on feeds that precede it.                                     *)
LEMMA CycleEndsStep ==
    ASSUME FeedSelectionInv, CycleEnds
    PROVE  FeedSelectionInv'
  <1> USE DEF FeedSelectionInv
  <1>1. /\ status = "listed" /\ ~Considering /\ status' = "done" /\ rounds' = rounds + 1
        /\ overlooked' = overlooked \cap ToSet(due)
        /\ UNCHANGED <<inventory, offset, rows, due, position, attempted, size, stayed, added,
                       removed, attempts>>
    BY DEF CycleEnds, listing
  <1>2. /\ rounds \in Nat /\ rounds < MaxRounds /\ attempted \in 0..Concurrency
        /\ due \in Seq(Feeds) /\ position \in 0..Len(due)
    BY <1>1 DEF TypeOK, ProgressOK
  <1>3. TypeOK'
    <2>1. rounds' \in 0..MaxRounds
      BY <1>1, <1>2
    <2> QED BY <1>1, <2>1 DEF TypeOK
  <1>4. ProgressOK' /\ ReadingOK' /\ ListingMatchesInventory' /\ DueOK'
    BY <1>1 DEF ProgressOK, ReadingOK, ListingMatchesInventory, DueOK
  <1>5. AttemptsOK'
    <2>1. ASSUME NEW a \in attempts
          PROVE  a.round <= rounds /\ a.round \in Nat
      BY DEF AttemptsOK, TypeOK, Attempt
    <2> QED BY <1>1, <1>2, <2>1 DEF AttemptsOK
  <1>6. ASSUME NEW f \in overlooked'
        PROVE  Cardinality(AttemptsAhead(f)) >= (rounds + 1) * Concurrency
    <2>1. f \in overlooked /\ f \in ToSet(due)
      BY <1>1
    <2>2. attempted = Concurrency
      <3>1. PICK l \in DOMAIN due : due[l] = f
        BY <2>1 DEF ToSet
      <3>2. l \notin 1..position
        BY <1>1, <2>1, <3>1 DEF TurnsOK
      <3>3. position < Len(due)
        BY <1>2, <3>1, <3>2
      <3> QED BY <1>1, <1>2, <3>3 DEF Considering
    <2>3. Cardinality(AttemptsAhead(f)) >= rounds * Concurrency + attempted
      BY <1>1, <2>1 DEF TurnsOK
    <2>4. (rounds + 1) * Concurrency = rounds * Concurrency + Concurrency
      BY <1>2
    <2> QED BY <2>2, <2>3, <2>4
  <1>7. TurnsOK'
    BY <1>1, <1>6 DEF TurnsOK, PassedOverOnlyForAttempts, AttemptsAhead
  <1> QED BY <1>3, <1>4, <1>5, <1>7

-----------------------------------------------------------------------------
LEMMA FeedSelectionInit == Init => FeedSelectionInv
  <1> SUFFICES ASSUME Init PROVE FeedSelectionInv
    OBVIOUS
  <1>1. inventory \in Seq(Feeds) /\ IsInjective(inventory)
    <2>1. PICK S \in SUBSET Feeds : inventory = SetToSeq(S)
      BY DEF Init
    <2>2. IsFiniteSet(S)
      BY FS_Subset
    <2>3. Cardinality(S) \in Nat /\ ExistsBijection(1..Cardinality(S), S)
      BY <2>2, FS_CardinalityType
    <2>4. \E s \in [1..Cardinality(S) -> S] : IsInjective(s)
      BY <2>3 DEF ExistsBijection, Bijection, Injection
    <2>5. inventory \in [1..Cardinality(S) -> S] /\ IsInjective(inventory)
      BY <2>1, <2>4 DEF SetToSeq
    <2>6. inventory \in Seq(Feeds)
      <3>1. PICK n \in Nat : n = Cardinality(S)
        BY <2>3
      <3>2. inventory \in [1..n -> Feeds]
        BY <2>5, <3>1
      <3> QED BY <3>2
    <2> QED BY <2>5, <2>6
  <1>2. TypeOK
    <2>1. attempts \subseteq Attempt /\ IsFiniteSet(attempts) /\ overlooked \subseteq Feeds
      BY FS_EmptySet DEF Init
    <2>2. rows \in Seq(Feeds) /\ Len(rows) = 0 /\ due \in Seq(Feeds) /\ Len(due) = 0
      BY DEF Init
    <2>3. /\ status \in {"idle"} /\ offset \in 0..MaxRows - 1 /\ position \in 0..Len(due)
          /\ attempted \in 0..Concurrency /\ rounds \in 0..MaxRounds
          /\ Len(rows) < MaxRows + PageSize
      BY <2>2 DEF Init
    <2>4. stayed \subseteq ToSet(inventory) /\ size \in Nat /\ added \in Nat /\ removed \in Nat
      BY DEF Init
    <2> QED BY <1>1, <2>1, <2>2, <2>3, <2>4 DEF TypeOK
  <1>3. ProgressOK /\ ReadingOK /\ ListingMatchesInventory /\ DueOK /\ AttemptsOK
    BY <1>1 DEF Init, ProgressOK, ReadingOK, ListingMatchesInventory, DueOK, AttemptsOK
  <1>4. TurnsOK
    <2>1. rounds * Concurrency = 0 /\ status = "idle"
      BY DEF Init
    <2>2. \A f : {a \in attempts : Precedes(a.feed, f)} = {}
      BY DEF Init
    <2> QED BY <2>1, <2>2, FS_EmptySet DEF TurnsOK, PassedOverOnlyForAttempts
  <1> QED BY <1>2, <1>3, <1>4 DEF FeedSelectionInv

LEMMA FeedSelectionStep ==
    ASSUME FeedSelectionInv, [Next]_vars
    PROVE  FeedSelectionInv'
  <1>1. CASE UNCHANGED vars
    <2>1. UNCHANGED <<inventory, status, offset, rows, due, position, attempted, size, stayed,
                      added, removed, rounds, overlooked, attempts>>
      BY <1>1 DEF vars, listing, turns
    <2>2. TypeOK' /\ ProgressOK' /\ ReadingOK' /\ ListingMatchesInventory'
      BY <2>1 DEF FeedSelectionInv, TypeOK, ProgressOK, ReadingOK, ListingMatchesInventory
    <2>3. DueOK' /\ AttemptsOK' /\ TurnsOK'
      BY <2>1 DEF FeedSelectionInv, DueOK, AttemptsOK, TurnsOK, PassedOverOnlyForAttempts,
                  AttemptsAhead
    <2> QED BY <2>2, <2>3 DEF FeedSelectionInv
  <1>2. CASE Next
    BY <1>2, StartListingStep, LastPageStep, FullPageStep, PageFailsStep, FeedAddedStep,
       FeedRemovedStep, OccupiedStep, AttemptedStep, CycleEndsStep
    DEF Next, ListingStep, BackendStep, DecisionStep
  <1> QED BY <1>1, <1>2

(* A selection's state holds together after every step: what is read, what *)
(* is still to come, what is due and who has had a turn.                   *)
THEOREM FeedSelectionInvariant == Spec => []FeedSelectionInv
  BY FeedSelectionInit, FeedSelectionStep, PTL DEF Spec

(* Every row, decision, offset and count is what it is declared to be; the *)
(* rows stay below the limit and a page.                                   *)
THEOREM FeedSelectionTypeOK == Spec => []TypeOK
  BY FeedSelectionInvariant, PTL DEF FeedSelectionInv

(* Whatever order the rows come in, the cycle considers the same feeds in  *)
(* the same order (selectDueFeeds).                                        *)
THEOREM SelectionOrderIsTheFeedsOwn == Spec => []OrderIsTheFeedsOwn
  <1>1. FeedSelectionInv => OrderIsTheFeedsOwn
    <2>1. SUFFICES ASSUME FeedSelectionInv, status = "listed",
                          NEW p \in Bijection(DOMAIN rows, DOMAIN rows)
                   PROVE  Selected([i \in DOMAIN rows |-> rows[p[i]]]) = due
      BY DEF OrderIsTheFeedsOwn
    <2>2. rows \in Seq(Nat) /\ due = Selected(rows)
      <3>1. rows \in Seq(Feeds) /\ due = Selected(rows)
        BY <2>1 DEF FeedSelectionInv, TypeOK, DueOK
      <3> QED BY <3>1, FeedsAreNumbers
    <2> QED BY <2>1, <2>2, SelectedIsUnordered
  <1> QED BY <1>1, FeedSelectionInvariant, PTL

(* Whatever the backend adds and removes between two pages (listActiveFeeds *)
(* with its offsets), a listing misses a feed that stayed only when one was *)
(* removed, and repeats one only when one was added.                       *)
THEOREM ListingsMatchTheInventory == Spec => []ListingMatchesInventory
  BY FeedSelectionInvariant, PTL DEF FeedSelectionInv

(* However many cycles a window has and whatever becomes of their attempts *)
(* (runOnce's loop and its allowance), a feed that none has considered     *)
(* stood back behind full allowances of feeds that precede it.             *)
THEOREM OverlookedOnlyForAttempts == Spec => []PassedOverOnlyForAttempts
  BY FeedSelectionInvariant, PTL DEF FeedSelectionInv, TurnsOK
=============================================================================
