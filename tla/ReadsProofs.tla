----------------------------- MODULE ReadsProofs ------------------------------
(***************************************************************************)
(* What is promised of the lists and figures of the reads (Reads), for     *)
(* every table of leads, every staff and every set of queries:             *)
(*   - the pages of the deals are the list asked for;                      *)
(*   - the figures of a report agree with those of the others;             *)
(*   - and the figures of a screen add up to each other and to the lists   *)
(*     behind them.                                                        *)
(* A behaviour of the reports asks one question: the invariants say what   *)
(* its answer tells of the table (the Told predicates), and the rest       *)
(* follows from that.                                                      *)
(***************************************************************************)
EXTENDS AccessProofs

-----------------------------------------------------------------------------
(* The deals. *)

-----------------------------------------------------------------------------
(* TotallyOrders. *)

\* R orders the elements of L strictly and totally.
TotallyOrders(R, L) ==
  /\ \A a \in L : <<a, a>> \notin R
  /\ \A a, b, c \in L : <<a, b>> \in R /\ <<b, c>> \in R => <<a, c>> \in R
  /\ \A a, b \in L : a # b => <<a, b>> \in R \/ <<b, a>> \in R

\* The place of an element, and the sequence of them.
PlaceIn(R, L, l) == 1 + Cardinality({x \in L : <<x, l>> \in R})
InOrder(R, L) == [i \in 1 .. Cardinality(L) |-> CHOOSE l \in L : PlaceIn(R, L, l) = i]

\* The place of an element in a total order is among the places, and they ascend with it.
LEMMA PlacesAscend ==
  ASSUME NEW L, IsFiniteSet(L), NEW R, TotallyOrders(R, L)
  PROVE  /\ \A l \in L : PlaceIn(R, L, l) \in 1 .. Cardinality(L)
         /\ \A a, b \in L : <<a, b>> \in R => PlaceIn(R, L, a) < PlaceIn(R, L, b)
<1> DEFINE Under(l) == {x \in L : <<x, l>> \in R}
<1>1. \A l \in L : /\ Under(l) \subseteq L /\ IsFiniteSet(Under(l)) /\ Cardinality(Under(l)) \in Nat
  BY FS_Subset, FS_CardinalityType
<1>2. ASSUME NEW A, NEW B, IsFiniteSet(B), A \subseteq B, NEW x \in B, x \notin A
      PROVE  Cardinality(A) < Cardinality(B)
  <2>1. IsFiniteSet(A) /\ Cardinality(A) <= Cardinality(B) /\ Cardinality(A) \in Nat /\ Cardinality(B) \in Nat
    BY <1>2, FS_Subset, FS_CardinalityType
  <2>2. Cardinality(A) = Cardinality(B) => A = B
    BY <1>2, FS_Subset
  <2> QED BY <1>2, <2>1, <2>2
<1>3. ASSUME NEW l \in L
      PROVE  PlaceIn(R, L, l) \in 1 .. Cardinality(L)
  <2>1. l \notin Under(l)
    BY DEF TotallyOrders
  <2>2. Cardinality(Under(l)) < Cardinality(L)
    BY <1>1, <1>2, <2>1
  <2> QED BY <1>1, <2>2, FS_CardinalityType DEF PlaceIn
<1>4. ASSUME NEW a \in L, NEW b \in L, <<a, b>> \in R
      PROVE  PlaceIn(R, L, a) < PlaceIn(R, L, b)
  <2>1. Under(a) \subseteq Under(b)
    BY <1>4 DEF TotallyOrders
  <2>2. a \in Under(b) /\ a \notin Under(a)
    BY <1>4 DEF TotallyOrders
  <2>3. Cardinality(Under(a)) < Cardinality(Under(b))
    BY <1>1, <1>2, <2>1, <2>2
  <2> DEFINE u == Cardinality(Under(a))
             v == Cardinality(Under(b))
  <2>4. u < v /\ u \in Nat /\ v \in Nat
    BY <1>1, <2>3
  <2>5. PlaceIn(R, L, a) = 1 + u /\ PlaceIn(R, L, b) = 1 + v
    BY DEF PlaceIn
  <2> HIDE DEF u, v
  <2> QED BY <2>4, <2>5
<1> QED BY <1>3, <1>4

\* A set in order is a sequence of each of its elements, each before those it precedes.
LEMMA OrderIsWhole ==
  ASSUME NEW L, IsFiniteSet(L), NEW R, TotallyOrders(R, L)
  PROVE  /\ InOrder(R, L) \in [1 .. Cardinality(L) -> L]
         /\ \A l \in L : \E i \in 1 .. Cardinality(L) : InOrder(R, L)[i] = l
         /\ \A i, j \in 1 .. Cardinality(L) : InOrder(R, L)[i] = InOrder(R, L)[j] => i = j
         /\ \A i, j \in 1 .. Cardinality(L) :
              i < j => <<InOrder(R, L)[i], InOrder(R, L)[j]>> \in R
         /\ \A i \in 1 .. Cardinality(L) : PlaceIn(R, L, InOrder(R, L)[i]) = i
<1> DEFINE n == Cardinality(L)
           place == [l \in L |-> PlaceIn(R, L, l)]
           order == InOrder(R, L)
<1>1. /\ n \in Nat /\ \A l \in L : place[l] \in 1 .. n
      /\ \A a, b \in L : <<a, b>> \in R => place[a] < place[b]
  BY PlacesAscend, FS_CardinalityType
<1>a. \A a, b \in L : place[a] = place[b] => a = b
  <2> SUFFICES ASSUME NEW a \in L, NEW b \in L, place[a] = place[b], a # b PROVE FALSE
    OBVIOUS
  <2> HIDE DEF place, n
  <2>1. place[a] \in Nat /\ place[b] \in Nat
    BY <1>1
  <2>2. <<a, b>> \in R \/ <<b, a>> \in R
    BY DEF TotallyOrders
  <2>3. place[a] < place[b] \/ place[b] < place[a]
    BY <1>1, <2>2
  <2> QED BY <2>1, <2>3
<1>2. place \in Injection(L, 1 .. n)
  <2>1. place \in [L -> 1 .. n]
    BY <1>1
  <2> HIDE DEF place
  <2> QED BY <1>a, <2>1, Fun_IsInj
<1>3. place \in Surjection(L, 1 .. n)
  <2>1. IsFiniteSet(1 .. n) /\ Cardinality(1 .. n) = n
    BY <1>1, FS_Interval
  <2> HIDE DEF place
  <2> QED BY <1>2, <2>1, FS_Injection
<1>4. \A i \in 1 .. n : \E l \in L : place[l] = i
  <2> HIDE DEF place
  <2> QED BY <1>3 DEF Surjection
<1>5. \A i \in 1 .. n : order[i] \in L /\ place[order[i]] = i
  BY <1>4 DEF InOrder
<1>6. \A l \in L : order[place[l]] = l
  <2> HIDE DEF place, order
  <2> QED BY <1>1, <1>5, <1>a
<1>7. order \in [1 .. n -> L]
  <2>1. order = [i \in 1 .. n |-> order[i]]
    BY DEF InOrder
  <2> HIDE DEF order
  <2> QED BY <1>5, <2>1
<1>8. \A i, j \in 1 .. n : i < j => <<order[i], order[j]>> \in R
  <2> SUFFICES ASSUME NEW i \in 1 .. n, NEW j \in 1 .. n, i < j PROVE <<order[i], order[j]>> \in R
    OBVIOUS
  <2> HIDE DEF place, order
  <2>1. order[i] # order[j] /\ ~(place[order[j]] < place[order[i]])
    BY <1>5
  <2> QED BY <1>1, <1>5, <2>1 DEF TotallyOrders
<1>10. \A i \in 1 .. n : PlaceIn(R, L, order[i]) = i
  BY <1>5
<1> HIDE DEF place, order
<1>9. \A i, j \in 1 .. n : order[i] = order[j] => i = j
  BY <1>5
<1> QED BY <1>1, <1>6, <1>7, <1>8, <1>9, <1>10 DEF order

-----------------------------------------------------------------------------
(* Pages. *)

\* Arithmetic of pages.
LEMMA DivIs ==
  ASSUME NEW a \in Nat, NEW d \in Nat \ {0}
  PROVE  /\ a \div d \in Nat /\ d * (a \div d) <= a /\ a < d * (a \div d) + d
<1>1. a \div d \in Int
  OBVIOUS
<1>2. a % d \in 0 .. d - 1
  OBVIOUS
<1>3. a = d * (a \div d) + (a % d)
  OBVIOUS
<1>4. a \div d \in Nat
  OBVIOUS
<1> QED BY <1>1, <1>2, <1>3, <1>4

LEMMA Times ==
  ASSUME NEW a \in Nat, NEW d \in Nat \ {0}
  PROVE  (a + 1) * d = a * d + d /\ a * d \in Nat
OBVIOUS

LEMMA Bigger ==
  ASSUME NEW a \in Nat, NEW b \in Nat, NEW d \in Nat \ {0}, a < b
  PROVE  a * d + d <= b * d
<1>1. PICK c \in Nat : b = a + 1 + c
  <2>1. b - a - 1 \in Nat /\ b = a + 1 + (b - a - 1)
    OBVIOUS
  <2> QED BY <2>1
<1>2. b * d = a * d + d + c * d
  BY <1>1
<1>3. c * d \in Nat /\ a * d \in Nat
  OBVIOUS
<1> QED BY <1>2, <1>3

PageCount(n, d) == (n + d - 1) \div d

\* The pages of n rows, d to a page, hold each of the rows at a place of its own.
LEMMA PagesTile ==
  ASSUME NEW n \in Nat, NEW d \in Nat \ {0}
  PROVE  /\ PageCount(n, d) \in Nat
         /\ \A p \in 1 .. PageCount(n, d) : (p - 1) * d \in Nat /\ (p - 1) * d < n /\ p * d = (p - 1) * d + d
         /\ \A k \in 1 .. n : \E p \in 1 .. PageCount(n, d), i \in 1 .. d : (p - 1) * d + i = k
         /\ \A p, r \in 1 .. PageCount(n, d), i, j \in 1 .. d :
              (p - 1) * d + i = (r - 1) * d + j => p = r /\ i = j
<1> DEFINE count == PageCount(n, d)
<1>1. /\ n + d - 1 \in Nat /\ count \in Nat /\ d * count <= n + d - 1 /\ n + d - 1 < d * count + d
  <2>1. n + d - 1 \in Nat
    OBVIOUS
  <2> QED BY <2>1, DivIs DEF PageCount
<1> HIDE DEF count
<1>2. ASSUME NEW p \in 1 .. count
      PROVE  (p - 1) * d \in Nat /\ (p - 1) * d < n /\ p * d = (p - 1) * d + d
  <2>1. p - 1 \in Nat /\ (p - 1) + 1 = p
    BY <1>1
  <2>2. p * d = (p - 1) * d + d /\ (p - 1) * d \in Nat
    BY <2>1, Times
  <2>3. (p - 1) * d + d <= count * d
    <3>1. p - 1 < count
      BY <1>1
    <3> QED BY <1>1, <2>1, <3>1, Bigger
  <2>4. count * d = d * count
    BY <1>1
  <2> DEFINE u == (p - 1) * d
             v == d * count
  <2>5. u \in Nat /\ v \in Int /\ u + d <= v /\ v <= n + d - 1
    BY <1>1, <2>2, <2>3, <2>4
  <2> HIDE DEF u, v
  <2>6. u < n
    BY <2>5
  <2> QED BY <2>2, <2>6 DEF u
<1>3. ASSUME NEW k \in 1 .. n
      PROVE  \E p \in 1 .. count, i \in 1 .. d : (p - 1) * d + i = k
  <2> DEFINE w == (k - 1) \div d
             u == d * w
             v == d * count
  <2>1. w \in Nat /\ u <= k - 1 /\ k - 1 < u + d
    <3>1. k - 1 \in Nat
      OBVIOUS
    <3> QED BY <3>1, DivIs
  <2> HIDE DEF w
  <2>2. w < count
    <3> SUFFICES ASSUME ~(w < count) PROVE FALSE
      OBVIOUS
    <3>1. count < w \/ count = w
      BY <1>1, <2>1
    <3>2. v <= u
      <4>1. CASE count = w
        BY <2>1, <4>1
      <4>2. CASE count < w
        <5>1. count * d + d <= w * d
          BY <1>1, <2>1, <4>2, Bigger
        <5>2. count * d = v /\ w * d = u
          BY <1>1, <2>1
        <5>3. v + d <= u /\ v \in Int /\ u \in Int
          BY <1>1, <2>1, <5>1, <5>2
        <5> HIDE DEF u, v
        <5> QED BY <5>3
      <4> QED BY <3>1, <4>1, <4>2
    <3>3. v \in Int /\ u \in Int /\ n + d - 1 < v + d
      BY <1>1, <2>1
    <3> HIDE DEF u, v
    <3> QED BY <2>1, <3>2, <3>3
  <2>3. u \in Nat /\ (w + 1 - 1) * d = u
    BY <2>1
  <2>4. k - u \in 1 .. d /\ u + (k - u) = k /\ w + 1 \in 1 .. count
    <3> HIDE DEF u
    <3> QED BY <1>1, <2>1, <2>2, <2>3
  <2> DEFINE page == w + 1
             row == k - u
  <2>5. page \in 1 .. count /\ row \in 1 .. d
    BY <2>4
  <2>6. (page - 1) * d + row = k
    <3>1. (page - 1) * d = u
      <4>1. page - 1 = w
        BY <2>1
      <4> HIDE DEF page
      <4> QED BY <2>1, <4>1
    <3> HIDE DEF u
    <3> QED BY <2>3, <3>1
  <2> HIDE DEF page, row
  <2> QED BY <2>5, <2>6
<1>4. ASSUME NEW p \in 1 .. count, NEW r \in 1 .. count, NEW i \in 1 .. d, NEW j \in 1 .. d, p < r
      PROVE  (p - 1) * d + i < (r - 1) * d + j
  <2> DEFINE u == (p - 1) * d
             v == (r - 1) * d
  <2>1. p - 1 \in Nat /\ r - 1 \in Nat /\ p - 1 < r - 1
    BY <1>1, <1>4
  <2>2. u + d <= v
    BY <2>1, Bigger
  <2>3. u \in Nat /\ v \in Nat
    BY <1>2
  <2> HIDE DEF u, v
  <2>4. u + i < v + j
    BY <2>2, <2>3
  <2> QED BY <2>4 DEF u, v
<1>5. ASSUME NEW p \in 1 .. count, NEW r \in 1 .. count, NEW i \in 1 .. d, NEW j \in 1 .. d,
             (p - 1) * d + i = (r - 1) * d + j
      PROVE  p = r /\ i = j
  <2> DEFINE u == (p - 1) * d + i
             v == (r - 1) * d + j
  <2>1. u \in Nat /\ v \in Nat /\ u = v
    BY <1>2, <1>5
  <2>2. p < r => u < v
    BY <1>4
  <2>3. r < p => v < u
    BY <1>4
  <2>4. p = r
    <3> HIDE DEF u, v
    <3> QED BY <1>1, <2>1, <2>2, <2>3
  <2>5. i = j
    BY <1>2, <1>5, <2>4
  <2> QED BY <2>4, <2>5
<1> QED BY <1>1, <1>2, <1>3, <1>5 DEF count

\* The rows up to the last of a page.
RowsUpTo(order, last, d) ==
  SubSeq(order, last - d + 1, IF last < Len(order) THEN last ELSE Len(order))

\* Those of the d rows after the first a that there are.
HoldsFrom(rows, order, n, a, d) ==
  /\ DOMAIN rows \subseteq 1 .. d
  /\ \A i \in 1 .. d : /\ i \in DOMAIN rows <=> a + i \in 1 .. n
                       /\ i \in DOMAIN rows => rows[i] = order[a + i]

\* The rows of a page.
LEMMA PageRows ==
  ASSUME NEW X, NEW n \in Nat, NEW order \in [1 .. n -> X], NEW d \in Nat \ {0},
         NEW a \in Nat, a < n
  PROVE  HoldsFrom(RowsUpTo(order, a + d, d), order, n, a, d)
<1> DEFINE b == IF a + d < n THEN a + d ELSE n
           last == a + d
           rows == RowsUpTo(order, a + d, d)
<1>1. order \in Seq(X) /\ Len(order) = n /\ DOMAIN order = 1 .. n
  OBVIOUS
<1>2. last - d + 1 = a + 1
  OBVIOUS
<1>3. rows = SubSeq(order, a + 1, b)
  BY <1>1, <1>2 DEF RowsUpTo
<1>4. b \in Nat /\ a + 1 <= b /\ b <= n /\ b <= a + d /\ (b < a + d => b = n)
  OBVIOUS
<1> HIDE DEF b, rows
<1>5. rows = [i \in 1 .. (1 + b - (a + 1)) |-> order[i + (a + 1) - 1]]
  BY <1>1, <1>3, <1>4
<1>6. 1 + b - (a + 1) = b - a /\ \A i \in Nat : i + (a + 1) - 1 = a + i
  BY <1>4
<1>7. DOMAIN rows = 1 .. b - a /\ \A i \in 1 .. b - a : rows[i] = order[a + i]
  BY <1>4, <1>5, <1>6
<1>8. 1 .. b - a \subseteq 1 .. d
  BY <1>4
<1>9. ASSUME NEW i \in 1 .. d PROVE i \in 1 .. b - a <=> a + i \in 1 .. n
  BY <1>4
<1>10. HoldsFrom(rows, order, n, a, d)
  BY <1>7, <1>8, <1>9 DEF HoldsFrom
<1> QED BY <1>10 DEF rows

\* The pages of the deals.
DealPages(order, q) ==
  [p \in 1 .. (Len(order) + q.size - 1) \div q.size |-> dealPage(order, q, p)]

\* The spots are the places of the list, and a heading tells how many deals its group has.
SpotsCover(order, q, n) ==
  LET d == q.size
      pages == DealPages(order, q)
      spots == Spots(pages, d)
  IN /\ \A x \in spots : /\ x[1] \in DOMAIN pages /\ SpotAt(x, d) \in 1 .. n
                         /\ pages[x[1]].rows[x[2]] = order[SpotAt(x, d)].id
     /\ \A x, y \in spots : SpotAt(x, d) = SpotAt(y, d) => x = y
     /\ \A k \in 1 .. n : \E x \in spots : SpotAt(x, d) = k
     /\ \A p \in DOMAIN pages : \A i \in DOMAIN pages[p].heads :
          pages[p].heads[i][2]
            = Cardinality({l \in {order[j] : j \in DOMAIN order} :
                            groupOf(q.group, l) = pages[p].heads[i][1]})

\* Every row of the list is on one page, at one spot.
LEMMA SpotsTile ==
  ASSUME NEW X, NEW n \in Nat, NEW order \in [1 .. n -> X], NEW q, q.size \in Nat \ {0}
  PROVE  SpotsCover(order, q, n)
<1> DEFINE d == q.size
           count == PageCount(n, d)
           pages == DealPages(order, q)
           spots == Spots(pages, d)
<1>1. Len(order) = n /\ DOMAIN order = 1 .. n
  OBVIOUS
<1>2. DOMAIN pages = 1 .. count /\ \A p \in 1 .. count : pages[p] = dealPage(order, q, p)
  BY <1>1 DEF DealPages, PageCount
<1>3. /\ count \in Nat
      /\ \A p \in 1 .. count : (p - 1) * d \in Nat /\ (p - 1) * d < n /\ p * d = (p - 1) * d + d
      /\ \A k \in 1 .. n : \E p \in 1 .. count, i \in 1 .. d : (p - 1) * d + i = k
      /\ \A p, r \in 1 .. count, i, j \in 1 .. d :
           (p - 1) * d + i = (r - 1) * d + j => p = r /\ i = j
  BY PagesTile
<1> HIDE DEF pages, count
<1>4. ASSUME NEW p \in 1 .. count
      PROVE  /\ \A i \in 1 .. d : i \in DOMAIN pages[p].rows <=> (p - 1) * d + i \in 1 .. n
             /\ \A i \in 1 .. d : i \in DOMAIN pages[p].rows =>
                                    pages[p].rows[i] = order[(p - 1) * d + i].id
             /\ \A i \in DOMAIN pages[p].heads :
                  pages[p].heads[i][2]
                    = Cardinality({l \in {order[j] : j \in DOMAIN order} :
                                    groupOf(q.group, l) = pages[p].heads[i][1]})
  <2> DEFINE a == (p - 1) * d
             last == p * d
             rows == RowsUpTo(order, last, d)
             label(i) == groupOf(q.group, rows[i])
             heads == {i \in DOMAIN rows : i = 1 \/ label(i) # label(i - 1)}
  <2>1. pages[p] =
          [rows |-> [i \in DOMAIN rows |-> rows[i].id],
           heads |-> [i \in heads |-> <<label(i), Cardinality({l \in {order[j] : j \in DOMAIN order} :
                                                                groupOf(q.group, l) = label(i)})>>]]
    BY <1>2 DEF dealPage, RowsUpTo
  <2>2. a \in Nat /\ a < n /\ last = a + d
    BY <1>3
  <2> HIDE DEF a, last
  <2>3. /\ DOMAIN rows \subseteq 1 .. d
        /\ \A i \in 1 .. d : /\ i \in DOMAIN rows <=> a + i \in 1 .. n
                             /\ i \in DOMAIN rows => rows[i] = order[a + i]
    <3>1. rows = RowsUpTo(order, a + d, d)
      BY <2>2
    <3>2. HoldsFrom(RowsUpTo(order, a + d, d), order, n, a, d)
      BY <2>2, PageRows
    <3> HIDE DEF rows
    <3> QED BY <3>1, <3>2 DEF HoldsFrom
  <2> HIDE DEF rows, heads
  <2>4. /\ \A i \in 1 .. d : i \in DOMAIN pages[p].rows <=> a + i \in 1 .. n
        /\ \A i \in 1 .. d : i \in DOMAIN pages[p].rows => pages[p].rows[i] = order[a + i].id
    BY <2>1, <2>3
  <2>5. \A i \in DOMAIN pages[p].heads :
          pages[p].heads[i][2]
            = Cardinality({l \in {order[j] : j \in DOMAIN order} :
                            groupOf(q.group, l) = pages[p].heads[i][1]})
    BY <2>1
  <2> QED BY <2>4, <2>5 DEF a
<1>5. \A x \in spots : /\ x[1] \in 1 .. count /\ x[2] \in 1 .. d /\ x = <<x[1], x[2]>>
                       /\ x[2] \in DOMAIN pages[x[1]].rows
  BY <1>2 DEF Spots
<1>6. \A x \in spots : /\ x[1] \in DOMAIN pages /\ SpotAt(x, d) \in 1 .. n
                       /\ pages[x[1]].rows[x[2]] = order[SpotAt(x, d)].id
  BY <1>2, <1>4, <1>5 DEF SpotAt
<1>7. \A x, y \in spots : SpotAt(x, d) = SpotAt(y, d) => x = y
  <2> SUFFICES ASSUME NEW x \in spots, NEW y \in spots, SpotAt(x, d) = SpotAt(y, d) PROVE x = y
    OBVIOUS
  <2>1. (x[1] - 1) * d + x[2] = (y[1] - 1) * d + y[2]
    BY DEF SpotAt
  <2> HIDE DEF d, spots
  <2>2. x[1] = y[1] /\ x[2] = y[2]
    BY <1>3, <1>5, <2>1
  <2> QED BY <1>5, <2>2
<1>8. ASSUME NEW k \in 1 .. n PROVE \E x \in spots : SpotAt(x, d) = k
  <2>1. PICK p \in 1 .. count, i \in 1 .. d : (p - 1) * d + i = k
    BY <1>3
  <2>2. <<p, i>> \in spots /\ SpotAt(<<p, i>>, d) = k
    BY <1>2, <1>4, <2>1 DEF Spots, SpotAt
  <2> QED BY <2>2
<1>9. \A p \in DOMAIN pages : \A i \in DOMAIN pages[p].heads :
        pages[p].heads[i][2]
          = Cardinality({l \in {order[j] : j \in DOMAIN order} : groupOf(q.group, l) = pages[p].heads[i][1]})
  BY <1>2, <1>4
<1> QED BY <1>6, <1>7, <1>8, <1>9 DEF SpotsCover, pages

-----------------------------------------------------------------------------
(* The order of the deals. *)

\* What the deals may be: leads of the pool.
LeadsOfPool == {Pool[id] : id \in DOMAIN Pool}

\* What the order reads of a lead of the pool.
LEMMA PoolColumns ==
  ASSUME NEW l \in LeadsOfPool, NEW g \in Groupings
  PROVE  /\ l.id \in Nat /\ l.statusChangedAt \in Nat /\ l.actualAmount \in Nat \cup {Null}
         /\ Pool[l.id] = l
         /\ Rank(groupOf(g, l)) \in Nat
         /\ \A m \in LeadsOfPool : l.id = m.id => l = m
         /\ \A m \in LeadsOfPool : Rank(groupOf(g, l)) = Rank(groupOf(g, m)) => groupOf(g, l) = groupOf(g, m)
<1>1. PICK id \in DOMAIN Pool : l = Pool[id]
  BY DEF LeadsOfPool
<1>2. \A k \in DOMAIN Pool : Pool[k].id = k /\ Pool[k].id \in Nat
  BY PoolAssumption
<1>3. l.id = id /\ l.id \in Nat /\ l.statusChangedAt \in Nat /\ l.actualAmount \in Nat \cup {Null}
  BY <1>1, PoolAssumption
<1>4. \A m \in LeadsOfPool : l.id = m.id => l = m
  BY <1>1, <1>2 DEF LeadsOfPool
<1>5. ASSUME NEW m \in LeadsOfPool
      PROVE  /\ Rank(groupOf(g, m)) \in 1 .. Len(Alphabet)
             /\ Alphabet[Rank(groupOf(g, m))] = groupOf(g, m)
  <2>1. PICK k \in DOMAIN Pool : m = Pool[k]
    BY DEF LeadsOfPool
  <2>2. \E i \in 1 .. Len(Alphabet) : Alphabet[i] = groupOf(g, m)
    BY <2>1, GroupsAssumption
  <2> QED BY <2>2 DEF Rank
<1>6. Len(Alphabet) \in Nat
  BY GroupsAssumption
<1>7. Rank(groupOf(g, l)) \in Nat
  BY <1>5, <1>6
<1> QED BY <1>1, <1>3, <1>4, <1>5, <1>7

\* The pairs of deals of which the first stands before the second.
DealOrder(L, q) == {p \in L \X L : DealBefore(L, q, p[1], p[2])}

\* Before, by value: empty values last.
Earlier(q, a, b) == q.sorted /\ ValueBefore(a.actualAmount, b.actualAmount, q.up)

\* The sort asked for orders deals weakly,
LEMMA EarlierIsWeak ==
  ASSUME NEW q,
         NEW a \in LeadsOfPool, NEW b \in LeadsOfPool, NEW c \in LeadsOfPool
  PROVE  /\ ~Earlier(q, a, a)
         /\ Earlier(q, a, b) => ~Earlier(q, b, a)
         /\ Earlier(q, a, b) /\ Earlier(q, b, c) => Earlier(q, a, c)
         /\ ~Earlier(q, a, b) /\ ~Earlier(q, b, c) => ~Earlier(q, a, c)
<1>1. "none" \in Groupings
  BY DEF Groupings
<1>2. /\ a.actualAmount \in Nat \cup {Null} /\ b.actualAmount \in Nat \cup {Null}
      /\ c.actualAmount \in Nat \cup {Null}
  BY <1>1, PoolColumns
<1> DEFINE x == a.actualAmount
           y == b.actualAmount
           z == c.actualAmount
<1> HIDE DEF x, y, z
<1>3. \A up : /\ ~ValueBefore(x, x, up)
              /\ ValueBefore(x, y, up) => ~ValueBefore(y, x, up)
              /\ ValueBefore(x, y, up) /\ ValueBefore(y, z, up) => ValueBefore(x, z, up)
              /\ ~ValueBefore(x, y, up) /\ ~ValueBefore(y, z, up) => ~ValueBefore(x, z, up)
  BY <1>2 DEF ValueBefore, x, y, z
<1> QED BY <1>3 DEF Earlier, x, y, z

\* the latest deal and the id order them totally,
LEMMA LatestIsStrict ==
  ASSUME NEW a \in LeadsOfPool, NEW b \in LeadsOfPool, NEW c \in LeadsOfPool
  PROVE  /\ ~LatestFirst(a, a)
         /\ LatestFirst(a, b) => ~LatestFirst(b, a)
         /\ LatestFirst(a, b) /\ LatestFirst(b, c) => LatestFirst(a, c)
         /\ a # b => LatestFirst(a, b) \/ LatestFirst(b, a)
<1>1. "none" \in Groupings
  BY DEF Groupings
<1>2. /\ a.statusChangedAt \in Nat /\ b.statusChangedAt \in Nat /\ c.statusChangedAt \in Nat
      /\ a.id \in Nat /\ b.id \in Nat /\ c.id \in Nat /\ (a.id = b.id => a = b)
  BY <1>1, PoolColumns
<1> QED BY <1>2 DEF LatestFirst

\* The group of a before that of b: the larger one first, then by label.
GroupFirst(L, q, a, b) ==
  LET size(k) == Cardinality({l \in L : groupOf(q.group, l) = k}) IN
  GroupBefore(groupOf(q.group, a), groupOf(q.group, b), size)

\* and the groups are ordered by size and label.
LEMMA GroupsAreOrdered ==
  ASSUME NEW L, IsFiniteSet(L), NEW q, q.group \in Groupings,
         NEW a \in LeadsOfPool, NEW b \in LeadsOfPool, NEW c \in LeadsOfPool
  PROVE  /\ GroupFirst(L, q, a, b) => ~GroupFirst(L, q, b, a) /\ groupOf(q.group, a) # groupOf(q.group, b)
         /\ GroupFirst(L, q, a, b) /\ GroupFirst(L, q, b, c) => GroupFirst(L, q, a, c)
         /\ groupOf(q.group, a) # groupOf(q.group, b) => GroupFirst(L, q, a, b) \/ GroupFirst(L, q, b, a)
<1> DEFINE size(l) == Cardinality({x \in L : groupOf(q.group, x) = groupOf(q.group, l)})
           rank(l) == Rank(groupOf(q.group, l))
<1>1. \A l : size(l) \in Nat
  BY FS_Subset, FS_CardinalityType
<1>2. rank(a) \in Nat /\ rank(b) \in Nat /\ rank(c) \in Nat
  BY PoolColumns
<1>3. \A x, y \in LeadsOfPool : rank(x) = rank(y) => groupOf(q.group, x) = groupOf(q.group, y)
  BY PoolColumns
<1>4. \A x, y \in LeadsOfPool : GroupFirst(L, q, x, y) <=>
                                  size(x) > size(y) \/ (size(x) = size(y) /\ rank(x) < rank(y))
  BY DEF GroupFirst, GroupBefore
<1>5. \A x, y : groupOf(q.group, x) = groupOf(q.group, y) => size(x) = size(y) /\ rank(x) = rank(y)
  OBVIOUS
<1> HIDE DEF size, rank
<1> QED BY <1>1, <1>2, <1>3, <1>4, <1>5

\* DealBefore compares the groups, then the sort, then the latest deal.
LEMMA DealBeforeIs ==
  ASSUME NEW L, IsFiniteSet(L), NEW q, q.group \in Groupings,
         NEW a \in LeadsOfPool, NEW b \in LeadsOfPool
  PROVE  DealBefore(L, q, a, b) <=>
           \/ GroupFirst(L, q, a, b)
           \/ /\ groupOf(q.group, a) = groupOf(q.group, b)
              /\ Earlier(q, a, b) \/ (~Earlier(q, b, a) /\ LatestFirst(a, b))
<1> DEFINE g == groupOf(q.group, a)
           h == groupOf(q.group, b)
<1>1. DealBefore(L, q, a, b) <=>
        \/ g # h /\ GroupFirst(L, q, a, b)
        \/ g # h /\ ~GroupFirst(L, q, b, a) /\ LatestFirst(a, b)
        \/ g = h /\ Earlier(q, a, b)
        \/ g = h /\ ~Earlier(q, a, b) /\ ~Earlier(q, b, a) /\ LatestFirst(a, b)
  BY DEF DealBefore, GroupFirst, Earlier
<1>2. /\ GroupFirst(L, q, a, b) => ~GroupFirst(L, q, b, a) /\ g # h
      /\ g # h => GroupFirst(L, q, a, b) \/ GroupFirst(L, q, b, a)
  BY GroupsAreOrdered
<1>3. Earlier(q, a, b) => ~Earlier(q, b, a)
  BY EarlierIsWeak
<1> HIDE DEF g, h
<1> QED BY <1>1, <1>2, <1>3 DEF g, h

\* So it is a total order of the deals.
LEMMA DealsAreOrdered ==
  ASSUME NEW L, IsFiniteSet(L), L \subseteq LeadsOfPool, NEW q, q.group \in Groupings
  PROVE  TotallyOrders(DealOrder(L, q), L)
<1> DEFINE Same(a, b) == groupOf(q.group, a) = groupOf(q.group, b)
           Inside(a, b) == Earlier(q, a, b) \/ (~Earlier(q, b, a) /\ LatestFirst(a, b))
           First(a, b) == GroupFirst(L, q, a, b)
<1>1. \A a, b \in L : <<a, b>> \in DealOrder(L, q) <=> First(a, b) \/ (Same(a, b) /\ Inside(a, b))
  BY DealBeforeIs DEF DealOrder
<1>2. \A a, b, c \in L :
        /\ First(a, b) => ~First(b, a) /\ ~Same(a, b)
        /\ First(a, b) /\ First(b, c) => First(a, c)
        /\ ~Same(a, b) => First(a, b) \/ First(b, a)
  BY GroupsAreOrdered
<1>3. \A a, b, c \in L : /\ First(a, b) /\ Same(b, c) => First(a, c)
                         /\ Same(a, b) /\ First(b, c) => First(a, c)
  BY DEF GroupFirst, GroupBefore
<1>4. \A a \in L : ~Inside(a, a)
  BY EarlierIsWeak, LatestIsStrict
<1>5. \A a, b, c \in L : Inside(a, b) /\ Inside(b, c) => Inside(a, c)
  <2> SUFFICES ASSUME NEW a \in L, NEW b \in L, NEW c \in L, Inside(a, b), Inside(b, c) PROVE Inside(a, c)
    OBVIOUS
  <2> DEFINE E1 == Earlier(q, a, b)
             E2 == Earlier(q, b, a)
             E3 == Earlier(q, b, c)
             E4 == Earlier(q, c, b)
             E5 == Earlier(q, a, c)
             E6 == Earlier(q, c, a)
  <2>1. /\ E1 => ~E2 /\ (E3 => ~E4) /\ (E5 => ~E6)
        /\ (E1 /\ E3 => E5) /\ (~E1 /\ ~E3 => ~E5)
        /\ (E4 /\ E2 => E6) /\ (~E4 /\ ~E2 => ~E6)
    BY EarlierIsWeak
  <2>2. /\ (E1 => ~E2) /\ (E3 => ~E4) /\ (E5 => ~E6)
        /\ (~E5 /\ ~E4 => ~E1) /\ (~E2 /\ ~E5 => ~E3)
    BY EarlierIsWeak
  <2>3. LatestFirst(a, b) /\ LatestFirst(b, c) => LatestFirst(a, c)
    BY LatestIsStrict
  <2> HIDE DEF E1, E2, E3, E4, E5, E6
  <2>4. (E1 \/ (~E2 /\ LatestFirst(a, b))) /\ (E3 \/ (~E4 /\ LatestFirst(b, c)))
    BY DEF E1, E2, E3, E4
  <2>5. E5 \/ (~E6 /\ LatestFirst(a, c))
    BY <2>1, <2>2, <2>3, <2>4
  <2> QED BY <2>5 DEF E5, E6
<1>6. \A a, b \in L : a # b => Inside(a, b) \/ Inside(b, a)
  BY EarlierIsWeak, LatestIsStrict
<1>7. \A a, b, c \in L : Same(a, a) /\ (Same(a, b) => Same(b, a)) /\ (Same(a, b) /\ Same(b, c) => Same(a, c))
  OBVIOUS
<1> HIDE DEF Same, Inside, First
<1>8. \A a \in L : <<a, a>> \notin DealOrder(L, q)
  BY <1>1, <1>2, <1>4
<1>9. \A a, b, c \in L : <<a, b>> \in DealOrder(L, q) /\ <<b, c>> \in DealOrder(L, q)
                           => <<a, c>> \in DealOrder(L, q)
  BY <1>1, <1>2, <1>3, <1>5, <1>7
<1>10. \A a, b \in L : a # b => <<a, b>> \in DealOrder(L, q) \/ <<b, a>> \in DealOrder(L, q)
  BY <1>1, <1>2, <1>6, <1>7
<1> QED BY <1>8, <1>9, <1>10 DEF TotallyOrders

\* The list of deals is each of them once, in their order.
LEMMA DealsInOrder ==
  ASSUME NEW L, IsFiniteSet(L), L \subseteq LeadsOfPool, NEW q, q.group \in Groupings
  PROVE  orderDeals(L, q) = InOrder(DealOrder(L, q), L)
<1> DEFINE R == DealOrder(L, q)
           n == Cardinality(L)
           place(l) == 1 + Cardinality({x \in L : DealBefore(L, q, x, l)})
           order == InOrder(R, L)
<1>1. TotallyOrders(R, L)
  BY DealsAreOrdered
<1>2. \A l \in L : place(l) = PlaceIn(R, L, l)
  <2> SUFFICES ASSUME NEW l \in L PROVE place(l) = PlaceIn(R, L, l)
    OBVIOUS
  <2>1. {x \in L : DealBefore(L, q, x, l)} = {x \in L : <<x, l>> \in R}
    BY DEF DealOrder
  <2> QED BY <2>1 DEF PlaceIn
<1> HIDE DEF R
<1>a. order = [i \in 1 .. n |-> order[i]]
  BY DEF InOrder
<1>b. /\ InOrder(R, L) \in [1 .. Cardinality(L) -> L]
      /\ \A i \in 1 .. Cardinality(L) : PlaceIn(R, L, InOrder(R, L)[i]) = i
  BY <1>1, OrderIsWhole
<1>3. \A i \in 1 .. n : order[i] \in L /\ PlaceIn(R, L, order[i]) = i
  BY <1>b
<1>4. /\ \A l \in L : PlaceIn(R, L, l) \in Nat
      /\ \A a, b \in L : <<a, b>> \in R => PlaceIn(R, L, a) < PlaceIn(R, L, b)
  BY <1>1, PlacesAscend, FS_CardinalityType
<1>5. \A a, b \in L : PlaceIn(R, L, a) = PlaceIn(R, L, b) => a = b
  <2> SUFFICES ASSUME NEW a \in L, NEW b \in L, PlaceIn(R, L, a) = PlaceIn(R, L, b), a # b PROVE FALSE
    OBVIOUS
  <2>1. <<a, b>> \in R \/ <<b, a>> \in R
    BY <1>1 DEF TotallyOrders
  <2>2. PlaceIn(R, L, a) < PlaceIn(R, L, b) \/ PlaceIn(R, L, b) < PlaceIn(R, L, a)
    BY <1>4, <2>1
  <2> QED BY <1>4, <2>2
<1> HIDE DEF place, order, n
<1>6. \A i \in 1 .. n : (CHOOSE l \in L : place(l) = i) = order[i]
  BY <1>2, <1>3, <1>5
<1>7. orderDeals(L, q) = [i \in 1 .. n |-> CHOOSE l \in L : place(l) = i]
  BY DEF orderDeals, place, n
<1> QED BY <1>a, <1>6, <1>7 DEF order, R

-----------------------------------------------------------------------------
(* The pages of the deals. *)

\* The pages of the deals list every deal once, its groups together under headings that count them.
LEMMA DealsListed ==
  ASSUME NEW L, IsFiniteSet(L), L \subseteq LeadsOfPool, NEW q, q.group \in Groupings,
         q.size \in Nat \ {0}
  PROVE  /\ ListedOnce(DealPages(orderDeals(L, q), q), q, L, Cardinality(L))
         /\ GroupsTogether(DealPages(orderDeals(L, q), q), q)
         /\ HeadsCount(DealPages(orderDeals(L, q), q), q)
         /\ Len(orderDeals(L, q)) = Cardinality(L)
<1> DEFINE n == Cardinality(L)
           d == q.size
           order == orderDeals(L, q)
           pages == DealPages(order, q)
           shown == Spots(pages, d)
           at(x) == SpotAt(x, d)
           id(x) == pages[x[1]].rows[x[2]]
           group(x) == groupOf(q.group, Pool[id(x)])
<1>1. n \in Nat
  BY FS_CardinalityType
<1>2. /\ order \in [1 .. n -> L]
      /\ \A l \in L : \E i \in 1 .. n : order[i] = l
      /\ \A i, j \in 1 .. n : order[i] = order[j] => i = j
      /\ \A i, j \in 1 .. n : i < j => DealBefore(L, q, order[i], order[j])
  <2>1. TotallyOrders(DealOrder(L, q), L)
    BY DealsAreOrdered
  <2>2. order = InOrder(DealOrder(L, q), L)
    BY DealsInOrder
  <2>3. \A a, b \in L : <<a, b>> \in DealOrder(L, q) => DealBefore(L, q, a, b)
    BY DEF DealOrder
  <2>4. /\ order \in [1 .. n -> L]
        /\ \A l \in L : \E i \in 1 .. n : order[i] = l
        /\ \A i, j \in 1 .. n : order[i] = order[j] => i = j
        /\ \A i, j \in 1 .. n : i < j => <<order[i], order[j]>> \in DealOrder(L, q)
    BY <2>1, <2>2, OrderIsWhole
  <2> HIDE DEF order, n
  <2> QED BY <2>3, <2>4
<1> HIDE DEF n, order
<1>3. Len(order) = n /\ DOMAIN order = 1 .. n /\ {order[j] : j \in DOMAIN order} = L
  BY <1>1, <1>2
<1>4. /\ \A x \in shown : x[1] \in DOMAIN pages /\ at(x) \in 1 .. n /\ id(x) = order[at(x)].id
      /\ \A x, y \in shown : at(x) = at(y) => x = y
      /\ \A k \in 1 .. n : \E x \in shown : at(x) = k
      /\ \A p \in DOMAIN pages : \A i \in DOMAIN pages[p].heads :
           pages[p].heads[i][2] = Cardinality({l \in L : groupOf(q.group, l) = pages[p].heads[i][1]})
  <2>1. /\ \A x \in shown : x[1] \in DOMAIN pages /\ at(x) \in 1 .. n /\ id(x) = order[at(x)].id
        /\ \A x, y \in shown : at(x) = at(y) => x = y
        /\ \A k \in 1 .. n : \E x \in shown : at(x) = k
        /\ \A p \in DOMAIN pages : \A i \in DOMAIN pages[p].heads :
             pages[p].heads[i][2]
               = Cardinality({l \in {order[j] : j \in DOMAIN order} :
                               groupOf(q.group, l) = pages[p].heads[i][1]})
    <3>1. SpotsCover(order, q, n)
      BY <1>1, <1>2, SpotsTile
    <3> QED BY <3>1 DEF SpotsCover
  <2> HIDE DEF pages, shown, at
  <2> QED BY <1>3, <2>1
<1>5. \A l \in L : Pool[l.id] = l /\ \A m \in L : l.id = m.id => l = m
  BY PoolColumns
<1>6. \A x \in shown : Pool[id(x)] = order[at(x)] /\ order[at(x)] \in L
  BY <1>2, <1>4, <1>5
<1>7. \A x \in shown : group(x) = groupOf(q.group, order[at(x)])
  BY <1>6
<1> HIDE DEF pages, shown, at, d
<1>8. IsFiniteSet(1 .. n) /\ Cardinality(1 .. n) = n
  BY <1>1, FS_Interval
<1>9. [x \in shown |-> at(x)] \in Bijection(shown, 1 .. n)
  <2> DEFINE f == [x \in shown |-> at(x)]
  <2>1. f \in [shown -> 1 .. n]
    BY <1>4
  <2>2. \A x, y \in shown : f[x] = f[y] => x = y
    BY <1>4
  <2>3. \A k \in 1 .. n : \E x \in shown : f[x] = k
    BY <1>4
  <2>4. f \in Bijection(shown, 1 .. n)
    <3> HIDE DEF f
    <3> QED BY <2>1, <2>2, <2>3, Fun_IsBij
  <2> QED BY <2>4
<1>10. IsFiniteSet(shown) /\ Cardinality(shown) = n
  <2>1. ExistsBijection(shown, 1 .. n)
    BY <1>9 DEF ExistsBijection
  <2>2. ExistsBijection(1 .. n, shown)
    BY <2>1, Fun_ExistsBijSymmetric
  <2> QED BY <1>8, <2>2, FS_Bijection
<1>11. Cardinality({id(x) : x \in shown}) = Cardinality(shown)
  <2> DEFINE f == [x \in shown |-> id(x)]
             ids == {id(x) : x \in shown}
  <2>1. \A x, y \in shown : id(x) = id(y) => x = y
    BY <1>2, <1>4, <1>5
  <2>2. f \in [shown -> ids] /\ \A x, y \in shown : f[x] = f[y] => x = y
    BY <2>1
  <2>3. \A v \in ids : \E x \in shown : f[x] = v
    OBVIOUS
  <2>4. f \in Bijection(shown, ids)
    <3> HIDE DEF f, ids
    <3> QED BY <2>2, <2>3, Fun_IsBij
  <2>5. ExistsBijection(shown, ids)
    BY <2>4 DEF ExistsBijection
  <2> HIDE DEF ids
  <2>6. Cardinality(ids) = Cardinality(shown)
    BY <1>10, <2>5, FS_Bijection
  <2> QED BY <2>6 DEF ids
<1>12. {id(x) : x \in shown} \subseteq Ids(L)
  BY <1>2, <1>4 DEF Ids
<1>13. ListedOnce(pages, q, L, n)
  BY <1>10, <1>11, <1>12 DEF ListedOnce, shown, d, n
<1>14. ASSUME NEW x \in shown, NEW y \in shown, NEW z \in shown,
              at(x) < at(y), at(y) < at(z), group(x) = group(z)
       PROVE  group(y) = group(x)
  <2> DEFINE a == order[at(x)]
             b == order[at(y)]
             c == order[at(z)]
  <2>1. a \in L /\ b \in L /\ c \in L /\ DealBefore(L, q, a, b) /\ DealBefore(L, q, b, c)
    BY <1>2, <1>4, <1>14
  <2>2. groupOf(q.group, a) = groupOf(q.group, c)
    BY <1>7, <1>14
  <2> HIDE DEF a, b, c
  <2>3. \/ GroupFirst(L, q, a, b)
        \/ groupOf(q.group, a) = groupOf(q.group, b)
    BY <2>1, DealBeforeIs
  <2>4. \/ GroupFirst(L, q, b, c)
        \/ groupOf(q.group, b) = groupOf(q.group, c)
    BY <2>1, DealBeforeIs
  <2>5. GroupFirst(L, q, a, b) /\ GroupFirst(L, q, b, c) => GroupFirst(L, q, a, c)
    BY <2>1, GroupsAreOrdered
  <2>6. GroupFirst(L, q, a, c) => groupOf(q.group, a) # groupOf(q.group, c)
    BY <2>1, GroupsAreOrdered
  <2>7. groupOf(q.group, b) = groupOf(q.group, a)
    BY <2>2, <2>3, <2>4, <2>5, <2>6
  <2> QED BY <1>7, <2>7 DEF a, b
<1>15. GroupsTogether(pages, q)
  BY <1>14 DEF GroupsTogether, shown, at, d
<1>16. ASSUME NEW label
       PROVE  Cardinality({l \in L : groupOf(q.group, l) = label})
                = Cardinality({x \in shown : group(x) = label})
  <2> DEFINE A == {x \in shown : group(x) = label}
             B == {l \in L : groupOf(q.group, l) = label}
             f == [x \in A |-> order[at(x)]]
  <2>7. \A x \in A : order[at(x)] \in B
    BY <1>2, <1>4, <1>7
  <2>8. \A x, y \in A : order[at(x)] = order[at(y)] => x = y
    BY <1>2, <1>4
  <2>1. f \in [A -> B] /\ \A x, y \in A : f[x] = f[y] => x = y
    <3> HIDE DEF A, B, at
    <3> QED BY <2>7, <2>8
  <2>2. ASSUME NEW l \in B PROVE \E x \in A : f[x] = l
    <3>1. PICK k \in 1 .. n : order[k] = l
      BY <1>2
    <3>2. PICK x \in shown : at(x) = k
      BY <1>4
    <3>3. x \in A /\ f[x] = l
      BY <1>7, <3>1, <3>2
    <3> QED BY <3>3
  <2>3. f \in Bijection(A, B)
    <3> HIDE DEF A, B, f
    <3> QED BY <2>1, <2>2, Fun_IsBij
  <2>4. ExistsBijection(A, B)
    BY <2>3 DEF ExistsBijection
  <2>5. IsFiniteSet(A)
    BY <1>10, FS_Subset
  <2> HIDE DEF A, B
  <2>6. Cardinality(A) = Cardinality(B)
    BY <2>4, <2>5, FS_Bijection
  <2> QED BY <2>6 DEF A, B
<1>17. HeadsCount(pages, q)
  BY <1>4, <1>16 DEF HeadsCount, shown, d
<1> QED BY <1>3, <1>13, <1>15, <1>17 DEF pages, order, n

-----------------------------------------------------------------------------
(* The question behind an answer. *)

\* Each question has a report of its own.
LEMMA ReportsNamed ==
  ASSUME NEW me, NEW q
  PROVE  /\ leadsByStatus(me, q) => answer'.report = "status"
         /\ leadsBySource(me, q) => answer'.report = "source"
         /\ leadsByOwnership(me, q) => answer'.report = "ownership"
         /\ lostLeads(me, q) => answer'.report = "lost"
         /\ convertedLeads(me, q) => answer'.report = "converted"
         /\ noActivity(me, q) => answer'.report = "noActivity"
         /\ todayLeads(me, q) => answer'.report = "todayLeads"
         /\ leadAging(me, q) => answer'.report = "aging"
         /\ leadFirstResponse(me, q) => answer'.report = "firstResponse"
         /\ duplicateEnquiries(me, q) => answer'.report = "duplicates"
         /\ teamPerformance(me, q) => answer'.report = "teamPerformance"
         /\ worklist(me, q) => answer'.report = "worklist"
         /\ tracker(me, q) => answer'.report = "tracker"
         /\ kpis(me, q) => answer'.report = "kpis"
         /\ overdueFollowUps(me, q) => answer'.report = "overdue"
         /\ todaysFollowUps(me, q) => answer'.report = "todays"
         /\ upcomingFollowUps(me, q) => answer'.report = "upcoming"
         /\ overview(me, q) => answer'.report = "revenue"
         /\ deals(me, q) => answer'.report = "deals"
         /\ salesPipeline(me, q) => answer'.report = "salesPipeline"
         /\ stageOverview(me, q) => answer'.report = "stages"
         /\ liveFunnel(me, q) => answer'.report = "liveFunnel"
         /\ teamRevenue(me, q) => answer'.report = "teamRevenue"
         /\ salesLeaderboard(me, q) => answer'.report = "leaderboard"
         /\ leadsConversion(me, q) => answer'.report = "conversion"
         /\ leadSourceSummary(me, q) => answer'.report = "sourceSummary"
         /\ leadsAttention(me, q) => answer'.report = "attention"
         /\ hotLeads(me, q) => answer'.report = "hotLeads"
         /\ callAnalytics(me, q) => answer'.report = "analytics"
         /\ callLeaderboard(me, q) => answer'.report = "callLeaderboard"
         /\ callSummary(me, q) => answer'.report = "callSummary"
         /\ callLog(me, q) => answer'.report = "callLog"
         /\ callHistory(me, q) => answer'.report = "history"
         /\ leadList(me, q) => answer'.report = "leads"
         /\ \A cards : dashboardSummary(me, q, cards) => answer'.report = "cards"
<1>1. leadsByStatus(me, q) => answer'.report = "status"
  BY Saying DEF leadsByStatus
<1>2. leadsBySource(me, q) => answer'.report = "source"
  BY Saying DEF leadsBySource
<1>3. leadsByOwnership(me, q) => answer'.report = "ownership"
  BY Saying DEF leadsByOwnership
<1>4. lostLeads(me, q) => answer'.report = "lost"
  BY Saying DEF lostLeads
<1>5. convertedLeads(me, q) => answer'.report = "converted"
  BY Saying DEF convertedLeads
<1>6. noActivity(me, q) => answer'.report = "noActivity"
  BY Saying DEF noActivity
<1>7. todayLeads(me, q) => answer'.report = "todayLeads"
  BY Saying DEF todayLeads
<1>8. leadAging(me, q) => answer'.report = "aging"
  BY Saying DEF leadAging
<1>9. leadFirstResponse(me, q) => answer'.report = "firstResponse"
  BY Saying DEF leadFirstResponse
<1>10. duplicateEnquiries(me, q) => answer'.report = "duplicates"
  BY Saying DEF duplicateEnquiries
<1>11. teamPerformance(me, q) => answer'.report = "teamPerformance"
  <2> SUFFICES ASSUME teamPerformance(me, q) PROVE answer'.report = "teamPerformance"
    OBVIOUS
  <2>1. PICK fields : Say("teamPerformance", me, q, fields)
    BY DEF teamPerformance
  <2> QED BY <2>1, Saying
<1>12. worklist(me, q) => answer'.report = "worklist"
  BY Saying DEF worklist
<1>13. tracker(me, q) => answer'.report = "tracker"
  BY Saying DEF tracker
<1>14. kpis(me, q) => answer'.report = "kpis"
  BY Saying DEF kpis
<1>15. overdueFollowUps(me, q) => answer'.report = "overdue"
  BY Saying DEF overdueFollowUps, FollowUpReport
<1>16. todaysFollowUps(me, q) => answer'.report = "todays"
  BY Saying DEF todaysFollowUps, FollowUpReport
<1>17. upcomingFollowUps(me, q) => answer'.report = "upcoming"
  BY Saying DEF upcomingFollowUps, FollowUpReport
<1>18. overview(me, q) => answer'.report = "revenue"
  <2> SUFFICES ASSUME overview(me, q) PROVE answer'.report = "revenue"
    OBVIOUS
  <2>1. PICK fields : Say("revenue", me, q, fields)
    BY DEF overview
  <2> QED BY <2>1, Saying
<1>19. deals(me, q) => answer'.report = "deals"
  BY Saying DEF deals
<1>20. salesPipeline(me, q) => answer'.report = "salesPipeline"
  BY Saying DEF salesPipeline
<1>21. stageOverview(me, q) => answer'.report = "stages"
  BY Saying DEF stageOverview
<1>22. liveFunnel(me, q) => answer'.report = "liveFunnel"
  <2> SUFFICES ASSUME liveFunnel(me, q) PROVE answer'.report = "liveFunnel"
    OBVIOUS
  <2>1. PICK fields : Say("liveFunnel", me, q, fields)
    BY DEF liveFunnel
  <2> QED BY <2>1, Saying
<1>23. teamRevenue(me, q) => answer'.report = "teamRevenue"
  BY Saying DEF teamRevenue
<1>24. salesLeaderboard(me, q) => answer'.report = "leaderboard"
  BY Saying DEF salesLeaderboard
<1>25. leadsConversion(me, q) => answer'.report = "conversion"
  <2> SUFFICES ASSUME leadsConversion(me, q) PROVE answer'.report = "conversion"
    OBVIOUS
  <2>1. PICK fields : Say("conversion", me, q, fields)
    BY DEF leadsConversion
  <2> QED BY <2>1, Saying
<1>26. leadSourceSummary(me, q) => answer'.report = "sourceSummary"
  <2> SUFFICES ASSUME leadSourceSummary(me, q) PROVE answer'.report = "sourceSummary"
    OBVIOUS
  <2>1. PICK fields : Say("sourceSummary", me, q, fields)
    BY DEF leadSourceSummary
  <2> QED BY <2>1, Saying
<1>27. leadsAttention(me, q) => answer'.report = "attention"
  BY Saying DEF leadsAttention
<1>28. hotLeads(me, q) => answer'.report = "hotLeads"
  BY Saying DEF hotLeads
<1>29. callAnalytics(me, q) => answer'.report = "analytics"
  <2> SUFFICES ASSUME callAnalytics(me, q) PROVE answer'.report = "analytics"
    OBVIOUS
  <2>1. PICK fields : Say("analytics", me, q, fields)
    BY DEF callAnalytics
  <2> QED BY <2>1, Saying
<1>30. callLeaderboard(me, q) => answer'.report = "callLeaderboard"
  BY Saying DEF callLeaderboard
<1>31. callSummary(me, q) => answer'.report = "callSummary"
  BY Saying DEF callSummary
<1>32. callLog(me, q) => answer'.report = "callLog"
  <2> SUFFICES ASSUME callLog(me, q) PROVE answer'.report = "callLog"
    OBVIOUS
  <2>1. PICK fields : Say("callLog", me, q, fields)
    BY DEF callLog
  <2> QED BY <2>1, Saying
<1>33. callHistory(me, q) => answer'.report = "history"
  <2> SUFFICES ASSUME callHistory(me, q) PROVE answer'.report = "history"
    OBVIOUS
  <2>1. PICK fields : Say("history", me, Query, fields)
    BY DEF callHistory
  <2> QED BY <2>1, Saying
<1>34. leadList(me, q) => answer'.report = "leads"
  BY Saying DEF leadList
<1>35. \A cards : dashboardSummary(me, q, cards) => answer'.report = "cards"
  <2> SUFFICES ASSUME NEW cards, dashboardSummary(me, q, cards) PROVE answer'.report = "cards"
    OBVIOUS
  <2>1. PICK fields : Say("cards", me, Query, fields)
    BY DEF dashboardSummary
  <2> QED BY <2>1, Saying
<1> QED BY <1>1, <1>2, <1>3, <1>4, <1>5, <1>6, <1>7, <1>8, <1>9, <1>10, <1>11, <1>12, <1>13, <1>14,
  <1>15, <1>16, <1>17, <1>18, <1>19, <1>20, <1>21, <1>22, <1>23, <1>24, <1>25, <1>26, <1>27, <1>28,
  <1>29, <1>30, <1>31, <1>32, <1>33, <1>34, <1>35

\* A step that tells a report is the question of that report.
LEMMA QuestionOf ==
  ASSUME NextReports \/ NextFollowUps \/ NextRevenue \/ NextCalls
  PROVE  /\ answer'.report = "status" => \E me \in Askers, q \in Queries : leadsByStatus(me, q)
         /\ answer'.report = "source" => \E me \in Askers, q \in Queries : leadsBySource(me, q)
         /\ answer'.report = "ownership" => \E me \in Askers, q \in Queries : leadsByOwnership(me, q)
         /\ answer'.report = "aging" => \E me \in Askers, q \in Queries : leadAging(me, q)
         /\ answer'.report = "firstResponse" => \E me \in Askers, q \in Queries : leadFirstResponse(me, q)
         /\ answer'.report = "duplicates" => \E me \in Askers, q \in Queries : duplicateEnquiries(me, q)
         /\ answer'.report = "teamPerformance" => \E me \in Askers, q \in Queries : teamPerformance(me, q)
         /\ answer'.report = "worklist" => \E me \in Askers, q \in Queries : worklist(me, q)
         /\ answer'.report = "tracker" => \E me \in Askers, q \in Queries : tracker(me, q)
         /\ answer'.report = "kpis" => \E me \in Askers, q \in Queries : kpis(me, q)
         /\ answer'.report = "revenue" => \E me \in Askers, q \in Queries : overview(me, q)
         /\ answer'.report = "deals" => \E me \in Askers, q \in Queries : deals(me, q)
         /\ answer'.report = "stages" => \E me \in Askers, q \in Queries : stageOverview(me, q)
         /\ answer'.report = "liveFunnel" => \E me \in Askers, q \in Queries : liveFunnel(me, q)
         /\ answer'.report = "leaderboard" => \E me \in Askers, q \in Queries : salesLeaderboard(me, q)
         /\ answer'.report = "conversion" => \E me \in Askers, q \in Queries : leadsConversion(me, q)
         /\ answer'.report = "sourceSummary" => \E me \in Askers, q \in Queries : leadSourceSummary(me, q)
         /\ answer'.report = "attention" => \E me \in Askers, q \in Queries : leadsAttention(me, q)
         /\ answer'.report = "analytics" => \E me \in Askers, q \in Queries : callAnalytics(me, q)
         /\ answer'.report = "callLeaderboard" => \E me \in Askers, q \in Queries : callLeaderboard(me, q)
         /\ answer'.report = "callSummary" => \E me \in Askers, q \in Queries : callSummary(me, q)
         /\ answer'.report = "history" => \E me \in Askers : \E number : callHistory(me, number)
<1>1. CASE NextReports
  <2>1. CASE \E me \in Askers, c \in Conditions : leadList(me, c)
    <3>1. answer'.report = "leads"
      BY <2>1, ReportsNamed
    <3> QED BY <3>1
  <2>2. CASE \E me \in Askers, q \in Queries :
               \/ leadsByStatus(me, q) \/ leadsBySource(me, q) \/ leadsByOwnership(me, q)
               \/ lostLeads(me, q) \/ convertedLeads(me, q)
               \/ noActivity(me, q) \/ todayLeads(me, q)
               \/ leadAging(me, q) \/ leadFirstResponse(me, q)
               \/ duplicateEnquiries(me, q) \/ teamPerformance(me, q)
    <3>1. PICK me \in Askers, q \in Queries :
               \/ leadsByStatus(me, q) \/ leadsBySource(me, q) \/ leadsByOwnership(me, q)
               \/ lostLeads(me, q) \/ convertedLeads(me, q)
               \/ noActivity(me, q) \/ todayLeads(me, q)
               \/ leadAging(me, q) \/ leadFirstResponse(me, q)
               \/ duplicateEnquiries(me, q) \/ teamPerformance(me, q)
      BY <2>2
    <3> QED BY <3>1, ReportsNamed
  <2> QED BY <1>1, <2>1, <2>2 DEF NextReports
<1>2. CASE NextFollowUps
  <2>1. PICK me \in Askers, q \in Queries :
          \/ worklist(me, q) \/ tracker(me, q) \/ kpis(me, q)
          \/ overdueFollowUps(me, q) \/ todaysFollowUps(me, q) \/ upcomingFollowUps(me, q)
    BY <1>2 DEF NextFollowUps
  <2> QED BY <2>1, ReportsNamed
<1>3. CASE NextRevenue
  <2>1. CASE \E me \in Askers : \/ dashboardSummary(me, TRUE, {s.name : s \in Stages})
                                \/ dashboardSummary(me, FALSE, {l.source : l \in leads} \ {Null, Blank})
    <3>1. answer'.report = "cards"
      BY <2>1, ReportsNamed
    <3> QED BY <3>1
  <2>2. CASE \E me \in Askers, q \in Queries :
               \/ overview(me, q) \/ deals(me, q) \/ salesPipeline(me, q) \/ stageOverview(me, q)
               \/ liveFunnel(me, q)
               \/ teamRevenue(me, q) \/ salesLeaderboard(me, q) \/ leadsConversion(me, q)
               \/ leadSourceSummary(me, q) \/ leadsAttention(me, q) \/ hotLeads(me, q)
    <3>1. PICK me \in Askers, q \in Queries :
               \/ overview(me, q) \/ deals(me, q) \/ salesPipeline(me, q) \/ stageOverview(me, q)
               \/ liveFunnel(me, q)
               \/ teamRevenue(me, q) \/ salesLeaderboard(me, q) \/ leadsConversion(me, q)
               \/ leadSourceSummary(me, q) \/ leadsAttention(me, q) \/ hotLeads(me, q)
      BY <2>2
    <3> QED BY <3>1, ReportsNamed
  <2> QED BY <1>3, <2>1, <2>2 DEF NextRevenue
<1>4. CASE NextCalls
  <2>1. CASE \E me \in Askers, q \in Queries :
               callAnalytics(me, q) \/ callLeaderboard(me, q) \/ callSummary(me, q) \/ callLog(me, q)
    <3>1. PICK me \in Askers, q \in Queries :
               callAnalytics(me, q) \/ callLeaderboard(me, q) \/ callSummary(me, q) \/ callLog(me, q)
      BY <2>1
    <3> QED BY <3>1, ReportsNamed
  <2>2. CASE \E me \in Askers, number \in {Trim[p] : p \in DOMAIN Trim} : callHistory(me, number)
    <3>1. PICK me \in Askers, number \in {Trim[p] : p \in DOMAIN Trim} : callHistory(me, number)
      BY <2>2
    <3> QED BY <3>1, ReportsNamed
  <2> QED BY <1>4, <2>1, <2>2 DEF NextCalls
<1> QED BY <1>1, <1>2, <1>3, <1>4

-----------------------------------------------------------------------------

\* The pages of the deals are those of the list.
DealsTold ==
  Is("deals") =>
    /\ answer.query \in Queries /\ answer.query.size \in Nat \ {0}
    /\ answer.pages = DealPages(orderDeals(Listed(dealsWhere(answer.me, answer.query)), answer.query),
                                answer.query)
    /\ answer.total = Len(orderDeals(Listed(dealsWhere(answer.me, answer.query)), answer.query))

\* The answer of the deals handler says so.
LEMMA DealsTelling ==
  ASSUME NEW me, NEW q \in Queries, deals(me, q)
  PROVE  DealsTold'
<1> DEFINE S == dealsWhere(me, q)
           order == orderDeals(Listed(S), q)
           fields == [pages |-> DealPages(order, q), total |-> Len(order),
                      truncated |-> Cardinality(S) > MaxDeals]
<1>1. Say("deals", me, q, fields) /\ RevenueQueryDto(q)
  BY DEF deals, DealPages
<1>2. /\ table' = table /\ answer'.me = me /\ answer'.query = q
      /\ \A x \in DOMAIN fields \ {"report", "me", "query"} : answer'[x] = fields[x]
  <2> HIDE DEF fields
  <2> QED BY <1>1, Saying
<1>3. answer'.pages = DealPages(order, q) /\ answer'.total = Len(order)
  BY <1>2
<1>4. S = dealsWhere(answer.me, answer.query)'
  BY <1>2 DEF dealsWhere, leadsWhere, Base, leads
<1>5. q.size \in Nat \ {0}
  BY <1>1, AskedAssumption DEF RevenueQueryDto, FromOne
<1> HIDE DEF S
<1> QED BY <1>2, <1>3, <1>4, <1>5 DEF DealsTold

\* Any set of leads that a read returns is finite and of the pool.
LEMMA LeadsFinite ==
  ASSUME table \in Tables
  PROVE  leads \subseteq LeadsOfPool /\ IsFiniteSet(leads)
<1>1. table \subseteq DOMAIN Pool /\ IsFiniteSet(table)
  BY TablesAssumption
<1>2. leads \subseteq LeadsOfPool
  BY <1>1 DEF leads, LeadsOfPool
<1>3. [id \in table |-> Pool[id]] \in Surjection(table, leads)
  BY DEF leads, Surjection
<1>4. IsFiniteSet(leads)
  BY <1>1, <1>3, FS_Surjection
<1> QED BY <1>2, <1>4

\* What the answer says is the list in groups.
LEMMA DealsAreWhole ==
  ASSUME table \in Tables, DealsTold
  PROVE  DealsInGroups
<1> SUFFICES ASSUME Is("deals") PROVE DealsInGroups
  BY DEF DealsInGroups
<1> DEFINE q == answer.query
           S == dealsWhere(answer.me, q)
           L == Listed(S)
           pages == answer.pages
<1>1. /\ q \in Queries /\ q.size \in Nat \ {0} /\ q.group \in Groupings
      /\ pages = DealPages(orderDeals(L, q), q) /\ answer.total = Len(orderDeals(L, q))
  BY GroupsAssumption DEF DealsTold
<1>2. L \subseteq S /\ S \subseteq leads
  BY DEF Listed, dealsWhere, closedIn, leadsWhere, Base
<1>3. L \subseteq LeadsOfPool /\ IsFiniteSet(L)
  BY <1>2, LeadsFinite, FS_Subset
<1> HIDE DEF q, S, L, pages
<1>4. /\ ListedOnce(pages, q, L, answer.total)
      /\ GroupsTogether(pages, q) /\ HeadsCount(pages, q)
  BY <1>1, <1>3, DealsListed
<1>5. ListedOnce(pages, q, S, answer.total)
  BY <1>2, <1>4, IdsWithin DEF ListedOnce
<1> QED BY <1>4, <1>5 DEF DealsInGroups, q, S, pages

DealsIInv == table \in Tables /\ DealsTold

\* Every step keeps what the answer says.
LEMMA DealsStep ==
  ASSUME DealsIInv, [ReadsNext]_allVars
  PROVE  DealsIInv'
<1>1. CASE NextReports \/ NextFollowUps \/ NextRevenue \/ NextCalls
  <2>1. table' = table
    BY <1>1, ReadsStep
  <2>2. answer'.report = "deals" => \E me \in Askers, q \in Queries : deals(me, q)
    BY <1>1, QuestionOf
  <2>3. answer'.report # "deals" => DealsTold'
    BY DEF DealsTold, Is
  <2> QED BY <2>1, <2>2, <2>3, DealsTelling DEF DealsIInv
<1>2. CASE UNCHANGED readVars
  BY <1>2 DEF DealsIInv, readVars, DealsTold, Is, dealsWhere, leadsWhere, Base, leads
<1> QED BY <1>1, <1>2 DEF ReadsNext, allVars

\* The pages of the deals make one list in groups, and an export keeps its list.
THEOREM ListsAreWhole == ReadsSpec => []ListsWhole
<1>1. ReadsInit => DealsIInv
  BY DEF ReadsInit, ReadInit, DealsIInv, DealsTold, Is, NoAnswer
<1>2. DealsIInv /\ [ReadsNext]_allVars => DealsIInv'
  BY DealsStep
<1>3. DealsIInv => DealsInGroups
  BY DealsAreWhole DEF DealsIInv
<1>4. DealsInGroups /\ (part = "exports" => E!TypeOK /\ E!ExportKeeps) => ListsWhole
  BY DEF ListsWhole
<1> QED BY <1>1, <1>2, <1>3, <1>4, ExportsKeepTheList, PTL DEF ReadsSpec

-----------------------------------------------------------------------------
(* Sums and counts. *)

-----------------------------------------------------------------------------
(* Sums. *)

\* Induction over the subsets of a finite set.
LEMMA SubsetInduction ==
  ASSUME NEW S, IsFiniteSet(S), NEW P,
         \A s \in SUBSET S : (\A t \in SUBSET s : t # s => t \in P) => s \in P
  PROVE  SUBSET S \subseteq P
<1> DEFINE Missed == (SUBSET S) \ P
<1> SUFFICES ASSUME Missed # {} PROVE FALSE
  OBVIOUS
<1>1. IsWellFoundedOn(StrictSubsetOrdering(S), FiniteSubsetsOf(S))
  BY FS_StrictSubsetOrderingWellFounded
<1>2. Missed \subseteq FiniteSubsetsOf(S)
  BY FS_FiniteSubsetsOfFinite
<1>3. PICK s \in Missed : \A t \in Missed : <<t, s>> \notin StrictSubsetOrdering(S)
  <2> HIDE DEF Missed
  <2> QED BY <1>1, <1>2, WFMin
<1>4. \A t \in SUBSET s : t # s => t \in P
  BY <1>3 DEF StrictSubsetOrdering
<1> QED BY <1>3, <1>4

\* The partial sums of f over the subsets of S.
Added(f, S, g) ==
  g = [s \in SUBSET S |-> IF s = {} THEN 0
                          ELSE f[CHOOSE x \in s : TRUE] + g[s \ {CHOOSE x \in s : TRUE}]]

\* A sum over a finite set is what adding its elements one by one gives.
LEMMA SumIs ==
  ASSUME NEW f, NEW S
  PROVE  SumFunctionOnSet(f, S) = (CHOOSE g : Added(f, S, g))[S]
BY DEF SumFunctionOnSet, FoldFunctionOnSet, MapThenFoldSet, Added

\* One more element adds its own value,
LEMMA AddedStep ==
  ASSUME NEW f, NEW S, NEW g, Added(f, S, g)
  PROVE  /\ g[{}] = 0
         /\ \A s \in SUBSET S : s # {} => \E x \in s : /\ x = (CHOOSE y \in s : TRUE)
                                                       /\ g[s] = f[x] + g[s \ {x}]
<1>1. \A s \in SUBSET S :
        g[s] = IF s = {} THEN 0
               ELSE f[CHOOSE x \in s : TRUE] + g[s \ {CHOOSE x \in s : TRUE}]
  BY DEF Added
<1>2. {} \in SUBSET S
  OBVIOUS
<1>3. ASSUME NEW s \in SUBSET S, s # {}
      PROVE  \E x \in s : x = (CHOOSE y \in s : TRUE) /\ g[s] = f[x] + g[s \ {x}]
  <2> DEFINE x == CHOOSE y \in s : TRUE
  <2>1. x \in s
    BY <1>3
  <2>2. g[s] = f[x] + g[s \ {x}]
    BY <1>1, <1>3
  <2> QED BY <2>1, <2>2
<1> QED BY <1>1, <1>2, <1>3

\* Two tables of partial sums agree on the subsets of T.
AgreeOn(g, h, T) == \A s \in SUBSET T : g[s] = h[s]
Alike(f, e, T) == \A x \in T : f[x] = e[x]

\* functions that agree on the set are added alike,
LEMMA AddedAgree ==
  ASSUME NEW S, NEW T, T \subseteq S, IsFiniteSet(T),
         NEW f, NEW e, Alike(f, e, T),
         NEW g, Added(f, S, g), NEW h, Added(e, T, h)
  PROVE  AgreeOn(g, h, T)
<1> DEFINE P == {s \in SUBSET T : g[s] = h[s]}
<1>1. ASSUME NEW s \in SUBSET T, \A t \in SUBSET s : t # s => t \in P
      PROVE  s \in P
  <2>1. CASE s = {}
    BY <2>1, AddedStep
  <2>2. CASE s # {}
    <3>1. PICK x \in s : x = (CHOOSE y \in s : TRUE) /\ g[s] = f[x] + g[s \ {x}]
      BY <2>2, AddedStep
    <3>a. PICK y \in s : y = (CHOOSE z \in s : TRUE) /\ h[s] = e[y] + h[s \ {y}]
      BY <2>2, AddedStep
    <3>2. h[s] = e[x] + h[s \ {x}]
      BY <3>1, <3>a
    <3>3. s \ {x} \in P
      BY <1>1, <3>1
    <3> QED BY <3>1, <3>2, <3>3 DEF Alike
  <2> QED BY <2>1, <2>2
<1>2. SUBSET T \subseteq P
  <2> HIDE DEF P
  <2> QED BY <1>1, SubsetInduction
<1> QED BY <1>2 DEF AgreeOn

\* and every finite set can be added up.
LEMMA AddedExists ==
  ASSUME NEW S, IsFiniteSet(S), NEW f
  PROVE  \E g : Added(f, S, g)
<1> DEFINE P == {s \in SUBSET S : \E g : Added(f, s, g)}
<1>1. ASSUME NEW T \in SUBSET S, \A t \in SUBSET T : t # T => t \in P
      PROVE  T \in P
  <2> DEFINE G == [t \in (SUBSET T) \ {T} |-> CHOOSE g : Added(f, t, g)]
             z == CHOOSE x \in T : TRUE
             g == [s \in SUBSET T |-> IF s = T THEN (IF T = {} THEN 0 ELSE f[z] + G[T \ {z}][T \ {z}])
                                               ELSE G[s][s]]
  <2>1. \A t \in (SUBSET T) \ {T} : Added(f, t, G[t])
    <3> SUFFICES ASSUME NEW t \in (SUBSET T) \ {T} PROVE Added(f, t, G[t])
      OBVIOUS
    <3>1. \E h : Added(f, t, h)
      BY <1>1
    <3> QED BY <3>1
  <2> HIDE DEF G
  <2>2. T # {} => z \in T /\ T \ {z} \in (SUBSET T) \ {T}
    OBVIOUS
  <2>3. ASSUME NEW s \in SUBSET T, s # T, s # {}
        PROVE  \E x \in s : x = (CHOOSE y \in s : TRUE) /\ g[s] = f[x] + g[s \ {x}]
    <3>1. Added(f, s, G[s])
      BY <2>1, <2>3
    <3>2. PICK x \in s : x = (CHOOSE y \in s : TRUE) /\ G[s][s] = f[x] + G[s][s \ {x}]
      BY <2>3, <3>1, AddedStep
    <3>3. s \ {x} \in (SUBSET T) \ {T} /\ s \ {x} \subseteq s
      BY <2>3
    <3>4. Added(f, s \ {x}, G[s \ {x}])
      BY <2>1, <3>3
    <3>5. IsFiniteSet(s \ {x})
      BY FS_Subset
    <3>6. AgreeOn(G[s], G[s \ {x}], s \ {x})
      <4>1. Alike(f, f, s \ {x})
        BY DEF Alike
      <4> QED BY <3>1, <3>3, <3>4, <3>5, <4>1, AddedAgree
    <3>7. g[s] = G[s][s] /\ g[s \ {x}] = G[s \ {x}][s \ {x}]
      BY <2>3, <3>3
    <3> QED BY <3>2, <3>6, <3>7 DEF AgreeOn
  <2>4. CASE T = {}
    <3>1. Added(f, T, [s \in SUBSET T |-> 0])
      BY <2>4 DEF Added
    <3> QED BY <3>1
  <2>5. CASE T # {}
    <3>1. g[T] = f[z] + g[T \ {z}]
      BY <2>2, <2>5
    <3>2. g[{}] = 0
      <4>1. Added(f, {}, G[{}])
        BY <2>1, <2>5
      <4>2. G[{}][{}] = 0
        BY <4>1, AddedStep
      <4> QED BY <2>5, <4>2
    <3>3. g = [s \in SUBSET T |-> g[s]]
      OBVIOUS
    <3>4. \A s \in SUBSET T : g[s] = IF s = {} THEN 0
                                     ELSE f[CHOOSE x \in s : TRUE] + g[s \ {CHOOSE x \in s : TRUE}]
      <4> HIDE DEF g
      <4> QED BY <2>3, <3>1, <3>2
    <3>5. Added(f, T, g)
      <4> HIDE DEF g
      <4> QED BY <3>3, <3>4 DEF Added
    <3> QED BY <3>5
  <2> QED BY <2>4, <2>5
<1>2. SUBSET S \subseteq P
  <2> HIDE DEF P
  <2> QED BY <1>1, SubsetInduction
<1> QED BY <1>2

\* A sum is a natural number and is split at any element.
LEMMA SumSplits ==
  ASSUME NEW S, IsFiniteSet(S), NEW f, \A x \in S : f[x] \in Nat
  PROVE  /\ SumFunctionOnSet(f, S) \in Nat
         /\ S = {} => SumFunctionOnSet(f, S) = 0
         /\ \A y \in S : SumFunctionOnSet(f, S) = f[y] + SumFunctionOnSet(f, S \ {y})
<1> DEFINE g == CHOOSE h : Added(f, S, h)
<1>1. Added(f, S, g)
  BY AddedExists
<1> HIDE DEF g
<1> DEFINE P == {s \in SUBSET S : g[s] \in Nat /\ \A y \in s : g[s] = f[y] + g[s \ {y}]}
<1>2. ASSUME NEW s \in SUBSET S, \A t \in SUBSET s : t # s => t \in P
      PROVE  s \in P
  <2>1. CASE s = {}
    BY <1>1, <2>1, AddedStep
  <2>2. CASE s # {}
    <3>1. PICK x \in s : g[s] = f[x] + g[s \ {x}]
      BY <1>1, <2>2, AddedStep
    <3>2. \A y \in s : s \ {y} \in P
      BY <1>2
    <3>3. g[s] \in Nat
      BY <3>1, <3>2
    <3>4. ASSUME NEW y \in s, y # x PROVE g[s] = f[y] + g[s \ {y}]
      <4> DEFINE rest == (s \ {x}) \ {y}
      <4>1. g[s \ {x}] = f[y] + g[rest]
        BY <3>2, <3>4
      <4>2. g[s \ {y}] = f[x] + g[rest]
        <5>1. x \in s \ {y} /\ (s \ {y}) \ {x} = rest
          BY <3>4
        <5> QED BY <3>2, <5>1
      <4>3. rest \in P /\ f[x] \in Nat /\ f[y] \in Nat /\ g[rest] \in Nat
        BY <1>2, <3>4
      <4> HIDE DEF rest
      <4> QED BY <3>1, <4>1, <4>2, <4>3
    <3> QED BY <3>1, <3>3, <3>4
  <2> QED BY <2>1, <2>2
<1>3. SUBSET S \subseteq P
  <2> HIDE DEF P
  <2> QED BY <1>2, SubsetInduction
<1>4. \A T \in SUBSET S : SumFunctionOnSet(f, T) = g[T]
  <2> SUFFICES ASSUME NEW T \in SUBSET S PROVE SumFunctionOnSet(f, T) = g[T]
    OBVIOUS
  <2> DEFINE h == CHOOSE k : Added(f, T, k)
  <2>1. IsFiniteSet(T)
    BY FS_Subset
  <2>2. Added(f, T, h)
    BY <2>1, AddedExists
  <2> HIDE DEF h
  <2>3. AgreeOn(g, h, T)
    <3>1. Alike(f, f, T)
      BY DEF Alike
    <3> QED BY <1>1, <2>1, <2>2, <3>1, AddedAgree
  <2> QED BY <2>3, SumIs DEF h, AgreeOn
<1>5. g[{}] = 0
  BY <1>1, AddedStep
<1> HIDE DEF P
<1>6. S \in P /\ SumFunctionOnSet(f, S) = g[S]
  BY <1>3, <1>4
<1>7. ASSUME NEW y \in S PROVE SumFunctionOnSet(f, S) = f[y] + SumFunctionOnSet(f, S \ {y})
  <2>1. g[S] = f[y] + g[S \ {y}]
    BY <1>6 DEF P
  <2>2. SumFunctionOnSet(f, S \ {y}) = g[S \ {y}]
    BY <1>4
  <2> QED BY <1>6, <2>1, <2>2
<1>8. SumFunctionOnSet(f, S) \in Nat
  BY <1>6 DEF P
<1>9. S = {} => SumFunctionOnSet(f, S) = 0
  BY <1>5, <1>6
<1> QED BY <1>7, <1>8, <1>9

\* Sums of functions that agree on the set are the same.
LEMMA SumsAlike ==
  ASSUME NEW S, IsFiniteSet(S), NEW f, NEW e, \A x \in S : f[x] = e[x]
  PROVE  SumFunctionOnSet(f, S) = SumFunctionOnSet(e, S)
<1> DEFINE g == CHOOSE k : Added(f, S, k)
           h == CHOOSE k : Added(e, S, k)
<1>1. Added(f, S, g) /\ Added(e, S, h)
  BY AddedExists
<1> HIDE DEF g, h
<1>2. AgreeOn(g, h, S)
  <2>1. Alike(f, e, S)
    BY DEF Alike
  <2> QED BY <1>1, <2>1, AddedAgree
<1> QED BY <1>2, SumIs DEF g, h, AgreeOn

\* Induction over a finite set, element by element.
LEMMA Growing ==
  ASSUME NEW S, IsFiniteSet(S), NEW P, {} \in P,
         \A s \in SUBSET S, y \in S : s \in P /\ y \notin s => s \cup {y} \in P
  PROVE  S \in P
<1>1. ASSUME NEW s \in SUBSET S, \A t \in SUBSET s : t # s => t \in P
      PROVE  s \in P
  <2>1. CASE s = {}
    BY <2>1
  <2>2. CASE s # {}
    <3>1. PICK y \in s : TRUE
      BY <2>2
    <3>2. s \ {y} \in P /\ s = (s \ {y}) \cup {y}
      BY <1>1
    <3> QED BY <3>2
  <2> QED BY <2>1, <2>2
<1> QED BY <1>1, SubsetInduction

NatOn(f, S) == \A x \in S : f[x] \in Nat

\* A sum of naturals is one.
LEMMA SumNat ==
  ASSUME NEW S, IsFiniteSet(S), NEW f, NatOn(f, S)
  PROVE  SumFunctionOnSet(f, S) \in Nat
BY SumSplits DEF NatOn

\* The sum over nothing.
LEMMA SumNone ==
  ASSUME NEW f
  PROVE  SumFunctionOnSet(f, {}) = 0
<1>1. IsFiniteSet({})
  BY FS_EmptySet
<1> QED BY <1>1, SumSplits

\* One element more.
LEMMA SumAdds ==
  ASSUME NEW S, IsFiniteSet(S), NEW y, y \notin S, NEW f, NatOn(f, S \cup {y})
  PROVE  SumFunctionOnSet(f, S \cup {y}) = f[y] + SumFunctionOnSet(f, S)
<1>1. IsFiniteSet(S \cup {y})
  BY FS_AddElement
<1>2. \A x \in S \cup {y} : f[x] \in Nat
  BY DEF NatOn
<1>3. SumFunctionOnSet(f, S \cup {y}) = f[y] + SumFunctionOnSet(f, (S \cup {y}) \ {y})
  BY <1>1, <1>2, SumSplits
<1>4. (S \cup {y}) \ {y} = S
  OBVIOUS
<1> QED BY <1>3, <1>4

\* A part of naturals.
LEMMA NatOnPart ==
  ASSUME NEW S, NEW f, NatOn(f, S), NEW T, T \subseteq S
  PROVE  NatOn(f, T)
BY DEF NatOn

\* The sum over a union is at most the sums, and is them if the two share nothing.
LEMMA SumOfTwo ==
  ASSUME NEW A, NEW B, IsFiniteSet(A), IsFiniteSet(B), NEW f, NatOn(f, A \cup B)
  PROVE  /\ SumFunctionOnSet(f, A \cup B) <= SumFunctionOnSet(f, A) + SumFunctionOnSet(f, B)
         /\ A \cap B = {} =>
              SumFunctionOnSet(f, A \cup B) = SumFunctionOnSet(f, A) + SumFunctionOnSet(f, B)
<1> DEFINE Sum(s) == SumFunctionOnSet(f, s)
           P == {s \in SUBSET B : /\ Sum(A \cup s) <= Sum(A) + Sum(s)
                                  /\ A \cap s = {} => Sum(A \cup s) = Sum(A) + Sum(s)}
<1>1. \A s \in SUBSET B : /\ IsFiniteSet(s) /\ IsFiniteSet(A \cup s) /\ NatOn(f, s) /\ NatOn(f, A \cup s)
                          /\ Sum(s) \in Nat /\ Sum(A \cup s) \in Nat /\ Sum(A) \in Nat
  <2> SUFFICES ASSUME NEW s \in SUBSET B
               PROVE  /\ IsFiniteSet(s) /\ IsFiniteSet(A \cup s) /\ NatOn(f, s) /\ NatOn(f, A \cup s)
                      /\ Sum(s) \in Nat /\ Sum(A \cup s) \in Nat /\ Sum(A) \in Nat
    OBVIOUS
  <2>1. IsFiniteSet(s)
    BY FS_Subset
  <2>2. IsFiniteSet(A \cup s)
    BY <2>1, FS_Union
  <2>3. NatOn(f, s) /\ NatOn(f, A \cup s) /\ NatOn(f, A)
    BY DEF NatOn
  <2> QED BY <2>1, <2>2, <2>3, SumNat
<1>2. {} \in P
  <2>1. A \cup {} = A
    OBVIOUS
  <2>2. Sum({}) = 0
    BY SumNone
  <2>3. Sum(A \cup {}) = Sum(A)
    BY <2>1
  <2>4. Sum(A) \in Nat
    BY <1>1
  <2>5. Sum(A \cup {}) = Sum(A) + Sum({})
    BY <2>2, <2>3, <2>4
  <2>6. Sum(A \cup {}) <= Sum(A) + Sum({})
    BY <2>2, <2>3, <2>4
  <2> QED BY <2>5, <2>6
<1>3. ASSUME NEW s \in SUBSET B, NEW y \in B, s \in P, y \notin s
      PROVE  s \cup {y} \in P
  <2>1. f[y] \in Nat /\ s \cup {y} \in SUBSET B
    BY DEF NatOn
  <2>2. NatOn(f, s \cup {y})
    BY <1>1, <2>1
  <2>3. Sum(s \cup {y}) = f[y] + Sum(s)
    BY <1>1, <1>3, <2>2, SumAdds
  <2>4. CASE y \in A
    <3>1. A \cup (s \cup {y}) = A \cup s
      BY <2>4
    <3>2. Sum(A \cup (s \cup {y})) = Sum(A \cup s)
      BY <3>1
    <3>3. ~(A \cap (s \cup {y}) = {})
      BY <2>4
    <3>4. Sum(A \cup s) <= Sum(A) + Sum(s)
      BY <1>3
    <3>5. Sum(A \cup s) \in Nat /\ Sum(A) \in Nat /\ Sum(s) \in Nat
      BY <1>1, <1>3
    <3> HIDE DEF Sum
    <3>6. Sum(A \cup (s \cup {y})) <= Sum(A) + Sum(s \cup {y})
      BY <2>1, <2>3, <3>2, <3>4, <3>5
    <3> QED BY <2>1, <3>3, <3>6
  <2>5. CASE y \notin A
    <3>1. A \cup (s \cup {y}) = (A \cup s) \cup {y} /\ y \notin A \cup s
      BY <1>3, <2>5
    <3>2. NatOn(f, (A \cup s) \cup {y})
      BY DEF NatOn
    <3>3. Sum((A \cup s) \cup {y}) = f[y] + Sum(A \cup s)
      BY <1>1, <3>1, <3>2, SumAdds
    <3>4. A \cap (s \cup {y}) = {} => A \cap s = {}
      OBVIOUS
    <3> HIDE DEF Sum
    <3>5. Sum(A \cup (s \cup {y})) = f[y] + Sum(A \cup s)
      BY <3>1, <3>3
    <3> QED BY <1>1, <1>3, <2>1, <2>3, <3>4, <3>5
  <2> QED BY <2>4, <2>5
<1>4. B \in P
  <2> HIDE DEF P
  <2> QED BY <1>2, <1>3, Growing
<1> QED BY <1>4

\* A part has no larger sum.
LEMMA SumOfPart ==
  ASSUME NEW S, IsFiniteSet(S), NEW T, T \subseteq S, NEW f, NatOn(f, S)
  PROVE  SumFunctionOnSet(f, T) <= SumFunctionOnSet(f, S)
<1>1. IsFiniteSet(T) /\ IsFiniteSet(S \ T) /\ T \cup (S \ T) = S /\ T \cap (S \ T) = {}
  BY FS_Subset
<1>2. NatOn(f, T \cup (S \ T)) /\ NatOn(f, T) /\ NatOn(f, S \ T)
  BY <1>1 DEF NatOn
<1>3. SumFunctionOnSet(f, T \cup (S \ T)) = SumFunctionOnSet(f, T) + SumFunctionOnSet(f, S \ T)
  BY <1>1, <1>2, SumOfTwo
<1>4. SumFunctionOnSet(f, T) \in Nat /\ SumFunctionOnSet(f, S \ T) \in Nat
  BY <1>1, <1>2, SumNat
<1>5. SumFunctionOnSet(f, S) = SumFunctionOnSet(f, T) + SumFunctionOnSet(f, S \ T)
  BY <1>1, <1>3
<1> QED BY <1>4, <1>5

\* Each element counts one.
LEMMA CountIsSum ==
  ASSUME NEW S, IsFiniteSet(S), NEW f, \A x \in S : f[x] = 1
  PROVE  SumFunctionOnSet(f, S) = Cardinality(S)
<1> DEFINE P == {s \in SUBSET S : SumFunctionOnSet(f, s) = Cardinality(s)}
<1>1. {} \in P
  BY SumNone, FS_EmptySet
<1>2. ASSUME NEW s \in SUBSET S, NEW y \in S, s \in P, y \notin s
      PROVE  s \cup {y} \in P
  <2>1. IsFiniteSet(s) /\ NatOn(f, s \cup {y})
    BY FS_Subset DEF NatOn
  <2>2. SumFunctionOnSet(f, s \cup {y}) = f[y] + SumFunctionOnSet(f, s)
    BY <1>2, <2>1, SumAdds
  <2>3. Cardinality(s \cup {y}) = Cardinality(s) + 1 /\ Cardinality(s) \in Nat
    BY <1>2, <2>1, FS_AddElement, FS_CardinalityType
  <2>4. s \cup {y} \in SUBSET S /\ f[y] = 1
    OBVIOUS
  <2> QED BY <1>2, <2>2, <2>3, <2>4
<1>3. S \in P
  <2> HIDE DEF P
  <2> QED BY <1>1, <1>2, Growing
<1> QED BY <1>3

-----------------------------------------------------------------------------
(* Sums by part. *)

\* The parts A[k] of a set, what they reach of it, and that no two of them share an element.
PartsOf(A, K, U) == \A k \in K : A[k] \subseteq U
Covered(A, K, U) == {x \in U : \E k \in K : x \in A[k]}
Apart(A, K) == \A k, m \in K : k # m => A[k] \cap A[m] = {}

\* The sums of the parts add up to the sum of what they cover, if they are apart; to at least that otherwise.
LEMMA SumOfParts ==
  ASSUME NEW K, IsFiniteSet(K), NEW U, IsFiniteSet(U), NEW A, PartsOf(A, K, U),
         NEW f, NatOn(f, U), NEW G, \A k \in K : G[k] = SumFunctionOnSet(f, A[k])
  PROVE  /\ NatOn(G, K)
         /\ SumFunctionOnSet(f, Covered(A, K, U)) <= SumFunctionOnSet(G, K)
         /\ Apart(A, K) => SumFunctionOnSet(f, Covered(A, K, U)) = SumFunctionOnSet(G, K)
<1> DEFINE Whole0(s) == SumFunctionOnSet(f, Covered(A, s, U))
           Sum(s) == SumFunctionOnSet(G, s)
           P == {s \in SUBSET K : Whole0(s) <= Sum(s) /\ (Apart(A, s) => Whole0(s) = Sum(s))}
<1>1. \A k \in K : A[k] \subseteq U /\ IsFiniteSet(A[k]) /\ NatOn(f, A[k])
  BY FS_Subset DEF PartsOf, NatOn
<1>2. NatOn(G, K)
  BY <1>1, SumNat DEF NatOn
<1>3. \A s \in SUBSET K : /\ IsFiniteSet(s) /\ IsFiniteSet(Covered(A, s, U)) /\ NatOn(f, Covered(A, s, U))
                          /\ NatOn(G, s) /\ Whole0(s) \in Nat /\ Sum(s) \in Nat
  <2> SUFFICES ASSUME NEW s \in SUBSET K
               PROVE  /\ IsFiniteSet(s) /\ IsFiniteSet(Covered(A, s, U)) /\ NatOn(f, Covered(A, s, U))
                      /\ NatOn(G, s) /\ Whole0(s) \in Nat /\ Sum(s) \in Nat
    OBVIOUS
  <2>1. IsFiniteSet(s)
    BY FS_Subset
  <2>2. Covered(A, s, U) \subseteq U
    BY DEF Covered
  <2>3. IsFiniteSet(Covered(A, s, U))
    BY <2>2, FS_Subset
  <2>4. NatOn(f, Covered(A, s, U)) /\ NatOn(G, s)
    BY <1>2, <2>2 DEF NatOn
  <2> QED BY <2>1, <2>3, <2>4, SumNat
<1>4. {} \in P
  <2>1. Covered(A, {}, U) = {}
    BY DEF Covered
  <2>2. Whole0({}) = 0 /\ Sum({}) = 0
    BY <2>1, SumNone
  <2> HIDE DEF Whole0, Sum
  <2> QED BY <2>2
<1>5. ASSUME NEW s \in SUBSET K, NEW k \in K, s \in P, k \notin s
      PROVE  s \cup {k} \in P
  <2> DEFINE B == Covered(A, s, U)
  <2>1. Covered(A, s \cup {k}, U) = B \cup A[k]
    BY <1>1 DEF Covered
  <2>2. NatOn(f, B \cup A[k])
    BY <1>1, <1>3 DEF NatOn
  <2>3. IsFiniteSet(B) /\ IsFiniteSet(A[k])
    BY <1>1, <1>3
  <2> HIDE DEF B
  <2>4. /\ SumFunctionOnSet(f, B \cup A[k]) <= SumFunctionOnSet(f, B) + SumFunctionOnSet(f, A[k])
        /\ B \cap A[k] = {} => SumFunctionOnSet(f, B \cup A[k])
                                 = SumFunctionOnSet(f, B) + SumFunctionOnSet(f, A[k])
    BY <2>2, <2>3, SumOfTwo
  <2>5. /\ Whole0(s \cup {k}) <= Whole0(s) + G[k]
        /\ B \cap A[k] = {} => Whole0(s \cup {k}) = Whole0(s) + G[k]
    BY <2>1, <2>4 DEF B
  <2>6. Sum(s \cup {k}) = G[k] + Sum(s)
    <3>1. NatOn(G, s \cup {k})
      BY <1>2 DEF NatOn
    <3> QED BY <1>3, <1>5, <3>1, SumAdds
  <2>7. Apart(A, s \cup {k}) => Apart(A, s) /\ B \cap A[k] = {}
    BY <1>5 DEF Apart, B, Covered
  <2>8. /\ Whole0(s) \in Nat /\ Sum(s) \in Nat /\ G[k] \in Nat /\ Whole0(s \cup {k}) \in Nat
        /\ s \cup {k} \in SUBSET K
    BY <1>2, <1>3 DEF NatOn
  <2>9. Whole0(s) <= Sum(s) /\ (Apart(A, s) => Whole0(s) = Sum(s))
    BY <1>5
  <2> HIDE DEF Whole0, Sum
  <2>10. Whole0(s \cup {k}) <= Sum(s \cup {k})
    BY <2>5, <2>6, <2>8, <2>9
  <2>11. Apart(A, s \cup {k}) => Whole0(s \cup {k}) = Sum(s \cup {k})
    BY <2>5, <2>6, <2>7, <2>8, <2>9
  <2> QED BY <2>8, <2>10, <2>11
<1>6. K \in P
  <2> HIDE DEF P
  <2> QED BY <1>4, <1>5, Growing
<1> QED BY <1>2, <1>6

\* The same for how many there are.
LEMMA CountOfParts ==
  ASSUME NEW K, IsFiniteSet(K), NEW U, IsFiniteSet(U), NEW A, PartsOf(A, K, U),
         NEW G, \A k \in K : G[k] = Cardinality(A[k])
  PROVE  /\ NatOn(G, K)
         /\ Cardinality(Covered(A, K, U)) <= SumFunctionOnSet(G, K)
         /\ Apart(A, K) => Cardinality(Covered(A, K, U)) = SumFunctionOnSet(G, K)
<1> DEFINE f == [x \in U |-> 1]
<1>1. NatOn(f, U) /\ \A x \in U : f[x] = 1
  BY DEF NatOn
<1> HIDE DEF f
<1>2. \A S \in SUBSET U : SumFunctionOnSet(f, S) = Cardinality(S)
  BY <1>1, FS_Subset, CountIsSum
<1>3. \A k \in K : G[k] = SumFunctionOnSet(f, A[k])
  BY <1>2 DEF PartsOf
<1>4. /\ NatOn(G, K)
      /\ SumFunctionOnSet(f, Covered(A, K, U)) <= SumFunctionOnSet(G, K)
      /\ Apart(A, K) => SumFunctionOnSet(f, Covered(A, K, U)) = SumFunctionOnSet(G, K)
  BY <1>1, <1>3, SumOfParts
<1>5. Covered(A, K, U) \in SUBSET U
  BY DEF Covered
<1> QED BY <1>2, <1>4, <1>5

\* A sum of sums of two functions.
LEMMA SumOfPlus ==
  ASSUME NEW S, IsFiniteSet(S), NEW f, NEW g, NatOn(f, S), NatOn(g, S),
         NEW h, \A x \in S : h[x] = f[x] + g[x]
  PROVE  SumFunctionOnSet(h, S) = SumFunctionOnSet(f, S) + SumFunctionOnSet(g, S)
<1> DEFINE F0(s) == SumFunctionOnSet(f, s)
           G0(s) == SumFunctionOnSet(g, s)
           H0(s) == SumFunctionOnSet(h, s)
           P == {s \in SUBSET S : H0(s) = F0(s) + G0(s)}
<1>1. {} \in P
  BY SumNone
<1>2. ASSUME NEW s \in SUBSET S, NEW y \in S, s \in P, y \notin s
      PROVE  s \cup {y} \in P
  <2>1. IsFiniteSet(s) /\ NatOn(f, s \cup {y}) /\ NatOn(g, s \cup {y}) /\ NatOn(f, s) /\ NatOn(g, s)
    BY FS_Subset DEF NatOn
  <2>2. NatOn(h, s \cup {y})
    BY DEF NatOn
  <2>3. /\ F0(s \cup {y}) = f[y] + F0(s) /\ G0(s \cup {y}) = g[y] + G0(s)
        /\ H0(s \cup {y}) = h[y] + H0(s)
    BY <1>2, <2>1, <2>2, SumAdds
  <2>4. F0(s) \in Nat /\ G0(s) \in Nat /\ f[y] \in Nat /\ g[y] \in Nat /\ h[y] = f[y] + g[y]
    BY <2>1, SumNat DEF NatOn
  <2>5. H0(s) = F0(s) + G0(s) /\ s \cup {y} \in SUBSET S
    BY <1>2
  <2> HIDE DEF F0, G0, H0
  <2> QED BY <2>3, <2>4, <2>5
<1>3. S \in P
  <2> HIDE DEF P
  <2> QED BY <1>1, <1>2, Growing
<1> QED BY <1>3

\* A table adds up to the same by row and by column.
LEMMA SumsCross ==
  ASSUME NEW K, NEW S, IsFiniteSet(K), IsFiniteSet(S),
         NEW c, \A k \in K, x \in S : c[<<k, x>>] \in Nat
  PROVE  SumFunctionOnSet([k \in K |-> SumFunctionOnSet([x \in S |-> c[<<k, x>>]], S)], K)
           = SumFunctionOnSet([x \in S |-> SumFunctionOnSet([k \in K |-> c[<<k, x>>]], K)], S)
<1> DEFINE Across(k) == [x \in S |-> c[<<k, x>>]]
           Down(x) == [k \in K |-> c[<<k, x>>]]
           rows == [k \in K |-> SumFunctionOnSet(Across(k), S)]
           columns(s) == [x \in S |-> SumFunctionOnSet(Down(x), s)]
           P == {s \in SUBSET K : SumFunctionOnSet(rows, s) = SumFunctionOnSet(columns(s), S)}
<1>1. \A k \in K : NatOn(Across(k), S)
  BY DEF NatOn
<1>2. NatOn(rows, K)
  <2>1. \A k \in K : SumFunctionOnSet(Across(k), S) \in Nat
    BY <1>1, SumNat
  <2> HIDE DEF Across
  <2> QED BY <2>1 DEF NatOn
<1>3. \A x \in S : NatOn(Down(x), K)
  BY DEF NatOn
<1>4. {} \in P
  <2>1. \A x \in S : columns({})[x] = 0
    BY SumNone
  <2>2. SumFunctionOnSet(columns({}), S) = 0
    <3> DEFINE zero == columns({})
               Q == {s \in SUBSET S : SumFunctionOnSet(zero, s) = 0}
    <3>1. {} \in Q
      BY SumNone
    <3>2. \A x \in S : zero[x] = 0
      BY <2>1
    <3> HIDE DEF zero
    <3>3. ASSUME NEW s \in SUBSET S, NEW y \in S, s \in Q, y \notin s
          PROVE  s \cup {y} \in Q
      <4>1. IsFiniteSet(s) /\ NatOn(zero, s \cup {y})
        BY <3>2, FS_Subset DEF NatOn
      <4>2. SumFunctionOnSet(zero, s \cup {y}) = zero[y] + SumFunctionOnSet(zero, s)
        BY <3>3, <4>1, SumAdds
      <4> QED BY <3>2, <3>3, <4>2
    <3>4. S \in Q
      <4> HIDE DEF Q
      <4> QED BY <3>1, <3>3, Growing
    <3> QED BY <3>4 DEF zero
  <2>3. SumFunctionOnSet(rows, {}) = 0
    BY SumNone
  <2> HIDE DEF rows, columns
  <2> QED BY <2>2, <2>3
<1>5. ASSUME NEW s \in SUBSET K, NEW k \in K, s \in P, k \notin s
      PROVE  s \cup {k} \in P
  <2>1. IsFiniteSet(s) /\ s \cup {k} \in SUBSET K
    BY FS_Subset
  <2>2. SumFunctionOnSet(rows, s \cup {k}) = rows[k] + SumFunctionOnSet(rows, s)
    <3>1. NatOn(rows, s \cup {k})
      BY <1>2 DEF NatOn
    <3> HIDE DEF rows
    <3> QED BY <1>5, <2>1, <3>1, SumAdds
  <2>3. \A x \in S : /\ SumFunctionOnSet(Down(x), s \cup {k})
                          = Down(x)[k] + SumFunctionOnSet(Down(x), s)
                     /\ SumFunctionOnSet(Down(x), s) \in Nat
    <3> SUFFICES ASSUME NEW x \in S
                 PROVE  /\ SumFunctionOnSet(Down(x), s \cup {k})
                             = Down(x)[k] + SumFunctionOnSet(Down(x), s)
                        /\ SumFunctionOnSet(Down(x), s) \in Nat
      OBVIOUS
    <3>1. NatOn(Down(x), s \cup {k}) /\ NatOn(Down(x), s)
      BY <1>3 DEF NatOn
    <3> HIDE DEF Down
    <3> QED BY <1>5, <2>1, <3>1, SumAdds, SumNat
  <2>4. \A x \in S : columns(s \cup {k})[x] = Across(k)[x] + columns(s)[x]
    BY <2>3
  <2>5. NatOn(columns(s), S)
    BY <2>3 DEF NatOn
  <2> HIDE DEF columns, Across
  <2>6. SumFunctionOnSet(columns(s \cup {k}), S)
          = SumFunctionOnSet(Across(k), S) + SumFunctionOnSet(columns(s), S)
    BY <1>1, <2>4, <2>5, SumOfPlus
  <2>7. rows[k] = SumFunctionOnSet(Across(k), S)
    OBVIOUS
  <2> HIDE DEF rows
  <2> QED BY <1>5, <2>1, <2>2, <2>6, <2>7
<1>6. K \in P
  <2> HIDE DEF P
  <2> QED BY <1>4, <1>5, Growing
<1> QED BY <1>6

-----------------------------------------------------------------------------
(* The reports on leads. *)

-----------------------------------------------------------------------------
(* What a list of leads holds, parameter by parameter. *)

QueryNames ==
  {"source", "status", "agent", "tag", "pipeline", "from", "to", "unassigned", "todays", "overdue",
   "noActivity", "day", "team", "dateField", "reason", "conditions", "search", "includeLost",
   "contact", "activityType", "type", "green", "amber", "late", "manager", "span", "windows",
   "month", "prior", "edges", "group", "sorted", "up", "size", "assigned"}

\* What is not chosen.
LEMMA NothingChosen ==
  /\ DOMAIN Query = QueryNames
  /\ Query.source = {} /\ Query.status = {} /\ Query.agent = {} /\ Query.tag = {}
  /\ Query.team = {} /\ Query.reason = {} /\ Query.type = {} /\ Query.conditions = {}
  /\ Query.windows = {}
  /\ Query.pipeline = Null /\ Query.from = Null /\ Query.to = Null /\ Query.day = Null
  /\ Query.search = Null /\ Query.span = Null
  /\ Query.unassigned = FALSE /\ Query.todays = FALSE /\ Query.overdue = FALSE
  /\ Query.noActivity = FALSE /\ Query.includeLost = FALSE /\ Query.assigned = FALSE
  /\ Query.dateField = "created"
<1> DEFINE g == [team |-> {}, dateField |-> "created", reason |-> {}, conditions |-> {}, search |-> Null,
   includeLost |-> FALSE, contact |-> "all", activityType |-> {}, type |-> {},
   green |-> 1, amber |-> 2, late |-> 1, manager |-> Null,
   span |-> Null, windows |-> {}, month |-> <<0, 3 * Day>>,
   prior |-> Null, edges |-> <<>>, group |-> "none", sorted |-> FALSE, up |-> TRUE, size |-> 2,
   assigned |-> FALSE]
<1>1. Query = Along(NoFilter, g)
  BY DEF Query
<1>2. DOMAIN g = {"team", "dateField", "reason", "conditions", "search", "includeLost", "contact",
                  "activityType", "type", "green", "amber", "late", "manager", "span", "windows",
                  "month", "prior", "edges", "group", "sorted", "up", "size", "assigned"}
  OBVIOUS
<1>3. DOMAIN NoFilter = {"source", "status", "agent", "tag", "pipeline", "from", "to", "unassigned",
                         "todays", "overdue", "noActivity", "day"}
  BY DEF NoFilter
<1>4. /\ g.team = {} /\ g.reason = {} /\ g.type = {} /\ g.conditions = {} /\ g.windows = {}
      /\ g.search = Null /\ g.span = Null /\ g.includeLost = FALSE /\ g.assigned = FALSE
      /\ g.dateField = "created"
  OBVIOUS
<1>5. /\ NoFilter.source = {} /\ NoFilter.status = {} /\ NoFilter.agent = {} /\ NoFilter.tag = {}
      /\ NoFilter.pipeline = Null /\ NoFilter.from = Null /\ NoFilter.to = Null /\ NoFilter.day = Null
      /\ NoFilter.unassigned = FALSE /\ NoFilter.todays = FALSE /\ NoFilter.overdue = FALSE
      /\ NoFilter.noActivity = FALSE
  BY DEF NoFilter
<1> HIDE DEF g
<1>6. DOMAIN Query = DOMAIN NoFilter \cup DOMAIN g
  BY <1>1 DEF Along
<1>7. DOMAIN Query = QueryNames
  BY <1>2, <1>3, <1>6 DEF QueryNames
<1>8. \A x \in DOMAIN NoFilter : Query[x] = NoFilter[x]
  BY <1>1 DEF Along
<1>9. \A x \in DOMAIN g \ DOMAIN NoFilter : Query[x] = g[x]
  BY <1>1 DEF Along
<1>10. /\ Query.source = {} /\ Query.status = {} /\ Query.agent = {} /\ Query.tag = {}
       /\ Query.pipeline = Null /\ Query.from = Null /\ Query.to = Null /\ Query.day = Null
       /\ Query.unassigned = FALSE /\ Query.todays = FALSE /\ Query.overdue = FALSE
       /\ Query.noActivity = FALSE
  BY <1>3, <1>5, <1>8
<1>11. /\ Query.team = {} /\ Query.reason = {} /\ Query.type = {} /\ Query.conditions = {}
       /\ Query.windows = {} /\ Query.search = Null /\ Query.span = Null
       /\ Query.includeLost = FALSE /\ Query.assigned = FALSE /\ Query.dateField = "created"
  BY <1>2, <1>3, <1>4, <1>9
<1> QED BY <1>7, <1>10, <1>11

\* A query with every parameter.
Complete(q) == DOMAIN q = QueryNames

\* The queries there are, and those a report makes of them, are complete.
LEMMA QueriesComplete ==
  /\ Complete(Query)
  /\ \A q \in Queries : Complete(q)
<1>1. \A q \in Queries : DOMAIN q = DOMAIN Query
  BY AskedAssumption
<1> QED BY <1>1, NothingChosen DEF Complete

\* What a lead must be whatever its status and its dates.
Suits(me, l, q) ==
  /\ leadScopeWhere(me, l, FALSE)
  /\ leadSearchWhere(l, q.search)
  /\ \A c \in q.conditions : ConditionWhere(l, c) = "true"
  /\ OneOf(q.source, l.source)
  /\ Some(q.agent, Assignees(l))
  /\ Some(q.tag, l.tags)
  /\ q.pipeline \in {Null, l.pipeline}
  /\ q.unassigned => Assignees(l) = {}
  /\ q.day # Null /\ q.todays => HasOpen(l, q.day[1], q.day[2])
  /\ q.day # Null /\ q.overdue => HasOpen(l, Null, q.day[1])
  /\ q.noActivity => LiveOf(l.activities) = {}

\* What buildLeadWhere asks, taken apart.
LEMMA BaseIs ==
  ASSUME NEW me, NEW q, NEW l
  PROVE  l \in Base(me, q) <=> /\ l \in leads /\ Suits(me, l, q)
                               /\ OneOf(q.status, l.status) /\ Within(l.createdAt, q.from, q.to)
<1>1. l \in Base(me, q) <=> l \in leads /\ buildLeadWhere(me, l, FALSE, q.search, q.conditions, q)
  BY DEF Base
<1> QED BY <1>1 DEF buildLeadWhere, leadFilterWhere, Suits

\* Two queries that ask for the same leads but for the status and the dates.
Akin(p, q) ==
  /\ p.search = q.search /\ p.conditions = q.conditions /\ p.source = q.source /\ p.agent = q.agent
  /\ p.tag = q.tag /\ p.pipeline = q.pipeline /\ p.unassigned = q.unassigned /\ p.todays = q.todays
  /\ p.overdue = q.overdue /\ p.noActivity = q.noActivity /\ p.day = q.day

\* Such queries are answered with the same leads.
LEMMA SuitsAlike ==
  ASSUME NEW me, NEW l, NEW p, NEW q, Akin(p, q)
  PROVE  Suits(me, l, p) <=> Suits(me, l, q)
BY DEF Akin, Suits

\* With another status, and without the window.
LEMMA Restated ==
  ASSUME NEW q, Complete(q), NEW S
  PROVE  LET p == [q EXCEPT !.status = S] IN
         /\ Complete(p) /\ Akin(p, q) /\ p.status = S /\ p.from = q.from /\ p.to = q.to
         /\ p.team = q.team /\ p.reason = q.reason /\ p.dateField = q.dateField
BY DEF Complete, QueryNames, Akin

\* The same of a query that is given,
LEMMA RestatedAs ==
  ASSUME NEW q, Complete(q), NEW S, NEW p, p = [q EXCEPT !.status = S]
  PROVE  Akin(p, q) /\ p.status = S /\ p.from = q.from /\ p.to = q.to
BY DEF Complete, QueryNames, Akin

\* Without the window,
LEMMA WindowOff ==
  ASSUME NEW q, Complete(q)
  PROVE  LET p == NoWindow(q) IN
         /\ Complete(p) /\ Akin(p, q) /\ p.status = q.status /\ p.from = Null /\ p.to = Null
         /\ p.team = q.team /\ p.reason = q.reason /\ p.dateField = q.dateField
BY DEF Complete, QueryNames, Akin, NoWindow

\* and with the window only if it is the list's own.
LEMMA DatesOff ==
  ASSUME NEW q, Complete(q)
  PROVE  LET p == Undated(q) IN
         /\ Complete(p) /\ Akin(p, q) /\ p.status = q.status
         /\ p.team = q.team /\ p.reason = q.reason /\ p.dateField = q.dateField
         /\ q.dateField = "created" => p.from = q.from /\ p.to = q.to
         /\ q.dateField # "created" => p.from = Null /\ p.to = Null
BY DEF Complete, QueryNames, Akin, Undated

\* The dates of a report.
Timed(l, q) == IF q.dateField = "created" THEN Within(l.createdAt, q.from, q.to) ELSE dateWhere(l, q)

\* The leads by status, source and owner,
LEMMA ByStatusIs ==
  ASSUME NEW me, NEW q, Complete(q), NEW l
  PROVE  l \in ByStatus(me, q) <=> /\ l \in leads /\ Suits(me, l, q) /\ OneOf(q.status, l.status)
                                   /\ teamWhere(l, q.team) /\ Timed(l, q)
<1> DEFINE p == Undated(q)
<1>1. l \in ByStatus(me, q) <=> l \in Base(me, p) /\ teamWhere(l, q.team) /\ dateWhere(l, q)
  BY DEF ByStatus
<1>2. /\ Akin(p, q) /\ p.status = q.status
      /\ q.dateField = "created" => p.from = q.from /\ p.to = q.to
      /\ q.dateField # "created" => p.from = Null /\ p.to = Null
  BY DatesOff
<1>3. l \in Base(me, p) <=> /\ l \in leads /\ Suits(me, l, p)
                            /\ OneOf(p.status, l.status) /\ Within(l.createdAt, p.from, p.to)
  BY BaseIs
<1>4. Suits(me, l, p) <=> Suits(me, l, q)
  BY <1>2, SuitsAlike
<1> HIDE DEF p
<1> QED BY <1>1, <1>2, <1>3, <1>4 DEF Timed, dateWhere, Within

\* the lost leads,
LEMMA LostIs ==
  ASSUME NEW me, NEW q, Complete(q), NEW l
  PROVE  l \in Lost(me, q) <=> /\ l \in leads /\ Suits(me, l, q) /\ l.status = "LOST"
                               /\ teamWhere(l, q.team) /\ Timed(l, q) /\ reasonWhere(l, q.reason)
<1> DEFINE p == [q EXCEPT !.status = {"LOST"}]
<1>1. l \in Lost(me, q) <=> l \in ByStatus(me, p) /\ reasonWhere(l, q.reason)
  BY DEF Lost
<1>2. /\ Complete(p) /\ Akin(p, q) /\ p.status = {"LOST"} /\ p.from = q.from /\ p.to = q.to
      /\ p.team = q.team /\ p.dateField = q.dateField
  BY Restated
<1>3. Suits(me, l, p) <=> Suits(me, l, q)
  BY <1>2, SuitsAlike
<1> HIDE DEF p
<1>4. Timed(l, p) <=> Timed(l, q)
  BY <1>2 DEF Timed, dateWhere, Windowed, InWindow
<1>5. l \in ByStatus(me, p) <=> /\ l \in leads /\ Suits(me, l, p) /\ OneOf(p.status, l.status)
                                /\ teamWhere(l, p.team) /\ Timed(l, p)
  BY <1>2, ByStatusIs
<1>6. OneOf({"LOST"}, l.status) <=> l.status = "LOST"
  BY DEF OneOf
<1> QED BY <1>1, <1>2, <1>3, <1>4, <1>5, <1>6

\* the converted leads.
LEMMA ConvertedIs ==
  ASSUME NEW me, NEW q, Complete(q), NEW l
  PROVE  l \in Converted(me, q) <=> /\ l \in leads /\ Suits(me, l, q) /\ l.status = "WON"
                                    /\ Timed(l, q)
<1> DEFINE u == Undated(q)
           p == [u EXCEPT !.status = {"WON"}]
<1>1. l \in Converted(me, q) <=> l \in Base(me, p) /\ dateWhere(l, q)
  BY DEF Converted
<1>2. /\ Complete(u) /\ Akin(u, q)
      /\ q.dateField = "created" => u.from = q.from /\ u.to = q.to
      /\ q.dateField # "created" => u.from = Null /\ u.to = Null
  BY DatesOff
<1> HIDE DEF u
<1>3. /\ Akin(p, u) /\ p.status = {"WON"} /\ p.from = u.from /\ p.to = u.to
  BY <1>2, Restated
<1>4. l \in Base(me, p) <=> /\ l \in leads /\ Suits(me, l, p)
                            /\ OneOf(p.status, l.status) /\ Within(l.createdAt, p.from, p.to)
  BY BaseIs
<1> HIDE DEF p
<1>5. Suits(me, l, p) <=> Suits(me, l, q)
  <2>1. Suits(me, l, p) <=> Suits(me, l, u)
    BY <1>3, SuitsAlike
  <2>2. Suits(me, l, u) <=> Suits(me, l, q)
    BY <1>2, SuitsAlike
  <2> QED BY <2>1, <2>2
<1>6. OneOf({"WON"}, l.status) <=> l.status = "WON"
  BY DEF OneOf
<1> QED BY <1>1, <1>2, <1>3, <1>4, <1>5, <1>6 DEF Timed, dateWhere, Within

\* The reports on engagement read no date of the lead.
LEMMA EngagementIs ==
  ASSUME NEW me, NEW q, Complete(q), NEW l
  PROVE  /\ l \in NoActivity(me, q) <=> /\ l \in leads /\ Suits(me, l, q) /\ OneOf(q.status, l.status)
                                        /\ noEngagementWhere(l, q.from, q.to)
         /\ l \in TodayLeads(me, q) <=> /\ l \in leads /\ Suits(me, l, q) /\ OneOf(q.status, l.status)
                                        /\ answeredCallWhere(l, q.from, q.to)
<1> DEFINE p == NoWindow(q)
<1>1. /\ l \in NoActivity(me, q) <=> l \in Base(me, p) /\ noEngagementWhere(l, q.from, q.to)
      /\ l \in TodayLeads(me, q) <=> l \in Base(me, p) /\ answeredCallWhere(l, q.from, q.to)
  BY DEF NoActivity, TodayLeads
<1>2. Akin(p, q) /\ p.status = q.status /\ p.from = Null /\ p.to = Null
  BY WindowOff
<1>3. l \in Base(me, p) <=> /\ l \in leads /\ Suits(me, l, p)
                            /\ OneOf(p.status, l.status) /\ Within(l.createdAt, p.from, p.to)
  BY BaseIs
<1>4. Suits(me, l, p) <=> Suits(me, l, q)
  BY <1>2, SuitsAlike
<1> HIDE DEF p
<1> QED BY <1>1, <1>2, <1>3, <1>4 DEF Within

\* What a class does not allow is not chosen.
LEMMA NotAllowed ==
  ASSUME NEW q, NEW F, Only(q, F), NEW f \in QueryNames, f \notin F, f # "span"
  PROVE  q[f] = Query[f]
BY NothingChosen DEF Only

-----------------------------------------------------------------------------
(* The report on ownership. *)

\* What the answer tells: its list, and a row of figures per owner.
OwnershipTold ==
  Is("ownership") =>
    LET me == answer.me  q == answer.query  S == ByOwnership(me, q) IN
    /\ q \in Queries /\ LeadsByOwnershipQueryDto(q)
    /\ answer.list = Ids(S)
    /\ answer.rows = [u \in RowsFor(me, S) |-> Figures(RowLeads(me, S, u))]
    /\ answer.teams = IF SeesOnlySelf(me) THEN <<>> ELSE TeamRows(S, DOMAIN answer.rows)

\* The leads of a step are those of the table it leaves alone.
LEMMA OwnershipTelling ==
  ASSUME NEW me, NEW q \in Queries, leadsByOwnership(me, q)
  PROVE  OwnershipTold'
<1> DEFINE S == ByOwnership(me, q)
           rows == [u \in RowsFor(me, S) |-> Figures(RowLeads(me, S, u))]
           teams == IF SeesOnlySelf(me) THEN <<>> ELSE TeamRows(S, DOMAIN rows)
           fields == [list |-> Ids(S), rows |-> rows, total |-> Cardinality(S), teams |-> teams]
<1>1. Say("ownership", me, q, fields) /\ LeadsByOwnershipQueryDto(q)
  BY DEF leadsByOwnership
<1>2. /\ table' = table /\ answer'.me = me /\ answer'.query = q
      /\ \A x \in DOMAIN fields \ {"report", "me", "query"} : answer'[x] = fields[x]
  <2> HIDE DEF fields
  <2> QED BY <1>1, Saying
<1>3. answer'.list = Ids(S) /\ answer'.rows = rows /\ answer'.teams = teams
  BY <1>2
<1>4. S = ByOwnership(answer.me, answer.query)'
  BY <1>2 DEF ByOwnership, ByStatus, Base, leads
<1> HIDE DEF S
<1> QED BY <1>1, <1>2, <1>3, <1>4 DEF OwnershipTold

\* An owner's figures are the leads the reports behind them list for him.
LEMMA OwnersMatch ==
  ASSUME table \in Tables, OwnershipTold
  PROVE  OwnersMatchReports
<1> DEFINE me == answer.me
           q == answer.query
           any == NoWindow(q)
           S == ByOwnership(me, q)
<1> SUFFICES ASSUME Is("ownership"), ~SeesOnlySelf(me), q.team = {},
                    NEW u \in DOMAIN answer.rows \ {Null}
             PROVE  LET row == answer.rows[u]
                        mine(T) == OwnedBy(T, u)
                        inTime(T) == {l \in mine(T) : l.id \in answer.list}
                    IN /\ row.lostCount = Cardinality(mine(Lost(me, q)))
                       /\ row.convertedCount = Cardinality(mine(Converted(me, q)))
                       /\ row.contactedCount = Cardinality(inTime(TodayLeads(me, any)))
                       /\ row.noActivityCount = Cardinality(inTime(NoActivity(me, any)))
  BY DEF OwnersMatchReports
<1>1. /\ q \in Queries /\ LeadsByOwnershipQueryDto(q) /\ answer.list = Ids(S)
      /\ answer.rows[u] = Figures(RowLeads(me, S, u))
  BY DEF OwnershipTold
<1>2. RowLeads(me, S, u) = OwnedBy(S, u)
  BY DEF RowLeads
<1>3. Complete(q) /\ q.status = {} /\ q.reason = {}
  <2>1. Complete(q)
    BY <1>1, QueriesComplete
  <2>2. Only(q, Cohort \cup {"team", "source", "unassigned", "size"})
    BY <1>1 DEF LeadsByOwnershipQueryDto
  <2>3. "status" \notin Cohort \cup {"team", "source", "unassigned", "size"}
    BY DEF Cohort, Window
  <2>4. "reason" \notin Cohort \cup {"team", "source", "unassigned", "size"}
    BY DEF Cohort, Window
  <2>5. q.status = Query.status /\ q.reason = Query.reason
    BY <2>2, <2>3, <2>4, NotAllowed DEF QueryNames
  <2> QED BY <2>1, <2>5, NothingChosen
<1>4. /\ any.status = {} /\ any.from = Null /\ any.to = Null /\ Complete(any) /\ Akin(any, q)
  BY <1>3, WindowOff
<1> HIDE DEF q, any
<1>5. \A l : l \in S <=> l \in leads /\ Suits(me, l, q) /\ Timed(l, q)
  BY <1>3, ByStatusIs DEF S, ByOwnership, OneOf, teamWhere, Some
<1>6. \A l : l \in Lost(me, q) <=> l \in S /\ l.status = "LOST"
  BY <1>3, <1>5, LostIs DEF teamWhere, Some, reasonWhere, OneOf
<1>7. \A l : l \in Converted(me, q) <=> l \in S /\ l.status = "WON"
  BY <1>3, <1>5, ConvertedIs
<1>8. \A l : /\ l \in NoActivity(me, any) <=> l \in leads /\ Suits(me, l, q) /\ noEngagementWhere(l, Null, Null)
             /\ l \in TodayLeads(me, any) <=> l \in leads /\ Suits(me, l, q) /\ answeredCallWhere(l, Null, Null)
  BY <1>4, EngagementIs, SuitsAlike DEF OneOf
<1>9. S \subseteq leads /\ \A l \in leads : l.id \in answer.list <=> l \in S
  <2>1. S \subseteq leads
    BY <1>5
  <2>2. \A l, k \in leads : l.id = k.id => l = k
    BY TablesAssumption, PoolAssumption DEF leads
  <2> QED BY <1>1, <2>1, <2>2 DEF Ids
<1> HIDE DEF S, me
<1>10. {l \in OwnedBy(S, u) : l.status = "LOST"} = OwnedBy(Lost(me, q), u)
  BY <1>6 DEF OwnedBy
<1>11. Won(OwnedBy(S, u)) = OwnedBy(Converted(me, q), u)
  BY <1>7 DEF OwnedBy, Won
<1>12. {l \in OwnedBy(S, u) : answeredCallWhere(l, Null, Null)}
         = {l \in OwnedBy(TodayLeads(me, any), u) : l.id \in answer.list}
  BY <1>5, <1>8, <1>9 DEF OwnedBy
<1>13. {l \in OwnedBy(S, u) : noEngagementWhere(l, Null, Null)}
         = {l \in OwnedBy(NoActivity(me, any), u) : l.id \in answer.list}
  BY <1>5, <1>8, <1>9 DEF OwnedBy
<1>14. LET row == answer.rows[u] IN
       /\ row.lostCount = Cardinality({l \in OwnedBy(S, u) : l.status = "LOST"})
       /\ row.convertedCount = Cardinality(Won(OwnedBy(S, u)))
       /\ row.contactedCount = Cardinality({l \in OwnedBy(S, u) : answeredCallWhere(l, Null, Null)})
       /\ row.noActivityCount = Cardinality({l \in OwnedBy(S, u) : noEngagementWhere(l, Null, Null)})
  BY <1>1, <1>2 DEF Figures
<1> QED BY <1>10, <1>11, <1>12, <1>13, <1>14

-----------------------------------------------------------------------------
(* The headings. *)

\* Every element has one label, and the counts are of the elements of a label.
Labelled(lab, U, K) == \A x \in U : lab[x] \in K
CountsLabels(G, lab, U, K) == \A k \in K : G[k] = Cardinality({x \in U : lab[x] = k})

\* Counts by label add up to how many elements there are.
LEMMA CountByLabel ==
  ASSUME NEW U, IsFiniteSet(U), NEW K, IsFiniteSet(K), NEW lab, Labelled(lab, U, K),
         NEW G, CountsLabels(G, lab, U, K)
  PROVE  SumFunctionOnSet(G, K) = Cardinality(U)
<1> DEFINE A == [k \in K |-> {x \in U : lab[x] = k}]
<1>1. PartsOf(A, K, U)
  BY DEF PartsOf
<1>2. \A k \in K : G[k] = Cardinality(A[k])
  BY DEF CountsLabels
<1>3. Apart(A, K)
  BY DEF Apart
<1>4. Covered(A, K, U) = U
  BY DEF Covered, Labelled
<1> HIDE DEF A
<1> QED BY <1>1, <1>2, <1>3, <1>4, CountOfParts

\* The leads of a table are finite in number, and an id is one lead's.
LEMMA LeadsKeyed ==
  ASSUME table \in Tables
  PROVE  /\ IsFiniteSet(leads)
         /\ \A l, k \in leads : l.id = k.id => l = k
<1>1. IsFiniteSet(leads)
  <2>1. table \subseteq DOMAIN Pool /\ IsFiniteSet(table)
    BY TablesAssumption
  <2>2. [id \in table |-> Pool[id]] \in Surjection(table, leads)
    BY DEF leads, Surjection
  <2> QED BY <2>1, <2>2, FS_Surjection
<1>2. \A l, k \in leads : l.id = k.id => l = k
  BY TablesAssumption, PoolAssumption DEF leads
<1> QED BY <1>1, <1>2

\* The labels of finitely many leads are finitely many.
LabelsOf(lab, U) == {lab[x] : x \in U}

\* The labels of finitely many elements.
LEMMA LabelsFinite ==
  ASSUME NEW U, IsFiniteSet(U), NEW lab
  PROVE  IsFiniteSet(LabelsOf(lab, U)) /\ Labelled(lab, U, LabelsOf(lab, U))
<1>1. [x \in U |-> lab[x]] \in Surjection(U, LabelsOf(lab, U))
  BY DEF Surjection, LabelsOf
<1> QED BY <1>1, FS_Surjection DEF LabelsOf, Labelled

\* By status: the rows are the counts of the leads of each status there is.
StatusCounts(S) == [k \in {l.status : l \in S} |-> Cardinality({l \in S : l.status = k})]

StatusTold ==
  Is("status") =>
    LET me == answer.me  q == answer.query  S == ByStatus(me, q) IN
    /\ q \in Queries /\ LeadsByStatusQueryDto(q)
    /\ answer.rows = StatusCounts(S)

\* The handler says so.
LEMMA StatusTelling ==
  ASSUME NEW me, NEW q \in Queries, leadsByStatus(me, q)
  PROVE  StatusTold'
<1> DEFINE S == ByStatus(me, q)
           rows == Counts(Groups(S, LAMBDA l : l.status))
           fields == [list |-> Ids(S), rows |-> rows]
<1>1. Say("status", me, q, fields) /\ LeadsByStatusQueryDto(q)
  BY DEF leadsByStatus
<1>2. /\ table' = table /\ answer'.me = me /\ answer'.query = q
      /\ \A x \in DOMAIN fields \ {"report", "me", "query"} : answer'[x] = fields[x]
  <2> HIDE DEF fields
  <2> QED BY <1>1, Saying
<1>3. answer'.rows = rows
  BY <1>2
<1>4. S = ByStatus(answer.me, answer.query)'
  BY <1>2 DEF ByStatus, Base, leads
<1> HIDE DEF S
<1>5. rows = StatusCounts(S)
  BY DEF Counts, Groups, StatusCounts
<1> HIDE DEF rows
<1> QED BY <1>1, <1>2, <1>3, <1>4, <1>5 DEF StatusTold

\* The lost and the won leads of the status report are those of the reports on them.
LEMMA StatusAgrees ==
  ASSUME table \in Tables, StatusTold, Is("status"), answer.query.status = {}, answer.query.team = {}
  PROVE  LET of(rows, k) == IF k \in DOMAIN rows THEN rows[k] ELSE 0 IN
         /\ of(answer.rows, "LOST") = Cardinality(Lost(answer.me, answer.query))
         /\ of(answer.rows, "WON") = Cardinality(Converted(answer.me, answer.query))
<1> DEFINE me == answer.me
           q == answer.query
           S == ByStatus(me, q)
           of(rows, k) == IF k \in DOMAIN rows THEN rows[k] ELSE 0
<1>1. /\ q \in Queries /\ LeadsByStatusQueryDto(q)
      /\ answer.rows = [k \in {l.status : l \in S} |-> Cardinality({l \in S : l.status = k})]
  BY DEF StatusTold, StatusCounts
<1>2. Complete(q) /\ q.status = {} /\ q.team = {} /\ q.reason = {}
  <2>1. Only(q, Cohort \cup {"team", "status", "size"})
    BY <1>1 DEF LeadsByStatusQueryDto
  <2>2. "reason" \notin Cohort \cup {"team", "status", "size"}
    BY DEF Cohort, Window
  <2>3. q.reason = Query.reason
    BY <2>1, <2>2, NotAllowed DEF QueryNames
  <2> QED BY <1>1, <2>3, QueriesComplete, NothingChosen
<1>3. \A k : of(answer.rows, k) = Cardinality({l \in S : l.status = k})
  <2> SUFFICES ASSUME NEW k PROVE of(answer.rows, k) = Cardinality({l \in S : l.status = k})
    OBVIOUS
  <2>1. k \notin {l.status : l \in S} => {l \in S : l.status = k} = {}
    OBVIOUS
  <2> QED BY <1>1, <2>1, FS_EmptySet
<1> HIDE DEF q, me
<1>4. \A l : l \in S <=> l \in leads /\ Suits(me, l, q) /\ Timed(l, q)
  BY <1>2, ByStatusIs DEF OneOf, teamWhere, Some
<1>5. \A l : l \in Lost(me, q) <=> l \in S /\ l.status = "LOST"
  BY <1>2, <1>4, LostIs DEF teamWhere, Some, reasonWhere, OneOf
<1>6. \A l : l \in Converted(me, q) <=> l \in S /\ l.status = "WON"
  BY <1>2, <1>4, ConvertedIs
<1> HIDE DEF S
<1>7. {l \in S : l.status = "LOST"} = Lost(me, q) /\ {l \in S : l.status = "WON"} = Converted(me, q)
  BY <1>5, <1>6
<1> QED BY <1>3, <1>7 DEF me, q

\* By source: the won leads of a source, none if it has none.
SourceTold ==
  Is("source") =>
    LET me == answer.me  q == answer.query  S == BySource(me, q) IN
    /\ q \in Queries /\ LeadsBySourceQueryDto(q)
    /\ DOMAIN answer.won = {sourceLabel(l) : l \in S}
    /\ \A s \in {sourceLabel(l) : l \in S} :
         answer.won[s] = Cardinality({l \in Won(S) : sourceLabel(l) = s})

\* The handler says so.
LEMMA SourceTelling ==
  ASSUME NEW me, NEW q \in Queries, leadsBySource(me, q)
  PROVE  SourceTold'
<1> DEFINE S == BySource(me, q)
           won == Counts(Groups(Won(S), sourceLabel))
           counts == Counts(Groups(S, sourceLabel))
           shares == [s \in DOMAIN counts |-> IF s \in DOMAIN won THEN won[s] ELSE 0]
           fields == [list |-> Ids(S), rows |-> counts, won |-> shares]
<1>1. Say("source", me, q, fields) /\ LeadsBySourceQueryDto(q)
  BY DEF leadsBySource
<1>2. /\ table' = table /\ answer'.me = me /\ answer'.query = q
      /\ \A x \in DOMAIN fields \ {"report", "me", "query"} : answer'[x] = fields[x]
  <2> HIDE DEF fields
  <2> QED BY <1>1, Saying
<1>3. answer'.won = shares
  BY <1>2
<1>4. S = BySource(answer.me, answer.query)'
  BY <1>2 DEF BySource, ByStatus, Base, leads
<1> HIDE DEF S
<1>5. /\ won = [s \in {sourceLabel(l) : l \in Won(S)} |-> Cardinality({l \in Won(S) : sourceLabel(l) = s})]
      /\ DOMAIN counts = {sourceLabel(l) : l \in S}
  BY DEF Counts, Groups
<1> HIDE DEF won, counts
<1>6. ASSUME NEW s \in {sourceLabel(l) : l \in S}
      PROVE  shares[s] = Cardinality({l \in Won(S) : sourceLabel(l) = s})
  <2>1. s \notin DOMAIN won => {l \in Won(S) : sourceLabel(l) = s} = {}
    BY <1>5
  <2>2. s \in DOMAIN won => won[s] = Cardinality({l \in Won(S) : sourceLabel(l) = s})
    BY <1>5
  <2>3. shares[s] = IF s \in DOMAIN won THEN won[s] ELSE 0
    BY <1>5
  <2> QED BY <2>1, <2>2, <2>3, FS_EmptySet
<1>7. DOMAIN shares = {sourceLabel(l) : l \in S}
  BY <1>5
<1> HIDE DEF shares
<1> QED BY <1>1, <1>2, <1>3, <1>4, <1>6, <1>7 DEF SourceTold

\* The won leads of all sources are the converted ones.
LEMMA SourceAgrees ==
  ASSUME table \in Tables, SourceTold, Is("source"), answer.query.team = {}
  PROVE  SumFunction(answer.won) = Cardinality(Converted(answer.me, answer.query))
<1> DEFINE me == answer.me
           q == answer.query
           S == BySource(me, q)
           K == {sourceLabel(l) : l \in S}
           lab == [l \in S |-> sourceLabel(l)]
<1>1. /\ q \in Queries /\ LeadsBySourceQueryDto(q) /\ DOMAIN answer.won = K
      /\ \A s \in K : answer.won[s] = Cardinality({l \in Won(S) : sourceLabel(l) = s})
  BY DEF SourceTold
<1>2. Complete(q) /\ q.status = {} /\ q.team = {}
  <2>1. Only(q, Cohort \cup {"team", "source", "size"})
    BY <1>1 DEF LeadsBySourceQueryDto
  <2>2. "status" \notin Cohort \cup {"team", "source", "size"}
    BY DEF Cohort, Window
  <2>3. q.status = Query.status
    BY <2>1, <2>2, NotAllowed DEF QueryNames
  <2> QED BY <1>1, <2>3, QueriesComplete, NothingChosen
<1> HIDE DEF q, me
<1>3. \A l : l \in S <=> l \in leads /\ Suits(me, l, q) /\ Timed(l, q)
  BY <1>2, ByStatusIs DEF BySource, OneOf, teamWhere, Some
<1>4. Won(S) = Converted(me, q) /\ Won(S) \subseteq S /\ S \subseteq leads
  BY <1>2, <1>3, ConvertedIs DEF Won
<1> HIDE DEF S
<1>5. IsFiniteSet(S) /\ IsFiniteSet(Won(S))
  BY <1>4, LeadsKeyed, FS_Subset
<1>6. IsFiniteSet(K)
  <2>1. K = LabelsOf(lab, S)
    BY DEF LabelsOf
  <2> QED BY <1>5, <2>1, LabelsFinite
<1>7. Labelled(lab, Won(S), K)
  BY <1>4 DEF Labelled
<1>8. \A s \in K : {l \in Won(S) : lab[l] = s} = {l \in Won(S) : sourceLabel(l) = s}
  BY <1>4
<1>9. CountsLabels(answer.won, lab, Won(S), K)
  BY <1>1, <1>8 DEF CountsLabels
<1> HIDE DEF lab, K
<1>10. SumFunctionOnSet(answer.won, K) = Cardinality(Won(S))
  BY <1>5, <1>6, <1>7, <1>9, CountByLabel
<1> QED BY <1>1, <1>4, <1>10 DEF SumFunction, me, q

\* Nobody ever engaged a lead without a completed follow-up or a call.
LEMMA NeverEngaged ==
  ASSUME NEW l
  PROVE  Engagements(l) = {} <=> noEngagementWhere(l, Null, Null)
BY DEF Engagements, noEngagementWhere, Within

\* By age: the leads that nobody ever engaged.
NeverOf(S) == {l \in S : Engagements(l) = {}}

AgingTold ==
  Is("aging") =>
    LET me == answer.me  q == answer.query  S == Aging(me, q) IN
    /\ q \in Queries /\ answer.list = Ids(S) /\ answer.kpis.never = Cardinality(NeverOf(S))

\* The handler says so.
LEMMA AgingTelling ==
  ASSUME NEW me, NEW q \in Queries, leadAging(me, q)
  PROVE  AgingTold'
<1> DEFINE S == Aging(me, q)
           bands == Bands(S, q)
           rows == [u \in OwnersOf(S) \cup (IF Unassigned(S) = {} THEN {} ELSE {Null}) |->
                       Bands(IF u = Null THEN Unassigned(S) ELSE OwnedBy(S, u), q)]
           fields == [list |-> Ids(S), total |-> Cardinality(S), kpis |-> bands, rows |-> rows]
<1>1. Say("aging", me, q, fields)
  BY DEF leadAging
<1>2. /\ table' = table /\ answer'.me = me /\ answer'.query = q
      /\ \A x \in DOMAIN fields \ {"report", "me", "query"} : answer'[x] = fields[x]
  <2> HIDE DEF fields
  <2> QED BY <1>1, Saying
<1>3. answer'.kpis = bands /\ answer'.list = Ids(S)
  BY <1>2
<1>4. S = Aging(answer.me, answer.query)'
  BY <1>2 DEF Aging, Base, leads
<1> HIDE DEF S
<1>5. bands.never = Cardinality(NeverOf(S))
  BY DEF Bands, NeverOf
<1> HIDE DEF bands
<1> QED BY <1>2, <1>3, <1>4, <1>5 DEF AgingTold

\* The leads nobody engaged are those of the report on them.
LEMMA AgingAgrees ==
  ASSUME table \in Tables, AgingTold, Is("aging")
  PROVE  answer.kpis.never =
           Cardinality({l \in NoActivity(answer.me, NoWindow(answer.query)) : l.id \in answer.list})
<1> DEFINE me == answer.me
           q == answer.query
           p == NoWindow(q)
           S == Aging(me, q)
<1>1. Complete(q) /\ answer.list = Ids(S) /\ answer.kpis.never = Cardinality(NeverOf(S))
  BY QueriesComplete DEF AgingTold
<1> HIDE DEF q, me
<1>2. /\ Complete(p) /\ Akin(p, q) /\ p.status = q.status /\ p.from = Null /\ p.to = Null
  BY <1>1, WindowOff
<1> HIDE DEF p
<1>3. \A l : l \in S => l \in leads /\ Suits(me, l, q) /\ OneOf(q.status, l.status)
  BY BaseIs DEF Aging
<1>4. \A l : l \in NoActivity(me, p) <=> /\ l \in leads /\ Suits(me, l, q) /\ OneOf(q.status, l.status)
                                         /\ noEngagementWhere(l, Null, Null)
  BY <1>2, EngagementIs, SuitsAlike
<1> HIDE DEF S
<1>5. S \subseteq leads /\ \A l \in leads : l.id \in answer.list <=> l \in S
  BY <1>1, <1>3, LeadsKeyed DEF Ids
<1>6. NeverOf(S) = {l \in NoActivity(me, p) : l.id \in answer.list}
  BY <1>3, <1>4, <1>5, NeverEngaged DEF NeverOf
<1> QED BY <1>1, <1>6 DEF p, q, me

\* The first response: the counters are of the leads whatever the tab.
Tabbed(q, tab) == [q EXCEPT !.contact = tab]
Touched(S) == {l \in S : Engagements(l) # {}}

ResponseTold ==
  Is("firstResponse") =>
    LET q == answer.query  S == FirstResponse(answer.me, Tabbed(q, "all")) IN
    /\ q \in Queries
    /\ answer.contacted = Cardinality(Touched(S))
    /\ answer.untouched = Cardinality(S) - Cardinality(Touched(S))
    /\ \E T \in SUBSET Touched(S) : answer.late = Cardinality(T)

\* The handler says so.
LEMMA ResponseTelling ==
  ASSUME NEW me, NEW q \in Queries, leadFirstResponse(me, q)
  PROVE  ResponseTold'
<1> DEFINE S == FirstResponse(me, Tabbed(q, "all"))
           took(l) == IF Min(Engagements(l)) < l.createdAt THEN 0 ELSE Min(Engagements(l)) - l.createdAt
           slow == {l \in Touched(S) : took(l) > q.late}
           fields == [list |-> Ids(FirstResponse(me, q)), total |-> Cardinality(S),
                      contacted |-> Cardinality(Touched(S)),
                      untouched |-> Cardinality(S) - Cardinality(Touched(S)),
                      late |-> Cardinality(slow)]
<1>1. Say("firstResponse", me, q, fields)
  BY DEF leadFirstResponse, Touched, Tabbed
<1>2. /\ table' = table /\ answer'.me = me /\ answer'.query = q
      /\ \A x \in DOMAIN fields \ {"report", "me", "query"} : answer'[x] = fields[x]
  <2> HIDE DEF fields
  <2> QED BY <1>1, Saying
<1>3. /\ answer'.contacted = Cardinality(Touched(S)) /\ answer'.late = Cardinality(slow)
      /\ answer'.untouched = Cardinality(S) - Cardinality(Touched(S))
  BY <1>2
<1>4. S = FirstResponse(answer.me, Tabbed(answer.query, "all"))'
  BY <1>2 DEF FirstResponse, Base, leads, Tabbed
<1>5. slow \in SUBSET Touched(S)
  OBVIOUS
<1> HIDE DEF slow, S
<1>6. Touched(S) = Touched(FirstResponse(answer.me, Tabbed(answer.query, "all")))'
  BY <1>4 DEF Touched
<1> QED BY <1>2, <1>3, <1>4, <1>5, <1>6 DEF ResponseTold

\* The counters are the lengths of the tabs.
LEMMA ResponseAgrees ==
  ASSUME table \in Tables, ResponseTold, Is("firstResponse")
  PROVE  LET me == answer.me  q == answer.query IN
         /\ answer.untouched = Cardinality(FirstResponse(me, Tabbed(q, "untouched")))
         /\ answer.contacted = Cardinality(FirstResponse(me, Tabbed(q, "contacted")))
         /\ answer.late <= answer.contacted
<1> DEFINE me == answer.me
           q == answer.query
           S == FirstResponse(me, Tabbed(q, "all"))
<1>1. /\ q \in Queries
      /\ answer.contacted = Cardinality(Touched(S))
      /\ answer.untouched = Cardinality(S) - Cardinality(Touched(S))
      /\ \E T \in SUBSET Touched(S) : answer.late = Cardinality(T)
  BY DEF ResponseTold
<1>2. Complete(q)
  BY <1>1, QueriesComplete
<1> HIDE DEF q, me
<1>3. ASSUME NEW tab
      PROVE  /\ Akin(Tabbed(q, tab), q) /\ Tabbed(q, tab).status = q.status
             /\ Tabbed(q, tab).from = q.from /\ Tabbed(q, tab).to = q.to
             /\ Tabbed(q, tab).contact = tab /\ Tabbed(q, tab).activityType = q.activityType
  BY <1>2 DEF Tabbed, Complete, QueryNames, Akin
<1> DEFINE Asked1(l) == /\ l \in leads /\ Suits(me, l, q) /\ OneOf(q.status, l.status)
                        /\ Within(l.createdAt, q.from, q.to) /\ activityTypeWhere(l, q.activityType)
<1>4. \A tab, l : l \in FirstResponse(me, Tabbed(q, tab))
                    <=> /\ Asked1(l)
                        /\ tab = "untouched" => noEngagementWhere(l, Null, Null)
                        /\ tab = "contacted" => ~noEngagementWhere(l, Null, Null)
  <2> SUFFICES ASSUME NEW tab, NEW l
               PROVE  l \in FirstResponse(me, Tabbed(q, tab))
                        <=> /\ Asked1(l)
                            /\ tab = "untouched" => noEngagementWhere(l, Null, Null)
                            /\ tab = "contacted" => ~noEngagementWhere(l, Null, Null)
    OBVIOUS
  <2> DEFINE p == Tabbed(q, tab)
  <2>1. /\ Akin(p, q) /\ p.status = q.status /\ p.from = q.from /\ p.to = q.to
        /\ p.contact = tab /\ p.activityType = q.activityType
    BY <1>3
  <2> HIDE DEF p
  <2>2. l \in Base(me, p) <=> /\ l \in leads /\ Suits(me, l, p)
                              /\ OneOf(p.status, l.status) /\ Within(l.createdAt, p.from, p.to)
    BY BaseIs
  <2>3. Suits(me, l, p) <=> Suits(me, l, q)
    BY <2>1, SuitsAlike
  <2>4. l \in FirstResponse(me, p)
          <=> /\ l \in Base(me, p)
              /\ p.contact = "untouched" => noEngagementWhere(l, Null, Null)
              /\ p.contact = "contacted" => ~noEngagementWhere(l, Null, Null)
              /\ activityTypeWhere(l, p.activityType)
    BY DEF FirstResponse
  <2> QED BY <2>1, <2>2, <2>3, <2>4 DEF p
<1>5. \A l : l \in S <=> Asked1(l)
  BY <1>4
<1>6. FirstResponse(me, Tabbed(q, "contacted")) = Touched(S)
  BY <1>4, <1>5, NeverEngaged DEF Touched
<1>7. FirstResponse(me, Tabbed(q, "untouched")) = S \ Touched(S)
  BY <1>4, <1>5, NeverEngaged DEF Touched
<1>8. Touched(S) \subseteq S /\ S \subseteq leads
  BY <1>5 DEF Touched
<1> HIDE DEF S
<1>9. IsFiniteSet(S) /\ IsFiniteSet(Touched(S))
  BY <1>8, LeadsKeyed, FS_Subset
<1>10. Cardinality(S \ Touched(S)) = Cardinality(S) - Cardinality(Touched(S))
  <2>1. Cardinality(S \ Touched(S)) = Cardinality(S) - Cardinality(S \cap Touched(S))
    BY <1>9, FS_Difference
  <2>2. S \cap Touched(S) = Touched(S)
    BY <1>8
  <2> QED BY <2>1, <2>2
<1>11. answer.late <= answer.contacted
  <2>1. PICK T \in SUBSET Touched(S) : answer.late = Cardinality(T)
    BY <1>1
  <2>2. Cardinality(T) <= Cardinality(Touched(S))
    BY <1>9, FS_Subset
  <2> QED BY <1>1, <2>1, <2>2
<1> QED BY <1>1, <1>6, <1>7, <1>10, <1>11 DEF q, me

\* Duplicates: the leads of a phone.
HavingPhone(S, p) == {l \in S : Trim[l.primaryPhone] # Blank /\ Trim[l.primaryPhone] = p}

DuplicatesTold ==
  Is("duplicates") =>
    \A p \in DOMAIN answer.rows : answer.rows[p] = Ids(HavingPhone(Base(answer.me, answer.query), p))

\* The handler says so.
LEMMA DuplicatesTelling ==
  ASSUME NEW me, NEW q \in Queries, duplicateEnquiries(me, q)
  PROVE  DuplicatesTold'
<1> DEFINE S == Base(me, q)
           groups == PhoneGroups(S)
           rows == [p \in DOMAIN groups |-> Ids(groups[p])]
           more == [n \in 1 .. 2 |->
             Cardinality(UNION {groups[p] : p \in {x \in DOMAIN groups : Cardinality(groups[x]) > n}})]
           fields == [rows |-> rows, leadsWithAtLeast |-> more]
<1>1. Say("duplicates", me, q, fields)
  BY DEF duplicateEnquiries
<1>2. /\ table' = table /\ answer'.me = me /\ answer'.query = q
      /\ \A x \in DOMAIN fields \ {"report", "me", "query"} : answer'[x] = fields[x]
  <2> HIDE DEF fields
  <2> QED BY <1>1, Saying
<1>3. answer'.rows = rows
  BY <1>2
<1>4. S = Base(answer.me, answer.query)'
  BY <1>2 DEF Base, leads
<1> HIDE DEF S
<1>5. \A p \in DOMAIN groups : groups[p] = HavingPhone(S, p)
  BY DEF PhoneGroups, Groups, HavingPhone
<1> HIDE DEF groups
<1>6. \A p \in DOMAIN rows : rows[p] = Ids(HavingPhone(S, p))
  BY <1>5
<1> HIDE DEF rows
<1>7. ASSUME NEW p PROVE Ids(HavingPhone(S, p)) = Ids(HavingPhone(Base(answer.me, answer.query), p))'
  BY <1>4 DEF Ids, HavingPhone
<1> QED BY <1>2, <1>3, <1>6, <1>7 DEF DuplicatesTold

\* A lead is in one group of duplicates.
LEMMA DuplicatesAgree ==
  ASSUME table \in Tables, DuplicatesTold, Is("duplicates")
  PROVE  /\ \A p, r \in DOMAIN answer.rows : p # r => answer.rows[p] \cap answer.rows[r] = {}
         /\ UNION {answer.rows[p] : p \in DOMAIN answer.rows} \subseteq Ids(Base(answer.me, answer.query))
<1> DEFINE S == Base(answer.me, answer.query)
<1>1. \A p \in DOMAIN answer.rows : answer.rows[p] = Ids(HavingPhone(S, p))
  BY DEF DuplicatesTold
<1>2. S \subseteq leads
  BY DEF Base
<1> HIDE DEF S
<1>3. \A p, r : p # r => Ids(HavingPhone(S, p)) \cap Ids(HavingPhone(S, r)) = {}
  BY <1>2, LeadsKeyed DEF Ids, HavingPhone
<1>4. \A p : Ids(HavingPhone(S, p)) \subseteq Ids(S)
  BY DEF Ids, HavingPhone
<1> QED BY <1>1, <1>3, <1>4 DEF S

\* The headings agree.
LEMMA HeadingsFit ==
  ASSUME table \in Tables, StatusTold, SourceTold, AgingTold, ResponseTold, DuplicatesTold
  PROVE  HeadingsAgree
<1>1. Is("status") /\ answer.query.status = {} /\ answer.query.team = {} =>
        LET of(rows, k) == IF k \in DOMAIN rows THEN rows[k] ELSE 0 IN
        /\ of(answer.rows, "LOST") = Cardinality(Lost(answer.me, answer.query))
        /\ of(answer.rows, "WON") = Cardinality(Converted(answer.me, answer.query))
  BY StatusAgrees
<1>2. Is("source") /\ answer.query.team = {} =>
        SumFunction(answer.won) = Cardinality(Converted(answer.me, answer.query))
  BY SourceAgrees
<1>3. Is("aging") =>
        answer.kpis.never =
          Cardinality({l \in NoActivity(answer.me, NoWindow(answer.query)) : l.id \in answer.list})
  BY AgingAgrees
<1>4. Is("firstResponse") =>
        /\ answer.untouched = Cardinality(FirstResponse(answer.me, Tabbed(answer.query, "untouched")))
        /\ answer.contacted = Cardinality(FirstResponse(answer.me, Tabbed(answer.query, "contacted")))
        /\ answer.late <= answer.contacted
  BY ResponseAgrees
<1>5. Is("duplicates") =>
        /\ \A p, r \in DOMAIN answer.rows : p # r => answer.rows[p] \cap answer.rows[r] = {}
        /\ UNION {answer.rows[p] : p \in DOMAIN answer.rows} \subseteq Ids(Base(answer.me, answer.query))
  BY DuplicatesAgree
<1> QED BY <1>1, <1>2, <1>3, <1>4, <1>5 DEF HeadingsAgree, Tabbed

-----------------------------------------------------------------------------
(* The team performance. *)

PerformanceTeams(me, q) == IF Alone(me) THEN Null ELSE TeamsInScope(me, q)
PerformanceLeads(me, q, teams) ==
  ByOwnership(me, [q EXCEPT !.team = IF teams = Null THEN {} ELSE teams])

\* What the answer tells of the leads S: the total, a row per person, a subtotal per team.
RowsOfPeople(people, S) == [u \in people |-> Performance(OwnedBy(S, u))]
RowsOfTeams(teams, people, S) ==
  [t \in (IF teams = Null THEN {Staff[u].team : u \in people} ELSE teams) |->
     Performance({l \in S : teamLeadsWhere(l, t)})]

PerformanceTold ==
  Is("teamPerformance") =>
    LET me == answer.me  q == answer.query  teams == PerformanceTeams(me, q)
        S == PerformanceLeads(me, q, teams)  people == People(me, q, teams, S)
    IN /\ me \in DOMAIN Staff /\ q \in Queries
       /\ ~Alone(me) => q.manager \in Managers \cup {Null}
       /\ teams = {} => answer.rows = <<>> /\ answer.teams = <<>>
       /\ teams # {} /\ ~Alone(me) =>
            /\ answer.total = Performance(S) /\ answer.rows = RowsOfPeople(people, S)
            /\ answer.teams = RowsOfTeams(teams, people, S)

\* The handler says so.
LEMMA PerformanceTelling ==
  ASSUME NEW me \in DOMAIN Staff, NEW q \in Queries, teamPerformance(me, q)
  PROVE  PerformanceTold'
<1> DEFINE teams == PerformanceTeams(me, q)
           S == PerformanceLeads(me, q, teams)
           people == People(me, q, teams, S)
           named == IF teams = Null THEN {Staff[u].team : u \in people} ELSE teams
           none == [total |-> Performance({}), rows |-> <<>>, teams |-> <<>>]
           some == [total |-> Performance(S),
                    rows |-> [u \in people |-> Performance(OwnedBy(S, u))],
                    teams |-> IF Alone(me) THEN <<>>
                              ELSE [t \in named |-> Performance({l \in S : teamLeadsWhere(l, t)})]]
           fields == IF teams = {} THEN none ELSE some
<1>1. /\ Say("teamPerformance", me, q, fields)
      /\ ~Alone(me) => q.manager \in Managers \cup {Null}
  BY DEF teamPerformance, PerformanceTeams, PerformanceLeads
<1>2. /\ table' = table /\ answer'.me = me /\ answer'.query = q
      /\ \A x \in DOMAIN fields \ {"report", "me", "query"} : answer'[x] = fields[x]
  <2> HIDE DEF fields
  <2> QED BY <1>1, Saying
<1>3. S = PerformanceLeads(answer.me, answer.query, PerformanceTeams(answer.me, answer.query))'
  BY <1>2 DEF PerformanceLeads, PerformanceTeams, ByOwnership, ByStatus, Base, leads
<1>4. teams = {} => answer'.rows = <<>> /\ answer'.teams = <<>>
  BY <1>2
<1>5. teams # {} /\ ~Alone(me) =>
        /\ answer'.total = some.total /\ answer'.rows = some.rows /\ answer'.teams = some.teams
  <2> SUFFICES ASSUME teams # {}
               PROVE  /\ answer'.total = some.total /\ answer'.rows = some.rows
                      /\ answer'.teams = some.teams
    OBVIOUS
  <2>1. fields = some
    OBVIOUS
  <2>2. DOMAIN some = {"total", "rows", "teams"}
    OBVIOUS
  <2> HIDE DEF fields, some
  <2> QED BY <1>2, <2>1, <2>2
<1>6. ~Alone(me) => /\ some.total = Performance(S) /\ some.rows = RowsOfPeople(people, S)
                    /\ some.teams = RowsOfTeams(teams, people, S)
  BY DEF RowsOfPeople, RowsOfTeams
<1> HIDE DEF some, fields, none, S, named
<1>7. teams = PerformanceTeams(answer.me, answer.query)'
  BY <1>2 DEF PerformanceTeams
<1> HIDE DEF teams
<1>8. people = People(answer.me, answer.query, PerformanceTeams(answer.me, answer.query),
                      PerformanceLeads(answer.me, answer.query, PerformanceTeams(answer.me, answer.query)))'
  BY <1>2, <1>3, <1>7 DEF People, OwnersOf
<1> HIDE DEF people
<1>9. Performance(S) = Performance(PerformanceLeads(answer.me, answer.query, PerformanceTeams(answer.me, answer.query)))'
  BY <1>3 DEF Performance, Won
<1> QED BY <1>1, <1>2, <1>3, <1>4, <1>5, <1>6, <1>7, <1>8, <1>9
        DEF PerformanceTold, RowsOfPeople, RowsOfTeams

\* The teams in scope are no set that Null could be, and those asked for are among them.
LEMMA ScopeIsNamed ==
  ASSUME NEW me \in DOMAIN Staff, NEW q \in Queries, q.manager \in Managers \cup {Null},
         q.team # {} \/ Staff[me].role = "SALES_MANAGER"
  PROVE  TeamsInScope(me, q) # Null /\ IsFiniteSet(TeamsInScope(me, q))
<1> DEFINE Own == {Staff[u].team : u \in DOMAIN Staff}
           Known == Own \cup UNION {p.team : p \in Queries}
           asked == IF q.team = {} THEN Null ELSE q.team
           managed == IF q.manager = Null THEN asked ELSE Meet(asked, {Staff[q.manager].team})
<1>1. Null \notin SUBSET Known
  BY StaffAssumption
<1>2. q.team \in SUBSET Known /\ {Staff[me].team} \in SUBSET Known
  OBVIOUS
<1>3. q.manager # Null => {Staff[q.manager].team} \in SUBSET Known
  BY DEF Managers
<1> HIDE DEF Known
<1> DEFINE Some0 == {T \in SUBSET Known : IsFiniteSet(T)}
<1>8. \A x : IsFiniteSet({x})
  BY FS_Singleton
<1>9. q.team \in Some0 /\ {Staff[me].team} \in Some0
  BY <1>2, <1>8, AskedAssumption
<1>10. q.manager # Null => {Staff[q.manager].team} \in Some0
  BY <1>3, <1>8
<1>4. \A T, A : T \in Some0 \cup {Null} /\ A \in Some0 => Meet(T, A) \in Some0
  BY <1>1, FS_Intersection DEF Meet
<1>11. Null \notin Some0
  BY <1>1
<1> HIDE DEF Some0
<1>5. managed \in Some0 \cup {Null} /\ (q.team # {} => managed \in Some0)
  BY <1>9, <1>10, <1>4, <1>11
<1>6. TeamsInScope(me, q)
        = IF Staff[me].role = "SALES_MANAGER" THEN Meet(managed, {Staff[me].team}) ELSE managed
  BY DEF TeamsInScope
<1> HIDE DEF managed
<1>7. TeamsInScope(me, q) \in Some0
  BY <1>9, <1>4, <1>5, <1>6
<1> QED BY <1>7, <1>11 DEF Some0

\* The leads of the teams' owners.
LEMMA PerformanceIs ==
  ASSUME NEW me, NEW q \in Queries, NEW teams, teams # Null, teams # {},
         NEW l \in PerformanceLeads(me, q, teams)
  PROVE  l \in leads /\ \E u \in Assignees(l) : Staff[u].team \in teams
<1> DEFINE p == [q EXCEPT !.team = teams]
<1>1. Complete(p) /\ p.team = teams
  BY QueriesComplete DEF Complete, QueryNames
<1>2. l \in ByStatus(me, p)
  BY DEF PerformanceLeads, ByOwnership
<1> HIDE DEF p
<1>3. l \in leads /\ Some(teams, TeamsOf(l))
  BY <1>1, <1>2, ByStatusIs DEF teamWhere
<1> QED BY <1>3 DEF Some, TeamsOf

\* The teams' figures add up.
LEMMA TeamsFit ==
  ASSUME table \in Tables, PerformanceTold, OwnershipTold
  PROVE  TeamsAddUp
<1> DEFINE me == answer.me
           q == answer.query
           teams == PerformanceTeams(me, q)
           S == PerformanceLeads(me, q, teams)
           people == People(me, q, teams, S)
           ofTeam(t) == {l \in S : teamLeadsWhere(l, t)}
<1>1. Is("teamPerformance") /\ ~Alone(me) =>
        /\ Cardinality(DOMAIN answer.teams) = 1 /\ Null \notin DOMAIN answer.teams =>
             (q.team # {} \/ Staff[me].role = "SALES_MANAGER" =>
                \A t \in DOMAIN answer.teams : answer.teams[t] = answer.total)
        /\ \A u \in DOMAIN answer.rows :
             Staff[u].team \in DOMAIN answer.teams =>
               answer.rows[u].leads <= answer.teams[Staff[u].team].leads
        /\ q.agent = {} /\ DOMAIN answer.teams # {} /\ q.team # {} =>
             SumFunction([u \in DOMAIN answer.rows |-> answer.rows[u].leads]) >= answer.total.leads
  <2> SUFFICES ASSUME Is("teamPerformance"), ~Alone(me), DOMAIN answer.teams # {} \/ DOMAIN answer.rows # {}
               PROVE  /\ Cardinality(DOMAIN answer.teams) = 1 /\ Null \notin DOMAIN answer.teams =>
                           (q.team # {} \/ Staff[me].role = "SALES_MANAGER" =>
                              \A t \in DOMAIN answer.teams : answer.teams[t] = answer.total)
                      /\ \A u \in DOMAIN answer.rows :
                           Staff[u].team \in DOMAIN answer.teams =>
                             answer.rows[u].leads <= answer.teams[Staff[u].team].leads
                      /\ q.agent = {} /\ DOMAIN answer.teams # {} /\ q.team # {} =>
                           SumFunction([u \in DOMAIN answer.rows |-> answer.rows[u].leads]) >= answer.total.leads
    OBVIOUS
  <2>1. /\ me \in DOMAIN Staff /\ q \in Queries /\ q.manager \in Managers \cup {Null}
        /\ teams = TeamsInScope(me, q) /\ teams # {}
        /\ answer.total = Performance(S) /\ answer.rows = RowsOfPeople(people, S)
        /\ answer.teams = RowsOfTeams(teams, people, S)
    BY DEF PerformanceTold, PerformanceTeams
  <2>2. q.team # {} \/ Staff[me].role = "SALES_MANAGER" => teams # Null /\ IsFiniteSet(teams)
    BY <2>1, ScopeIsNamed
  <2>3. teams # Null => \A l \in S : l \in leads /\ \E u \in Assignees(l) : Staff[u].team \in teams
    BY <2>1, PerformanceIs
  <2>4. IsFiniteSet(S)
    <3>1. S \subseteq leads
      BY DEF PerformanceLeads, ByOwnership, ByStatus, Base
    <3> HIDE DEF S
    <3> QED BY <3>1, LeadsKeyed, FS_Subset
  <2>5. DOMAIN answer.rows = people /\ \A u \in people : answer.rows[u].leads = Cardinality(OwnedBy(S, u))
    BY <2>1 DEF RowsOfPeople, Performance
  <2>6. \A t \in DOMAIN answer.teams : answer.teams[t] = Performance(ofTeam(t))
    BY <2>1 DEF RowsOfTeams
  <2>7. teams # Null => DOMAIN answer.teams = teams
    BY <2>1 DEF RowsOfTeams
  <2>8. people \subseteq DOMAIN Staff
    BY <2>1 DEF People
  <2>9. q.agent = {} /\ teams # Null =>
          \A l \in S : \A u \in Assignees(l) :
            u \in DOMAIN Staff /\ Staff[u].team \in teams => u \in people
    BY DEF People, OwnersOf, OneOf
  <2>10. \A l \in leads : Assignees(l) \subseteq DOMAIN Staff
    BY TablesAssumption, RowsAssumption DEF leads, Assignees
  <2> HIDE DEF S, q, me, teams, people
  <2>11. Cardinality(DOMAIN answer.teams) = 1 /\ (q.team # {} \/ Staff[me].role = "SALES_MANAGER") =>
           \A t \in DOMAIN answer.teams : answer.teams[t] = answer.total
    <3> SUFFICES ASSUME Cardinality(DOMAIN answer.teams) = 1, teams # Null, IsFiniteSet(teams),
                        NEW t \in DOMAIN answer.teams
                 PROVE  answer.teams[t] = answer.total
      BY <2>2
    <3>1. teams = {t}
      <4>1. Cardinality(teams) = 1 /\ t \in teams
        BY <2>7
      <4> QED BY <4>1, FS_Singleton
    <3>2. ofTeam(t) = S
      BY <2>3, <3>1 DEF teamLeadsWhere
    <3> QED BY <2>1, <2>6, <3>2
  <2>12. ASSUME NEW u \in DOMAIN answer.rows, Staff[u].team \in DOMAIN answer.teams
         PROVE  answer.rows[u].leads <= answer.teams[Staff[u].team].leads
    <3>1. OwnedBy(S, u) \subseteq ofTeam(Staff[u].team) /\ ofTeam(Staff[u].team) \subseteq S
      BY DEF OwnedBy, teamLeadsWhere
    <3>2. answer.teams[Staff[u].team].leads = Cardinality(ofTeam(Staff[u].team))
      <4>1. answer.teams[Staff[u].team] = Performance(ofTeam(Staff[u].team))
        BY <2>6, <2>12
      <4>2. \A T : Performance(T).leads = Cardinality(T)
        BY DEF Performance
      <4> QED BY <4>1, <4>2
    <3> HIDE DEF ofTeam
    <3>3. IsFiniteSet(ofTeam(Staff[u].team))
      BY <2>4, <3>1, FS_Subset
    <3>4. Cardinality(OwnedBy(S, u)) <= Cardinality(ofTeam(Staff[u].team))
      BY <3>1, <3>3, FS_Subset
    <3> QED BY <2>5, <3>2, <3>4
  <2>13. q.agent = {} /\ q.team # {} =>
           SumFunction([u \in DOMAIN answer.rows |-> answer.rows[u].leads]) >= answer.total.leads
    <3> SUFFICES ASSUME q.agent = {}, teams # Null
                 PROVE  SumFunction([u \in DOMAIN answer.rows |-> answer.rows[u].leads]) >= answer.total.leads
      BY <2>2
    <3> DEFINE G == [u \in DOMAIN answer.rows |-> answer.rows[u].leads]
               A == [u \in people |-> OwnedBy(S, u)]
    <3>1. PartsOf(A, people, S)
      BY DEF PartsOf, OwnedBy
    <3>2. Covered(A, people, S) = S
      <4>1. \A l \in S : \E u \in people : u \in Assignees(l)
        BY <2>3, <2>9, <2>10
      <4> QED BY <4>1 DEF Covered, OwnedBy
    <3>3. DOMAIN G = people /\ \A u \in people : G[u] = Cardinality(A[u])
      BY <2>5
    <3>4. IsFiniteSet(people)
      BY <2>8, StaffAssumption, FS_Subset
    <3> HIDE DEF A, G
    <3>5. Cardinality(S) <= SumFunctionOnSet(G, people) /\ NatOn(G, people)
      BY <2>4, <3>1, <3>2, <3>3, <3>4, CountOfParts
    <3>6. SumFunction(G) = SumFunctionOnSet(G, people) /\ SumFunctionOnSet(G, people) \in Nat
      BY <3>3, <3>4, <3>5, SumNat DEF SumFunction
    <3>7. answer.total.leads = Cardinality(S) /\ Cardinality(S) \in Nat
      BY <2>1, <2>4, FS_CardinalityType DEF Performance
    <3> QED BY <3>5, <3>6, <3>7 DEF G
  <2> QED BY <2>11, <2>12, <2>13
<1>2. Is("ownership") =>
        \A t \in DOMAIN answer.teams :
          answer.teams[t].figures.count =
            Cardinality({l \in ByOwnership(me, q) : \E u \in Assignees(l) : Staff[u].team = t})
  <2> SUFFICES ASSUME Is("ownership"), NEW t \in DOMAIN answer.teams
               PROVE  answer.teams[t].figures.count =
                        Cardinality({l \in ByOwnership(me, q) : \E u \in Assignees(l) : Staff[u].team = t})
    OBVIOUS
  <2> DEFINE T == ByOwnership(me, q)
             own == {l \in T : teamLeadsWhere(l, t)}
  <2>1. answer.teams = IF SeesOnlySelf(me) THEN <<>> ELSE TeamRows(T, DOMAIN answer.rows)
    BY DEF OwnershipTold
  <2>2. answer.teams[t].figures = Figures(own)
    BY <2>1 DEF TeamRows
  <2>3. Figures(own).count = Cardinality(own)
    BY DEF Figures
  <2> HIDE DEF T
  <2>4. own = {l \in T : \E u \in Assignees(l) : Staff[u].team = t}
    BY DEF teamLeadsWhere
  <2> QED BY <2>2, <2>3, <2>4 DEF T
<1> QED BY <1>1, <1>2 DEF TeamsAddUp

AgreeIInv ==
  /\ table \in Tables
  /\ OwnershipTold /\ StatusTold /\ SourceTold /\ AgingTold /\ ResponseTold /\ DuplicatesTold
  /\ PerformanceTold

\* Every step keeps what the answers say.
LEMMA AgreeStep ==
  ASSUME AgreeIInv, [ReadsNext]_allVars
  PROVE  AgreeIInv'
<1>1. CASE NextReports \/ NextFollowUps \/ NextRevenue \/ NextCalls
  <2>1. table' = table
    BY <1>1, ReadsStep
  <2>2. OwnershipTold'
    <3>1. CASE answer'.report = "ownership"
      BY <1>1, <3>1, QuestionOf, OwnershipTelling
    <3> QED BY <3>1 DEF OwnershipTold, Is
  <2>3. StatusTold'
    <3>1. CASE answer'.report = "status"
      BY <1>1, <3>1, QuestionOf, StatusTelling
    <3> QED BY <3>1 DEF StatusTold, Is
  <2>4. SourceTold'
    <3>1. CASE answer'.report = "source"
      BY <1>1, <3>1, QuestionOf, SourceTelling
    <3> QED BY <3>1 DEF SourceTold, Is
  <2>5. AgingTold'
    <3>1. CASE answer'.report = "aging"
      BY <1>1, <3>1, QuestionOf, AgingTelling
    <3> QED BY <3>1 DEF AgingTold, Is
  <2>6. ResponseTold'
    <3>1. CASE answer'.report = "firstResponse"
      BY <1>1, <3>1, QuestionOf, ResponseTelling
    <3> QED BY <3>1 DEF ResponseTold, Is
  <2>7. DuplicatesTold'
    <3>1. CASE answer'.report = "duplicates"
      BY <1>1, <3>1, QuestionOf, DuplicatesTelling
    <3> QED BY <3>1 DEF DuplicatesTold, Is
  <2>8. PerformanceTold'
    <3>1. CASE answer'.report = "teamPerformance"
      <4>1. PICK me \in Askers, q \in Queries : teamPerformance(me, q)
        BY <1>1, <3>1, QuestionOf
      <4>2. me \in DOMAIN Staff
        BY DEF Askers
      <4> QED BY <4>1, <4>2, PerformanceTelling
    <3> QED BY <3>1 DEF PerformanceTold, Is
  <2> QED BY <2>1, <2>2, <2>3, <2>4, <2>5, <2>6, <2>7, <2>8 DEF AgreeIInv
<1>2. CASE UNCHANGED readVars
  <2>1. table' = table /\ answer' = answer
    BY <1>2 DEF readVars
  <2>2. OwnershipTold'
    BY <2>1 DEF AgreeIInv, OwnershipTold, Is, ByOwnership, ByStatus, Base, leads
  <2>5. StatusTold'
    BY <2>1 DEF AgreeIInv, StatusTold, Is, ByStatus, Base, leads
  <2>6. SourceTold'
    BY <2>1 DEF AgreeIInv, SourceTold, Is, BySource, ByStatus, Base, leads
  <2>3. AgingTold' /\ ResponseTold' /\ DuplicatesTold'
    BY <2>1 DEF AgreeIInv, AgingTold, ResponseTold, DuplicatesTold, Is, Aging, FirstResponse, Base, leads
  <2>4. PerformanceTold'
    BY <2>1 DEF AgreeIInv, PerformanceTold, Is, PerformanceTeams, PerformanceLeads, ByOwnership,
                ByStatus, Base, leads
  <2> QED BY <2>1, <2>2, <2>3, <2>4, <2>5, <2>6 DEF AgreeIInv
<1> QED BY <1>1, <1>2 DEF ReadsNext, allVars

\* The owners' figures, the headings and the teams' subtotals are those of the reports they sum up.
THEOREM ReportsAgreeWithEachOther == ReadsSpec => []ReportsAgree
<1>1. ReadsInit => AgreeIInv
  BY DEF ReadsInit, ReadInit, AgreeIInv, OwnershipTold, StatusTold, SourceTold, AgingTold,
         ResponseTold, DuplicatesTold, PerformanceTold, Is, NoAnswer
<1>2. AgreeIInv /\ [ReadsNext]_allVars => AgreeIInv'
  BY AgreeStep
<1>3. AgreeIInv => ReportsAgree
  BY OwnersMatch, HeadingsFit, TeamsFit DEF AgreeIInv, ReportsAgree
<1> QED BY <1>1, <1>2, <1>3, PTL DEF ReadsSpec

-----------------------------------------------------------------------------
(* The dashboard and the follow-ups. *)

-----------------------------------------------------------------------------
(* The counters of the dashboard. *)

\* The rows that hang on the leads are finite in number.
Hanging(f) == UNION {l[f] : l \in leads}

\* The rows that hang from the leads are finitely many.
LEMMA HangingFinite ==
  ASSUME table \in Tables
  PROVE  /\ IsFiniteSet(Hanging("assigned")) /\ IsFiniteSet(Hanging("activities"))
         /\ IsFiniteSet(Hanging("calls"))
<1>1. ASSUME NEW f \in {"assigned", "activities", "calls"}
      PROVE  IsFiniteSet(Hanging(f))
  <2>1. \A l \in leads : IsFiniteSet(l[f])
    BY TablesAssumption, RowsAssumption DEF leads
  <2>2. IsFiniteSet({l[f] : l \in leads})
    <3>1. [l \in leads |-> l[f]] \in Surjection(leads, {l[f] : l \in leads})
      BY DEF Surjection
    <3> QED BY <3>1, LeadsKeyed, FS_Surjection
  <2> QED BY <2>1, <2>2, FS_UNION DEF Hanging
<1> QED BY <1>1

\* The calls counted of one lead.
Counted(l, q, direction) ==
  {x \in LiveOf(l.calls) : /\ Within(x.at, q.from, q.to)
                           /\ direction \in {Null, x.direction}
                           /\ OneOf(q.agent, x.agent)}

CallOf(z, l, q, direction) == \E c \in Counted(l, q, direction) : z = <<l.id, c>>
InScope(me) == {x \in leads : leadScopeWhere(me, x, FALSE)}

\* A call counted is a live call of a lead in scope.
LEMMA CountedCall ==
  ASSUME NEW me, NEW q, NEW direction, NEW z
  PROVE  z \in callsWhere(me, q, direction) <=> \E l \in InScope(me) : CallOf(z, l, q, direction)
<1> DEFINE row(l) == {<<l.id, c>> : c \in Counted(l, q, direction)}
<1>1. callsWhere(me, q, direction) = UNION {row(l) : l \in InScope(me)}
  BY DEF callsWhere, Counted, InScope
<1>2. \A l : z \in row(l) <=> CallOf(z, l, q, direction)
  BY DEF CallOf
<1> HIDE DEF row
<1> QED BY <1>1, <1>2

\* Finitely many calls are counted.
LEMMA CallsFinite ==
  ASSUME table \in Tables, NEW me, NEW q, NEW direction
  PROVE  IsFiniteSet(callsWhere(me, q, direction))
<1>1. IsFiniteSet(Ids(leads))
  <2>1. [l \in leads |-> l.id] \in Surjection(leads, Ids(leads))
    BY DEF Surjection, Ids
  <2> QED BY <2>1, LeadsKeyed, FS_Surjection
<1>2. IsFiniteSet(Ids(leads) \X Hanging("calls"))
  BY <1>1, HangingFinite, FS_Product
<1>3. ASSUME NEW z \in callsWhere(me, q, direction)
      PROVE  z \in Ids(leads) \X Hanging("calls")
  <2>1. PICK l \in InScope(me) : CallOf(z, l, q, direction)
    BY CountedCall
  <2>2. PICK c \in Counted(l, q, direction) : z = <<l.id, c>>
    BY <2>1 DEF CallOf
  <2>3. l \in leads /\ l.id \in Ids(leads)
    BY DEF Ids, InScope
  <2>4. c \in l["calls"]
    BY DEF Counted, LiveOf
  <2>5. c \in Hanging("calls")
    BY <2>3, <2>4 DEF Hanging
  <2> QED BY <2>2, <2>3, <2>5
<1> QED BY <1>2, <1>3, FS_Subset

\* A call goes in or out.
LEMMA CallsGo ==
  ASSUME table \in Tables, NEW me, NEW q
  PROVE  Cardinality(callsWhere(me, q, Null))
           = Cardinality(callsWhere(me, q, "INBOUND")) + Cardinality(callsWhere(me, q, "OUTBOUND"))
<1> DEFINE going == callsWhere(me, q, "OUTBOUND")
           coming == callsWhere(me, q, "INBOUND")
           any == callsWhere(me, q, Null)
<1>1. \A l \in leads : \A c \in l.calls : c.direction \in {"INBOUND", "OUTBOUND"}
  BY TablesAssumption, RowsAssumption DEF leads
<1>2. ASSUME NEW l \in leads
      PROVE  /\ Counted(l, q, Null) = Counted(l, q, "INBOUND") \cup Counted(l, q, "OUTBOUND")
             /\ \A c \in Counted(l, q, "INBOUND") : c.direction = "INBOUND"
             /\ \A c \in Counted(l, q, "OUTBOUND") : c.direction = "OUTBOUND"
  BY <1>1, StaffAssumption DEF Counted, LiveOf
<1>a. ASSUME NEW z PROVE z \in any <=> z \in going \/ z \in coming
  <2>1. \A l \in InScope(me) : CallOf(z, l, q, Null)
                               <=> CallOf(z, l, q, "INBOUND") \/ CallOf(z, l, q, "OUTBOUND")
    BY <1>2 DEF CallOf, InScope
  <2> QED BY <2>1, CountedCall
<1>3. ASSUME NEW x \in coming PROVE x[2].direction = "INBOUND"
  <2>1. PICK l \in InScope(me) : CallOf(x, l, q, "INBOUND")
    BY CountedCall
  <2> QED BY <1>2, <2>1 DEF CallOf, InScope
<1>4. ASSUME NEW x \in going PROVE x[2].direction = "OUTBOUND"
  <2>1. PICK l \in InScope(me) : CallOf(x, l, q, "OUTBOUND")
    BY CountedCall
  <2> QED BY <1>2, <2>1 DEF CallOf, InScope
<1>5. IsFiniteSet(going) /\ IsFiniteSet(coming)
  BY CallsFinite
<1> HIDE DEF going, coming, any
<1>6. going \cap coming = {}
  BY <1>3, <1>4
<1>b. any = going \cup coming
  BY <1>a
<1>7. /\ Cardinality(going \cup coming) = Cardinality(going) + Cardinality(coming)
                                            - Cardinality(going \cap coming)
      /\ Cardinality(going) \in Nat /\ Cardinality(coming) \in Nat
  BY <1>5, FS_Union, FS_CardinalityType
<1>8. Cardinality(going \cap coming) = 0
  BY <1>6, FS_EmptySet
<1> QED BY <1>b, <1>7, <1>8 DEF any, going, coming

OwnedCount(S, agents) == Cardinality({l \in S : Some(agents, Assignees(l))})
CarriedCount(S, agents) == Cardinality({x \in S : Some(agents, x.row.users)})

CountersTold ==
  Is("kpis") =>
    LET me == answer.me  q == answer.query  p == Period(q) IN
    /\ q \in Queries
    /\ answer.wonLeads = OwnedCount(Converted(me, p), q.agent)
    /\ answer.lostLeads = OwnedCount(Lost(me, p), q.agent)
    /\ answer.hotLeads = OwnedCount(Base(me, [p EXCEPT !.status = HOT_LEAD_STATUSES]), q.agent)
    /\ answer.overdueFollowUps = CarriedCount(OverdueReport(me, p), q.agent)
    /\ answer.inboundCalls = Cardinality(callsWhere(me, q, "INBOUND"))
    /\ answer.outboundCalls = Cardinality(callsWhere(me, q, "OUTBOUND"))
    /\ answer.callsToday = Cardinality(callsWhere(me, q, Null))

\* The handler of the dashboard's counters says so.
LEMMA CountersTelling ==
  ASSUME NEW me, NEW q \in Queries, kpis(me, q)
  PROVE  CountersTold'
<1> DEFINE p == Period(q)
           hot == [p EXCEPT !.status = HOT_LEAD_STATUSES]
           fields ==
             [overdueFollowUps |-> CarriedCount(OverdueReport(me, p), q.agent),
              todaysFollowUps |-> CarriedCount(todaysFollowUpsWhere(me, p), q.agent),
              todaysLeads |-> OwnedCount(todaysLeadsWhere(me, p), q.agent),
              hotLeads |-> OwnedCount(Base(me, hot), q.agent),
              wonLeads |-> OwnedCount(Converted(me, p), q.agent),
              lostLeads |-> OwnedCount(Lost(me, p), q.agent),
              outboundCalls |-> Cardinality(callsWhere(me, q, "OUTBOUND")),
              inboundCalls |-> Cardinality(callsWhere(me, q, "INBOUND")),
              callsToday |-> Cardinality(callsWhere(me, q, Null))]
<1>1. Say("kpis", me, q, fields)
  BY DEF kpis, OwnedCount, CarriedCount
<1>2. /\ table' = table /\ answer'.me = me /\ answer'.query = q
      /\ \A x \in DOMAIN fields \ {"report", "me", "query"} : answer'[x] = fields[x]
  <2> HIDE DEF fields
  <2> QED BY <1>1, Saying
<1>3. /\ answer'.wonLeads = OwnedCount(Converted(me, p), q.agent)
      /\ answer'.lostLeads = OwnedCount(Lost(me, p), q.agent)
      /\ answer'.hotLeads = OwnedCount(Base(me, hot), q.agent)
      /\ answer'.overdueFollowUps = CarriedCount(OverdueReport(me, p), q.agent)
  BY <1>2
<1>4. /\ answer'.outboundCalls = Cardinality(callsWhere(me, q, "OUTBOUND"))
      /\ answer'.inboundCalls = Cardinality(callsWhere(me, q, "INBOUND"))
      /\ answer'.callsToday = Cardinality(callsWhere(me, q, Null))
  BY <1>2
<1> HIDE DEF fields
<1>5. /\ Converted(me, p) = Converted(answer.me, Period(answer.query))'
      /\ Lost(me, p) = Lost(answer.me, Period(answer.query))'
      /\ Base(me, hot) = Base(answer.me, [Period(answer.query) EXCEPT !.status = HOT_LEAD_STATUSES])'
  BY <1>2 DEF Converted, Lost, ByStatus, Base, leads, Period
<1>6. OverdueReport(me, p) = OverdueReport(answer.me, Period(answer.query))'
  BY <1>2 DEF OverdueReport, Scoped, Pairs, leads, Period
<1>7. \A d : callsWhere(me, q, d) = callsWhere(answer.me, answer.query, d)'
  BY <1>2 DEF callsWhere, leads
<1> HIDE DEF p, hot
<1> QED BY <1>2, <1>3, <1>4, <1>5, <1>6, <1>7 DEF CountersTold, OwnedCount, CarriedCount

\* A period, and the agents asked for in it.
PeriodOfAgent(q) == [Period(q) EXCEPT !.agent = q.agent]

\* A query of the period alone,
LEMMA PeriodIs ==
  ASSUME NEW q
  PROVE  LET p == Period(q) IN
         /\ Complete(p) /\ p.from = q.from /\ p.to = q.to
         /\ \A f \in QueryNames \ {"from", "to"} : p[f] = Query[f]
BY NothingChosen DEF Complete, QueryNames, Period

\* of the period and an agent,
LEMMA AskedIs ==
  ASSUME NEW q
  PROVE  LET p == PeriodOfAgent(q) IN
         /\ Complete(p) /\ p.from = q.from /\ p.to = q.to /\ p.agent = q.agent
         /\ \A f \in QueryNames \ {"from", "to", "agent"} : p[f] = Query[f]
BY NothingChosen DEF Complete, QueryNames, Period, PeriodOfAgent

\* and what the agent leaves of the period's leads.
LEMMA SuitsAsked ==
  ASSUME NEW me, NEW l, NEW q
  PROVE  Suits(me, l, PeriodOfAgent(q)) <=> Suits(me, l, Period(q)) /\ Some(q.agent, Assignees(l))
<1> DEFINE p == Period(q)
           a == PeriodOfAgent(q)
<1>1. /\ \A f \in QueryNames \ {"from", "to"} : p[f] = Query[f]
      /\ \A f \in QueryNames \ {"from", "to", "agent"} : a[f] = Query[f]
      /\ a.agent = q.agent
  BY PeriodIs, AskedIs
<1> HIDE DEF p, a
<1>2. /\ a.search = p.search /\ a.conditions = p.conditions /\ a.source = p.source
      /\ a.tag = p.tag /\ a.pipeline = p.pipeline /\ a.unassigned = p.unassigned
      /\ a.todays = p.todays /\ a.overdue = p.overdue /\ a.noActivity = p.noActivity
      /\ a.day = p.day /\ p.agent = {} /\ a.agent = q.agent
  BY <1>1, NothingChosen DEF QueryNames
<1> QED BY <1>2 DEF Suits, Some, a, p

\* Each counter is the length of the list behind it.
LEMMA CountersAgree ==
  ASSUME table \in Tables, CountersTold, Is("kpis")
  PROVE  CountersMatchLists
<1> DEFINE me == answer.me
           q == answer.query
           p == Period(q)
           a == PeriodOfAgent(q)
<1>1. /\ Complete(p) /\ p.from = q.from /\ p.to = q.to /\ p.dateField = "created"
      /\ p.team = {} /\ p.reason = {} /\ p.status = {} /\ p.agent = {}
      /\ p.pipeline = Null /\ p.type = {}
  BY PeriodIs, NothingChosen DEF QueryNames
<1>2. /\ Complete(a) /\ a.from = q.from /\ a.to = q.to /\ a.dateField = "created"
      /\ a.team = {} /\ a.reason = {} /\ a.status = {} /\ a.agent = q.agent
      /\ a.pipeline = Null /\ a.type = {}
  BY AskedIs, NothingChosen DEF QueryNames
<1>3. \A l : Suits(me, l, a) <=> Suits(me, l, p) /\ Some(q.agent, Assignees(l))
  BY SuitsAsked
<1>4. a = [Period(q) EXCEPT !.agent = q.agent]
  BY DEF PeriodOfAgent
<1>t. /\ answer.wonLeads = OwnedCount(Converted(me, p), q.agent)
      /\ answer.lostLeads = OwnedCount(Lost(me, p), q.agent)
      /\ answer.hotLeads = OwnedCount(Base(me, [p EXCEPT !.status = HOT_LEAD_STATUSES]), q.agent)
      /\ answer.overdueFollowUps = CarriedCount(OverdueReport(me, p), q.agent)
      /\ answer.callsToday = answer.inboundCalls + answer.outboundCalls
  BY CallsGo DEF CountersTold
<1> DEFINE hot == [p EXCEPT !.status = HOT_LEAD_STATUSES]
<1>h. Akin(hot, p) /\ hot.status = HOT_LEAD_STATUSES /\ hot.from = p.from /\ hot.to = p.to
  <2> HIDE DEF p
  <2> QED BY <1>1, Restated
<1> HIDE DEF p, a, me, q
<1>5. \A l : Timed(l, a) <=> Timed(l, p)
  BY <1>1, <1>2 DEF Timed
<1>6. {l \in Converted(me, p) : Some(q.agent, Assignees(l))} = Converted(me, a)
  <2>1. \A l : l \in Converted(me, a) <=> l \in Converted(me, p) /\ Some(q.agent, Assignees(l))
    BY <1>1, <1>2, <1>3, <1>5, ConvertedIs
  <2> QED BY <2>1
<1>7. {l \in Lost(me, p) : Some(q.agent, Assignees(l))} = Lost(me, a)
  <2>1. \A l : l \in Lost(me, a) <=> l \in Lost(me, p) /\ Some(q.agent, Assignees(l))
    BY <1>1, <1>2, <1>3, <1>5, LostIs
  <2> QED BY <2>1
<1>8. {l \in Base(me, hot) : Some(q.agent, Assignees(l))}
        = {l \in ByStatus(me, a) : l.status \in HOT_LEAD_STATUSES}
  <2>1. \A l : l \in ByStatus(me, a) <=> /\ l \in leads /\ Suits(me, l, a)
                                         /\ Within(l.createdAt, q.from, q.to)
    BY <1>2, ByStatusIs DEF Timed, OneOf, teamWhere, Some
  <2> HIDE DEF hot
  <2>2. \A l : Suits(me, l, hot) <=> Suits(me, l, p)
    BY <1>h, SuitsAlike
  <2>3. \A l : l \in Base(me, hot) <=> /\ l \in leads /\ Suits(me, l, p)
                                       /\ l.status \in HOT_LEAD_STATUSES
                                       /\ Within(l.createdAt, q.from, q.to)
    BY <1>1, <1>h, <2>2, BaseIs DEF OneOf, HOT_LEAD_STATUSES
  <2>4. \A l : l \in Base(me, hot) /\ Some(q.agent, Assignees(l))
               <=> l \in ByStatus(me, a) /\ l.status \in HOT_LEAD_STATUSES
    BY <1>3, <2>1, <2>3
  <2> QED BY <2>4
<1>9. {x \in OverdueReport(me, p) : Some(q.agent, x.row.users)} = OverdueReport(me, a)
  <2>1. /\ NoStatus(p).status = {} /\ NoStatus(p).agent = {} /\ NoStatus(p).pipeline = Null
        /\ NoStatus(p).type = {}
    BY <1>1 DEF NoStatus, Complete, QueryNames
  <2>2. /\ NoStatus(a).status = {} /\ NoStatus(a).agent = q.agent /\ NoStatus(a).pipeline = Null
        /\ NoStatus(a).type = {}
    BY <1>2 DEF NoStatus, Complete, QueryNames
  <2>3. \A x : activityFilterWhere(x, NoStatus(a))
               <=> activityFilterWhere(x, NoStatus(p)) /\ Some(q.agent, x.row.users)
    BY <2>1, <2>2 DEF activityFilterWhere, Some
  <2>4. \A x : x \in OverdueReport(me, a) <=> x \in OverdueReport(me, p) /\ Some(q.agent, x.row.users)
    BY <1>1, <1>2, <2>3 DEF OverdueReport
  <2> QED BY <2>4
<1>10. /\ answer.wonLeads = Cardinality(Converted(me, a))
       /\ answer.lostLeads = Cardinality(Lost(me, a))
       /\ answer.overdueFollowUps = Cardinality(OverdueReport(me, a))
       /\ answer.hotLeads = Cardinality({l \in ByStatus(me, a) : l.status \in HOT_LEAD_STATUSES})
  BY <1>t, <1>6, <1>7, <1>8, <1>9 DEF OwnedCount, CarriedCount
<1> QED BY <1>t, <1>4, <1>10 DEF CountersMatchLists, me, q

-----------------------------------------------------------------------------
(* The tabs of the worklist. *)

\* The present is in its day.
LEMMA DayEdges ==
  /\ TodayStart \in Nat /\ TodayEnd \in Nat /\ TomorrowEnd \in Nat
  /\ TodayStart <= Now /\ Now < TodayEnd /\ TodayEnd < TomorrowEnd
<1> DEFINE days == Now \div Day
           hour == Now % Day
<1>1. /\ Day \in Nat /\ Day > 0 /\ Now \in Nat
      /\ days \in Nat /\ hour \in Nat /\ hour < Day /\ Now = Day * days + hour
  BY ClockAssumption
<1> HIDE DEF days, hour
<1>2. Day * days \in Nat /\ days * Day = Day * days
  BY <1>1
<1>3. TodayStart = days * Day
  BY DEF TodayStart, days
<1> QED BY <1>1, <1>2, <1>3 DEF TodayEnd, TomorrowEnd

\* When a follow-up is overdue: before today, or before the span asked for.
LEMMA CutoffIs ==
  ASSUME NEW span \in Nat \cup {Null}
  PROVE  /\ overdueCutoff(span) \in Int /\ overdueCutoff(span) < TodayEnd
         /\ span = Null => overdueCutoff(span) = TodayStart
<1>1. span # Null => span \in Nat
  OBVIOUS
<1> QED BY <1>1, DayEdges, ClockAssumption DEF overdueCutoff

\* A follow-up is known by its lead and its id.
LEMMA PairIs ==
  ASSUME NEW x
  PROVE  x \in Pairs => /\ x.lead \in leads /\ x.row \in x.lead.activities
                        /\ x = [lead |-> x.lead, row |-> x.row]
<1> DEFINE rows(l) == {[lead |-> l, row |-> a] : a \in l.activities}
<1>1. Pairs = UNION {rows(l) : l \in leads}
  BY DEF Pairs
<1>2. ASSUME NEW l \in leads, x \in rows(l)
      PROVE  /\ x.lead \in leads /\ x.row \in x.lead.activities
             /\ x = [lead |-> x.lead, row |-> x.row]
  BY <1>2
<1> HIDE DEF rows
<1> QED BY <1>1, <1>2

\* Two follow-ups differ in their keys,
LEMMA KeysAreOwn ==
  ASSUME table \in Tables
  PROVE  /\ \A x, y \in Pairs : <<x.lead.id, x.row.id>> = <<y.lead.id, y.row.id>> => x = y
         /\ \A x \in Pairs : x.row.due \in Nat
<1>1. ASSUME NEW l \in leads
      PROVE  \A a, b \in l.activities : a.due \in Nat /\ (a.id = b.id => a = b)
  <2>1. PICK id \in DOMAIN Pool : l = Pool[id]
    BY TablesAssumption DEF leads
  <2> QED BY <2>1, RowsAssumption
<1>2. ASSUME NEW x \in Pairs, NEW y \in Pairs,
             <<x.lead.id, x.row.id>> = <<y.lead.id, y.row.id>>
      PROVE  x = y
  <2>1. x.lead \in leads /\ y.lead \in leads /\ x.lead.id = y.lead.id /\ x.row.id = y.row.id
    BY <1>2, PairIs
  <2>2. x.lead = y.lead
    BY <2>1, LeadsKeyed
  <2>3. x.row = y.row
    BY <1>1, <2>1, <2>2, PairIs
  <2> QED BY <2>2, <2>3, PairIs
<1> QED BY <1>1, <1>2, PairIs

\* so that keys of sets meet as the sets do.
LEMMA KeysOf ==
  ASSUME table \in Tables, NEW S, NEW T, S \subseteq Pairs, T \subseteq Pairs
  PROVE  /\ Keys(S) \cap Keys(T) = Keys(S \cap T)
         /\ Keys(S) \ Keys(T) = Keys(S \ T)
         /\ Keys(S) \cup Keys(T) = Keys(S \cup T)
<1>1. \A x, y \in Pairs : <<x.lead.id, x.row.id>> = <<y.lead.id, y.row.id>> => x = y
  BY KeysAreOwn
<1> QED BY <1>1 DEF Keys

\* What is open now, by its due date.
LEMMA BucketsAre ==
  ASSUME table \in Tables, NEW x \in Pairs, NEW span \in Nat \cup {Null}
  PROVE  LET open == x.row.completed = Null  due == x.row.due  cut == overdueCutoff(span) IN
         /\ activityBucketWhere("overdue", x, span) <=> open /\ due < cut
         /\ activityBucketWhere("today", x, span) <=> open /\ due >= Later(cut, TodayStart) /\ due < TodayEnd
         /\ activityBucketWhere("tomorrow", x, span) <=> open /\ due >= TodayEnd /\ due < TomorrowEnd
         /\ activityBucketWhere("completed", x, span) <=> ~open
         /\ activityBucketWhere("all", x, span)
         /\ OpenIn(x.row, Null, TodayEnd) <=> open /\ due < TodayEnd
         /\ OpenIn(x.row, TodayEnd, Null) <=> open /\ due >= TodayEnd
<1>1. /\ TodayEnd # Null /\ TomorrowEnd # Null
      /\ Later(overdueCutoff(span), TodayStart) # Null
  BY DayEdges, CutoffIs, StaffAssumption DEF Later
<1> QED BY <1>1 DEF activityBucketWhere, OpenIn, Within

TabsTold ==
  Is("worklist") =>
    /\ answer.query \in Queries /\ ListActivitiesQueryDto(answer.query)
    /\ \A b \in Buckets : answer.tabs[b] = Keys(Tab(b, answer.me, answer.query))

\* The handler says so.
LEMMA TabsTelling ==
  ASSUME NEW me, NEW q \in Queries, worklist(me, q)
  PROVE  TabsTold'
<1> DEFINE tabs == [b \in Buckets |-> Keys(Tab(b, me, q))]
           fields == [tabs |-> tabs, counts |-> [b \in Buckets |-> Cardinality(Tab(b, me, q))],
                      overdueBefore |-> overdueCutoff(q.span)]
<1>1. Say("worklist", me, q, fields) /\ ListActivitiesQueryDto(q)
  BY DEF worklist
<1>2. /\ table' = table /\ answer'.me = me /\ answer'.query = q
      /\ \A x \in DOMAIN fields \ {"report", "me", "query"} : answer'[x] = fields[x]
  <2> HIDE DEF fields
  <2> QED BY <1>1, Saying
<1>3. answer'.tabs = tabs
  BY <1>2
<1>4. \A b : Tab(b, me, q) = Tab(b, answer.me, answer.query)'
  BY <1>2 DEF Tab, Base0, Scoped, Pairs, leads
<1>5. \A b \in Buckets : tabs[b] = Keys(Tab(b, me, q))
  OBVIOUS
<1> HIDE DEF tabs
<1>6. \A b \in Buckets : answer'.tabs[b] = Keys(Tab(b, answer.me, answer.query)')
  BY <1>3, <1>4, <1>5
<1>7. \A b : Keys(Tab(b, answer.me, answer.query)') = Keys(Tab(b, answer.me, answer.query))'
  BY DEF Keys
<1> QED BY <1>1, <1>2, <1>6, <1>7 DEF TabsTold

OpenKinds == {"overdue", "today", "tomorrow"}

TrackerTold ==
  Is("tracker") =>
    /\ answer.query \in Queries
    /\ \A b \in OpenKinds :
         answer.counts[b] = Cardinality({x \in Scoped(answer.me) :
                                           activityBucketWhere(b, x, answer.query.span)})

\* The handler says so.
LEMMA TrackerTelling ==
  ASSUME NEW me, NEW q \in Queries, tracker(me, q)
  PROVE  TrackerTold'
<1> DEFINE counts == [g \in {"overdue", "today", "tomorrow", "thisMonth"} |->
             Cardinality({x \in Scoped(me) :
               IF g = "thisMonth" THEN windowWhere(g, x, q) ELSE activityBucketWhere(g, x, q.span)})]
           fields == [counts |-> counts]
<1>1. Say("tracker", me, q, fields)
  BY DEF tracker
<1>2. /\ table' = table /\ answer'.me = me /\ answer'.query = q
      /\ \A x \in DOMAIN fields \ {"report", "me", "query"} : answer'[x] = fields[x]
  <2> HIDE DEF fields
  <2> QED BY <1>1, Saying
<1>3. answer'.counts = counts
  BY <1>2
<1>4. Scoped(me) = Scoped(answer.me)'
  BY <1>2 DEF Scoped, Pairs, leads
<1>5. \A b \in OpenKinds :
        counts[b] = Cardinality({x \in Scoped(me) : activityBucketWhere(b, x, q.span)})
  BY DEF OpenKinds
<1> HIDE DEF counts
<1> QED BY <1>2, <1>3, <1>4, <1>5 DEF TrackerTold, Is

\* The tracker counts the follow-ups of the tabs.
LEMMA TrackerAgrees ==
  ASSUME table \in Tables, TrackerTold, Is("tracker")
  PROVE  \A b \in {"overdue", "today", "tomorrow"} :
           answer.counts[b] = Cardinality(Tab(b, answer.me, [Query EXCEPT !.span = answer.query.span]))
<1> DEFINE p == [Query EXCEPT !.span = answer.query.span]
<1>1. /\ p.agent = {} /\ p.status = {} /\ p.pipeline = Null /\ p.type = {} /\ p.search = Null
      /\ p.windows = {} /\ p.from = Null /\ p.to = Null /\ p.span = answer.query.span
  BY NothingChosen DEF QueryNames
<1> HIDE DEF p
<1>2. \A x : activityFilterWhere(x, p) /\ activitySearchWhere(x, p.search)
             /\ activityDateWindowWhere(x, p) /\ activityDueRangeWhere(x, p)
  BY <1>1 DEF activityFilterWhere, activitySearchWhere, activityDateWindowWhere,
              activityDueRangeWhere, Some, OneOf, Within
<1>3. Base0(answer.me, p) = Scoped(answer.me)
  BY <1>2 DEF Base0
<1>4. \A b : Tab(b, answer.me, p) = {x \in Scoped(answer.me) : activityBucketWhere(b, x, answer.query.span)}
  BY <1>1, <1>3 DEF Tab
<1> QED BY <1>4 DEF TrackerTold, OpenKinds, p

\* Overdue, today and tomorrow are apart, and every tab is a part of all.
LEMMA TabsAgree ==
  ASSUME table \in Tables, TabsTold, Is("worklist")
  PROVE  LET q == answer.query  tab == answer.tabs IN
         /\ tab["overdue"] \cap tab["today"] = {} /\ tab["today"] \cap tab["tomorrow"] = {}
         /\ \A b \in Buckets : tab[b] \subseteq tab["all"]
         /\ overdueCutoff(q.span) >= TodayStart =>
              tab["overdue"] \cup tab["today"] =
                Keys({x \in Base0(answer.me, q) : OpenIn(x.row, Null, TodayEnd)})
<1> DEFINE q == answer.query
           me == answer.me
           T(b) == Tab(b, me, q)
<1>1. q.span \in Nat \cup {Null} /\ q \in Queries
  BY AskedAssumption DEF TabsTold
<1>2. \A b \in Buckets : answer.tabs[b] = Keys(T(b))
  BY DEF TabsTold
<1> DEFINE B == Base0(me, q)
           cut == overdueCutoff(q.span)
<1>3. B \subseteq Pairs /\ \A b : T(b) = {x \in B : activityBucketWhere(b, x, q.span)}
  BY DEF Base0, Scoped, Tab
<1> DEFINE now == {x \in B : OpenIn(x.row, Null, TodayEnd)}
<1> HIDE DEF q, me
<1>4. \A x \in B :
        LET open == x.row.completed = Null  due == x.row.due IN
        /\ due \in Nat
        /\ activityBucketWhere("overdue", x, q.span) <=> open /\ due < cut
        /\ activityBucketWhere("today", x, q.span) <=> open /\ due >= Later(cut, TodayStart) /\ due < TodayEnd
        /\ activityBucketWhere("tomorrow", x, q.span) <=> open /\ due >= TodayEnd /\ due < TomorrowEnd
        /\ activityBucketWhere("all", x, q.span)
        /\ OpenIn(x.row, Null, TodayEnd) <=> open /\ due < TodayEnd
  <2> SUFFICES ASSUME NEW x \in B
               PROVE  LET open == x.row.completed = Null  due == x.row.due IN
        /\ due \in Nat
        /\ activityBucketWhere("overdue", x, q.span) <=> open /\ due < cut
        /\ activityBucketWhere("today", x, q.span) <=> open /\ due >= Later(cut, TodayStart) /\ due < TodayEnd
        /\ activityBucketWhere("tomorrow", x, q.span) <=> open /\ due >= TodayEnd /\ due < TomorrowEnd
        /\ activityBucketWhere("all", x, q.span)
        /\ OpenIn(x.row, Null, TodayEnd) <=> open /\ due < TodayEnd
    OBVIOUS
  <2> HIDE DEF B
  <2>1. x \in Pairs /\ x.row.due \in Nat
    BY <1>3, KeysAreOwn
  <2> QED BY <1>1, <2>1, BucketsAre
<1>5. cut \in Int /\ cut < TodayEnd /\ TodayStart \in Nat /\ TodayEnd \in Nat
  BY <1>1, CutoffIs, DayEdges
<1> HIDE DEF cut, B
<1>6. \A b : T(b) \subseteq Pairs
  BY <1>3
<1>7. T("overdue") \cap T("today") = {}
  BY <1>3, <1>4, <1>5 DEF Later
<1>8. T("today") \cap T("tomorrow") = {}
  BY <1>3, <1>4, <1>5
<1>9. \A b : T(b) \subseteq T("all")
  BY <1>3, <1>4
<1>10. cut >= TodayStart => T("overdue") \cup T("today") = now
  BY <1>3, <1>4, <1>5 DEF Later
<1> HIDE DEF T, now
<1>11. Keys({}) = {} /\ \A b \in Buckets : Keys(T(b)) \subseteq Keys(T("all"))
  BY <1>9 DEF Keys
<1>12. /\ answer.tabs["overdue"] = Keys(T("overdue")) /\ answer.tabs["today"] = Keys(T("today"))
       /\ answer.tabs["tomorrow"] = Keys(T("tomorrow")) /\ answer.tabs["all"] = Keys(T("all"))
  BY <1>2 DEF Buckets
<1>13. answer.tabs["overdue"] \cap answer.tabs["today"] = {}
  <2>1. Keys(T("overdue")) \cap Keys(T("today")) = Keys(T("overdue") \cap T("today"))
    BY <1>6, KeysOf
  <2> QED BY <1>7, <1>11, <1>12, <2>1
<1>14. answer.tabs["today"] \cap answer.tabs["tomorrow"] = {}
  <2>1. Keys(T("today")) \cap Keys(T("tomorrow")) = Keys(T("today") \cap T("tomorrow"))
    BY <1>6, KeysOf
  <2> QED BY <1>8, <1>11, <1>12, <2>1
<1>15. cut >= TodayStart => answer.tabs["overdue"] \cup answer.tabs["today"] = Keys(now)
  <2>1. Keys(T("overdue")) \cup Keys(T("today")) = Keys(T("overdue") \cup T("today"))
    BY <1>6, KeysOf
  <2> QED BY <1>10, <1>12, <2>1
<1>16. \A b \in Buckets : answer.tabs[b] \subseteq answer.tabs["all"]
  BY <1>2, <1>11, <1>12
<1> QED BY <1>13, <1>14, <1>15, <1>16 DEF q, me, cut, now, B

\* A worklist that asks for no date, no status and no name, under the shipped rule.
Plain(q) == q.span = Null /\ q.status = {} /\ q.search = Null /\ ~Windowed(q) /\ q.windows = {}

\* With no filter of its own, the worklist asks what the reports on follow-ups do,
LEMMA PlainRows ==
  ASSUME NEW q \in Queries, ListActivitiesQueryDto(q), Plain(q), NEW me, NEW x
  PROVE  LET mine == x \in Base0(me, q)
             open == x.row.completed = Null IN
         /\ x \in OverdueReport(me, q) <=> mine /\ activityBucketWhere("overdue", x, Null)
         /\ x \in TodaysReport(me, q) <=> mine /\ activityBucketWhere("today", x, Null)
         /\ x \in UpcomingReport(me, q) <=> mine /\ OpenIn(x.row, TodayEnd, Null)
<1>1. Complete(q) /\ q.from = Null /\ q.to = Null /\ q.search = Null /\ q.windows = {} /\ q.status = {}
  BY QueriesComplete DEF Plain, Windowed
<1>2. q.team = {}
  <2> DEFINE F == Window \cup {"search", "agent", "status", "pipeline", "windows", "month", "type", "size"}
  <2>1. Only(q, F) /\ "team" \in QueryNames /\ "team" \notin F
    BY DEF ListActivitiesQueryDto, Window, QueryNames
  <2> HIDE DEF F
  <2> QED BY <2>1, NotAllowed, NothingChosen
<1>3. /\ NoStatus(q).agent = q.agent /\ NoStatus(q).status = q.status /\ NoStatus(q).type = q.type
      /\ NoStatus(q).pipeline = q.pipeline
  BY <1>1 DEF NoStatus, Complete, QueryNames
<1>4. activityFilterWhere(x, NoStatus(q)) <=> activityFilterWhere(x, q)
  BY <1>3 DEF activityFilterWhere
<1>5. x \in Base0(me, q) <=> x \in Scoped(me) /\ activityFilterWhere(x, q)
  BY <1>1 DEF Base0, activitySearchWhere, activityDateWindowWhere, activityDueRangeWhere, Within
<1> QED BY <1>1, <1>2, <1>4, <1>5
        DEF OverdueReport, TodaysReport, UpcomingReport, activityTeamWhere, activityDueRangeWhere,
            Within, Some

\* so its tabs are those reports.
LEMMA TabsAreReports ==
  ASSUME table \in Tables, TabsTold, Is("worklist"), Plain(answer.query)
  PROVE  LET q == answer.query  tab == answer.tabs IN
         /\ tab["overdue"] = Keys(OverdueReport(answer.me, q))
         /\ tab["today"] = Keys(TodaysReport(answer.me, q))
         /\ tab["tomorrow"] \subseteq Keys(UpcomingReport(answer.me, q))
         /\ tab["completed"] = tab["all"] \ Keys(OverdueReport(answer.me, q) \cup
              TodaysReport(answer.me, q) \cup UpcomingReport(answer.me, q))
<1> DEFINE q == answer.query
           me == answer.me
           T(b) == Tab(b, me, q)
           B == Base0(me, q)
           O == OverdueReport(me, q)
           D == TodaysReport(me, q)
           U == UpcomingReport(me, q)
<1>1. q \in Queries /\ ListActivitiesQueryDto(q) /\ q.span = Null
  BY DEF TabsTold, Plain
<1>2. \A b \in Buckets : answer.tabs[b] = Keys(T(b))
  BY DEF TabsTold
<1>3. B \subseteq Pairs /\ \A b : T(b) = {x \in B : activityBucketWhere(b, x, Null)}
  BY <1>1 DEF Base0, Scoped, Tab
<1> HIDE DEF q, me
<1>4. ASSUME NEW x
      PROVE  /\ x \in O <=> x \in B /\ activityBucketWhere("overdue", x, Null)
             /\ x \in D <=> x \in B /\ activityBucketWhere("today", x, Null)
             /\ x \in U <=> x \in B /\ OpenIn(x.row, TodayEnd, Null)
  BY <1>1, PlainRows DEF q
<1> HIDE DEF T, B, O, D, U
<1>5. ASSUME NEW x \in B
      PROVE  LET open == x.row.completed = Null  due == x.row.due IN
             /\ due \in Nat
             /\ activityBucketWhere("overdue", x, Null) <=> open /\ due < TodayStart
             /\ activityBucketWhere("today", x, Null) <=> open /\ due >= TodayStart /\ due < TodayEnd
             /\ activityBucketWhere("tomorrow", x, Null) <=> open /\ due >= TodayEnd /\ due < TomorrowEnd
             /\ activityBucketWhere("completed", x, Null) <=> ~open
             /\ activityBucketWhere("all", x, Null)
             /\ OpenIn(x.row, TodayEnd, Null) <=> open /\ due >= TodayEnd
  <2>1. x \in Pairs /\ x.row.due \in Nat /\ Null \in Nat \cup {Null}
    BY <1>3, KeysAreOwn
  <2>2. overdueCutoff(Null) = TodayStart /\ Later(TodayStart, TodayStart) = TodayStart
    BY <2>1, CutoffIs DEF Later
  <2> QED BY <2>1, <2>2, BucketsAre
<1>6. TodayStart \in Nat /\ TodayEnd \in Nat
  BY DayEdges
<1>7. T("overdue") = O /\ T("today") = D /\ O \subseteq Pairs /\ D \subseteq Pairs /\ U \subseteq Pairs
  BY <1>3, <1>4
<1>8. T("tomorrow") \subseteq U
  BY <1>3, <1>4, <1>5
<1>9. T("completed") = T("all") \ (O \cup D \cup U)
  BY <1>3, <1>4, <1>5, <1>6
<1>10. T("all") \subseteq Pairs
  BY <1>3
<1>11. Keys(T("all")) \ Keys(O \cup D \cup U) = Keys(T("all") \ (O \cup D \cup U))
  <2> DEFINE R == O \cup D \cup U
  <2>1. R \subseteq Pairs
    BY <1>7
  <2> HIDE DEF R
  <2>2. Keys(T("all")) \ Keys(R) = Keys(T("all") \ R)
    BY <1>10, <2>1, KeysOf
  <2> QED BY <2>2 DEF R
<1>12. Keys(T("tomorrow")) \subseteq Keys(U)
  BY <1>8 DEF Keys
<1>13. \A b \in {"overdue", "today", "tomorrow", "completed", "all"} : answer.tabs[b] = Keys(T(b))
  BY <1>2 DEF Buckets
<1> QED BY <1>7, <1>9, <1>11, <1>12, <1>13 DEF q, me, O, D, U

\* The tabs tile.
LEMMA TabsFit ==
  ASSUME table \in Tables, TabsTold, TrackerTold
  PROVE  TabsTile
<1>1. Is("worklist") /\ answer.query.span = Null /\ answer.query.status = {}
        /\ answer.query.search = Null /\ ~Windowed(answer.query) /\ answer.query.windows = {}
        => Is("worklist") /\ Plain(answer.query)
  BY DEF Plain
<1> QED BY <1>1, TabsAgree, TabsAreReports, TrackerAgrees DEF TabsTile

-----------------------------------------------------------------------------
(* The calls. *)

-----------------------------------------------------------------------------
(* The calls. *)

\* A line is of a lead in scope and of one of its calls.
LEMMA LineIs ==
  ASSUME NEW me, NEW x
  PROVE  x \in CallScope(me) <=> /\ x = Line(x.lead, x.call)
                                 /\ x.lead \in InScope(me) /\ x.call \in LiveOf(x.lead.calls)
<1> DEFINE rows(l) == {Line(l, c) : c \in LiveOf(l.calls)}
<1>1. CallScope(me) = UNION {rows(l) : l \in InScope(me)}
  BY DEF CallScope, InScope
<1>2. \A l, c : Line(l, c).lead = l /\ Line(l, c).call = c
  BY DEF Line
<1>3. ASSUME NEW l \in InScope(me), x \in rows(l)
      PROVE  /\ x = Line(x.lead, x.call)
             /\ x.lead \in InScope(me) /\ x.call \in LiveOf(x.lead.calls)
  BY <1>2, <1>3
<1>4. ASSUME x = Line(x.lead, x.call), x.lead \in InScope(me), x.call \in LiveOf(x.lead.calls)
      PROVE  x \in rows(x.lead)
  BY <1>4
<1> HIDE DEF rows
<1> QED BY <1>1, <1>3, <1>4

\* Finitely many lines,
LEMMA LinesFinite ==
  ASSUME table \in Tables, NEW me
  PROVE  IsFiniteSet(CallScope(me))
<1> DEFINE P == leads \X Hanging("calls")
           lines == {Line(p[1], p[2]) : p \in P}
<1>1. IsFiniteSet(P)
  BY LeadsKeyed, HangingFinite, FS_Product
<1> HIDE DEF P
<1>2. [p \in P |-> Line(p[1], p[2])] \in Surjection(P, lines)
  BY DEF Surjection
<1>3. IsFiniteSet(lines)
  <2> HIDE DEF lines
  <2> QED BY <1>1, <1>2, FS_Surjection
<1>4. ASSUME NEW x \in CallScope(me) PROVE x \in lines
  <2>1. x = Line(x.lead, x.call) /\ x.lead \in InScope(me) /\ x.call \in LiveOf(x.lead.calls)
    BY LineIs
  <2>2. x.lead \in leads /\ x.call \in x.lead["calls"]
    BY <2>1 DEF InScope, LiveOf
  <2>3. <<x.lead, x.call>> \in P
    BY <2>2 DEF P, Hanging
  <2> QED BY <2>1, <2>3
<1> HIDE DEF lines
<1> QED BY <1>3, <1>4, FS_Subset

\* each of them of a lead in scope.
LEMMA CallsInScope ==
  ASSUME table \in Tables, NEW me, NEW q, NEW from, NEW to
  PROVE  /\ IsFiniteSet(CallsIn(me, q, from, to))
         /\ \A x \in CallsIn(me, q, from, to) :
              /\ x = Line(x.lead, x.call) /\ x.lead \in InScope(me) /\ x.lead \in leads
              /\ x.call \in x.lead.calls /\ ~x.call.deleted
              /\ x.call.outcome \in Outcomes /\ x.call.direction \in {"INBOUND", "OUTBOUND"}
              /\ Within(x.call.at, from, to) /\ OneOf(q.agent, x.call.agent)
<1>1. IsFiniteSet(CallsIn(me, q, from, to))
  BY LinesFinite, FS_Subset DEF CallsIn
<1>2. ASSUME NEW x \in CallsIn(me, q, from, to)
      PROVE  /\ x = Line(x.lead, x.call) /\ x.lead \in InScope(me) /\ x.lead \in leads
             /\ x.call \in x.lead.calls /\ ~x.call.deleted
             /\ x.call.outcome \in Outcomes /\ x.call.direction \in {"INBOUND", "OUTBOUND"}
             /\ Within(x.call.at, from, to) /\ OneOf(q.agent, x.call.agent)
  <2>1. x \in CallScope(me) /\ Within(x.call.at, from, to) /\ OneOf(q.agent, x.call.agent)
    BY DEF CallsIn
  <2>2. x = Line(x.lead, x.call) /\ x.lead \in InScope(me) /\ x.call \in LiveOf(x.lead.calls)
    BY <2>1, LineIs
  <2>3. x.lead \in leads /\ x.call \in x.lead.calls /\ ~x.call.deleted
    BY <2>2 DEF InScope, LiveOf
  <2>4. PICK id \in DOMAIN Pool : x.lead = Pool[id]
    BY <2>3, TablesAssumption DEF leads
  <2>5. \A c \in Pool[id].calls : c.outcome \in Outcomes /\ c.direction \in {"INBOUND", "OUTBOUND"}
    BY RowsAssumption
  <2> QED BY <2>1, <2>2, <2>3, <2>4, <2>5
<1> QED BY <1>1, <1>2

-----------------------------------------------------------------------------

OutcomeCounts(S) == [o \in Outcomes |-> Cardinality(Having(S, o))]
CallSources(S) ==
  [s \in {SourceOf(x.lead) : x \in S} |-> Cardinality({x \in S : SourceOf(x.lead) = s})]
AgentRows(S) == [u \in {x.call.agent : x \in S} |-> AgentRow({x \in S : x.call.agent = u})]

AnalyticsTold ==
  Is("analytics") =>
    LET S == PeriodCalls(answer.me, answer.query) IN
    /\ answer.total = Cardinality(S)
    /\ answer.byStatus = OutcomeCounts(S) /\ answer.bySource = CallSources(S)

CallRowsTold ==
  Is("callLeaderboard") => answer.rows = AgentRows(PeriodCalls(answer.me, answer.query))

SummaryTold ==
  Is("callSummary") =>
    LET q == answer.query IN
    q \in Queries /\ answer.current = metrics(answer.me, q, Start(q), End(q))

HistoryTold ==
  Is("history") /\ answer.contact # Null =>
    \E l \in leads : answer.contact = l.id /\ answer.calls = {c.id : c \in LiveOf(l.calls)}

\* The handler says so.
LEMMA AnalyticsTelling ==
  ASSUME NEW me, NEW q \in Queries, callAnalytics(me, q)
  PROVE  AnalyticsTold'
<1> DEFINE S == PeriodCalls(me, q)
<1>1. PICK byStage, byOther :
        Say("analytics", me, q,
          [byStatus |-> OutcomeCounts(S), bySource |-> CallSources(S), byStage |-> byStage,
           byOtherLabel |-> byOther, total |-> Cardinality(S)])
  BY DEF callAnalytics, OutcomeCounts, CallSources
<1> DEFINE fields == [byStatus |-> OutcomeCounts(S), bySource |-> CallSources(S), byStage |-> byStage,
                      byOtherLabel |-> byOther, total |-> Cardinality(S)]
<1>2. /\ table' = table /\ answer'.me = me /\ answer'.query = q
      /\ \A x \in DOMAIN fields \ {"report", "me", "query"} : answer'[x] = fields[x]
  <2>1. Say("analytics", me, q, fields)
    BY <1>1
  <2> HIDE DEF fields
  <2> QED BY <2>1, Saying
<1>3. /\ answer'.byStatus = OutcomeCounts(S) /\ answer'.bySource = CallSources(S)
      /\ answer'.total = Cardinality(S)
  BY <1>2
<1>4. S = PeriodCalls(answer.me, answer.query)'
  BY <1>2 DEF PeriodCalls, CallsIn, CallScope, leads
<1> HIDE DEF S
<1> QED BY <1>3, <1>4 DEF AnalyticsTold, OutcomeCounts, CallSources

\* The handler says so.
LEMMA CallRowsTelling ==
  ASSUME NEW me, NEW q \in Queries, callLeaderboard(me, q)
  PROVE  CallRowsTold'
<1> DEFINE S == PeriodCalls(me, q)
           fields == [rows |-> AgentRows(S)]
<1>1. Say("callLeaderboard", me, q, fields)
  BY DEF callLeaderboard, AgentRows
<1>2. /\ table' = table /\ answer'.me = me /\ answer'.query = q
      /\ \A x \in DOMAIN fields \ {"report", "me", "query"} : answer'[x] = fields[x]
  <2> HIDE DEF fields
  <2> QED BY <1>1, Saying
<1>3. answer'.rows = AgentRows(S)
  BY <1>2
<1>4. S = PeriodCalls(answer.me, answer.query)'
  BY <1>2 DEF PeriodCalls, CallsIn, CallScope, leads
<1> HIDE DEF S
<1> QED BY <1>3, <1>4 DEF CallRowsTold, AgentRows

\* The handler says so.
LEMMA SummaryTelling ==
  ASSUME NEW me, NEW q \in Queries, callSummary(me, q)
  PROVE  SummaryTold'
<1> DEFINE from == Start(q)
           to == End(q)
           fields == [current |-> metrics(me, q, from, to),
                      previous |-> metrics(me, q, from - (to - from), from)]
<1>1. Say("callSummary", me, q, fields)
  BY DEF callSummary
<1>2. /\ table' = table /\ answer'.me = me /\ answer'.query = q
      /\ \A x \in DOMAIN fields \ {"report", "me", "query"} : answer'[x] = fields[x]
  <2> HIDE DEF fields
  <2> QED BY <1>1, Saying
<1>3. answer'.current = metrics(me, q, from, to)
  BY <1>2
<1>4. metrics(me, q, from, to) = metrics(answer.me, answer.query, Start(answer.query), End(answer.query))'
  BY <1>2 DEF metrics, CallsIn, CallScope, followUpsCompleted, Pairs, leads, freshCalls
<1> HIDE DEF from, to
<1> QED BY <1>2, <1>3, <1>4 DEF SummaryTold

\* The handler says so.
LEMMA HistoryTelling ==
  ASSUME NEW me, NEW number, callHistory(me, number)
  PROVE  HistoryTold'
<1> DEFINE told(contact, calls) == [contact |-> contact, calls |-> calls]
<1>1. \E contact, calls :
        /\ Say("history", me, Query, told(contact, calls))
        /\ contact # Null => \E l \in leads : contact = l.id /\ calls = {c.id : c \in LiveOf(l.calls)}
  BY DEF callHistory
<1>2. PICK contact, calls :
        /\ Say("history", me, Query, told(contact, calls))
        /\ contact # Null => \E l \in leads : contact = l.id /\ calls = {c.id : c \in LiveOf(l.calls)}
  BY <1>1
<1> DEFINE fields == told(contact, calls)
<1>3. table' = table /\ \A x \in DOMAIN fields \ {"report", "me", "query"} : answer'[x] = fields[x]
  <2> HIDE DEF fields, told
  <2> QED BY <1>2, Saying DEF fields
<1>4. answer'.contact = contact /\ answer'.calls = calls
  BY <1>3
<1> QED BY <1>2, <1>3, <1>4 DEF HistoryTold, leads

NotAnswered(S) == Going(S, "INBOUND") \ Having(S, "ANSWERED")
HungUp(S) == {x \in NotAnswered(S) : x.call.duration = 0}

\* The figures of an agent,
LEMMA AgentRowIs ==
  ASSUME NEW S
  PROVE  /\ DOMAIN AgentRow(S) = {"total", "unique", "answered", "missed", "minutes"}
         /\ AgentRow(S)["total"] = Cardinality(S) /\ AgentRow(S)["unique"] = Cardinality(Contacts(S))
         /\ AgentRow(S)["answered"] = Cardinality(Having(S, "ANSWERED"))
         /\ AgentRow(S)["missed"] = Cardinality(NotAnswered(S))
BY DEF AgentRow, NotAnswered

\* and those of a period.
LEMMA MetricsAre ==
  ASSUME NEW me, NEW q, NEW from, NEW to
  PROVE  LET S == CallsIn(me, q, from, to)  m == metrics(me, q, from, to) IN
         /\ m.total = Cardinality(S) /\ m.unique = Cardinality(Contacts(S))
         /\ m.answered = Cardinality(Having(S, "ANSWERED")) /\ m.missed = Cardinality(NotAnswered(S))
         /\ m.fresh = freshCalls(S, from)
         /\ m.outbound = Cardinality(Going(S, "OUTBOUND"))
         /\ m.inbound = Cardinality(Going(S, "INBOUND"))
         /\ m.abandoned = Cardinality(HungUp(S))
<1> DEFINE S == CallsIn(me, q, from, to)
           f == AgentRow(S)
           g == [fresh |-> freshCalls(S, from), followUps |-> followUpsCompleted(me, q, from, to),
                 outbound |-> Cardinality(Going(S, "OUTBOUND")),
                 inbound |-> Cardinality(Going(S, "INBOUND")),
                 abandoned |-> Cardinality(HungUp(S))]
<1>1. metrics(me, q, from, to) = Along(f, g)
  BY DEF metrics, NotAnswered, HungUp
<1> HIDE DEF S
<1>2. DOMAIN g = {"fresh", "followUps", "outbound", "inbound", "abandoned"}
  OBVIOUS
<1>3. /\ g.fresh = freshCalls(S, from) /\ g.outbound = Cardinality(Going(S, "OUTBOUND"))
      /\ g.inbound = Cardinality(Going(S, "INBOUND"))
      /\ g.abandoned = Cardinality(HungUp(S))
  OBVIOUS
<1>4. /\ DOMAIN f = {"total", "unique", "answered", "missed", "minutes"}
      /\ f["total"] = Cardinality(S) /\ f["unique"] = Cardinality(Contacts(S))
      /\ f["answered"] = Cardinality(Having(S, "ANSWERED")) /\ f["missed"] = Cardinality(NotAnswered(S))
  BY AgentRowIs
<1> HIDE DEF f, g
<1>5. \A x \in DOMAIN f : Along(f, g)[x] = f[x]
  BY DEF Along
<1>6. \A x \in DOMAIN g \ DOMAIN f : Along(f, g)[x] = g[x]
  BY DEF Along
<1>7. /\ Along(f, g).total = Cardinality(S) /\ Along(f, g).unique = Cardinality(Contacts(S))
      /\ Along(f, g).answered = Cardinality(Having(S, "ANSWERED"))
      /\ Along(f, g).missed = Cardinality(NotAnswered(S))
  BY <1>4, <1>5
<1>8. /\ Along(f, g).fresh = freshCalls(S, from)
      /\ Along(f, g).outbound = Cardinality(Going(S, "OUTBOUND"))
      /\ Along(f, g).inbound = Cardinality(Going(S, "INBOUND"))
      /\ Along(f, g).abandoned = Cardinality(HungUp(S))
  BY <1>2, <1>3, <1>4, <1>6
<1> QED BY <1>1, <1>7, <1>8 DEF S

\* The outcomes of a call.
LEMMA OutcomesFinite == IsFiniteSet(Outcomes)
<1>1. IsFiniteSet({"ANSWERED"}) /\ IsFiniteSet({"BUSY"}) /\ IsFiniteSet({"NO_ANSWER"})
  BY FS_Singleton
<1>2. IsFiniteSet({"ANSWERED"} \cup {"BUSY"})
  BY <1>1, FS_Union
<1>3. IsFiniteSet(({"ANSWERED"} \cup {"BUSY"}) \cup {"NO_ANSWER"})
  BY <1>1, <1>2, FS_Union
<1>4. Outcomes = ({"ANSWERED"} \cup {"BUSY"}) \cup {"NO_ANSWER"}
  BY DEF Outcomes
<1> QED BY <1>3, <1>4

\* Calls by outcome and calls by source are all the calls.
LEMMA AnalyticsAgree ==
  ASSUME table \in Tables, AnalyticsTold, Is("analytics")
  PROVE  SumFunction(answer.byStatus) = answer.total /\ SumFunction(answer.bySource) = answer.total
<1> DEFINE S == PeriodCalls(answer.me, answer.query)
           G == OutcomeCounts(S)
           H == CallSources(S)
           lab == [x \in S |-> x.call.outcome]
           src == [x \in S |-> SourceOf(x.lead)]
           K == LabelsOf(src, S)
<1>1. answer.total = Cardinality(S) /\ answer.byStatus = G /\ answer.bySource = H
  BY DEF AnalyticsTold
<1>2. IsFiniteSet(S) /\ \A x \in S : x.call.outcome \in Outcomes
  BY CallsInScope DEF PeriodCalls
<1> HIDE DEF S
<1>3. Labelled(lab, S, Outcomes) /\ CountsLabels(G, lab, S, Outcomes) /\ DOMAIN G = Outcomes
  <2>1. Labelled(lab, S, Outcomes)
    BY <1>2 DEF Labelled
  <2>2. \A o : Having(S, o) = {x \in S : lab[x] = o}
    BY DEF Having
  <2> QED BY <2>1, <2>2 DEF CountsLabels, OutcomeCounts
<1>4. SumFunctionOnSet(G, Outcomes) = Cardinality(S)
  <2> HIDE DEF G, lab
  <2> QED BY <1>2, <1>3, OutcomesFinite, CountByLabel
<1>5. DOMAIN H = K /\ CountsLabels(H, src, S, K)
  <2>1. K = {SourceOf(x.lead) : x \in S}
    BY DEF LabelsOf
  <2>2. \A k : {x \in S : SourceOf(x.lead) = k} = {x \in S : src[x] = k}
    OBVIOUS
  <2> QED BY <2>1, <2>2 DEF CountsLabels, CallSources
<1>6. SumFunctionOnSet(H, K) = Cardinality(S)
  <2> HIDE DEF H, src
  <2>1. IsFiniteSet(K) /\ Labelled(src, S, K)
    BY <1>2, LabelsFinite
  <2> HIDE DEF K
  <2> QED BY <1>2, <1>5, <2>1, CountByLabel
<1> QED BY <1>1, <1>3, <1>4, <1>5, <1>6 DEF SumFunction

\* No more contacts than calls.
LEMMA ContactsFinite ==
  ASSUME NEW S, IsFiniteSet(S)
  PROVE  IsFiniteSet(Contacts(S)) /\ Cardinality(Contacts(S)) <= Cardinality(S)
<1>1. [x \in S |-> x.lead.id] \in Surjection(S, Contacts(S))
  BY DEF Surjection, Contacts
<1> QED BY <1>1, FS_Surjection

ByAgent(S, u) == {x \in S : x.call.agent = u}

\* The agents' rows add up to the figures of the period.
LEMMA CallRowsAgree ==
  ASSUME table \in Tables, CallRowsTold, Is("callLeaderboard")
  PROVE  LET me == answer.me  q == answer.query  S == PeriodCalls(me, q) IN
         /\ SumFunction(Figure(answer.rows, "total")) = metrics(me, q, Start(q), End(q)).total
         /\ SumFunction(Figure(answer.rows, "unique")) >= Cardinality(Contacts(S))
         /\ SumFunction(Figure(answer.rows, "missed")) = metrics(me, q, Start(q), End(q)).missed
<1> DEFINE me == answer.me
           q == answer.query
           S == PeriodCalls(me, q)
           M == NotAnswered(S)
           lab == [x \in S |-> x.call.agent]
           K == LabelsOf(lab, S)
           rows == AgentRows(S)
           A == [u \in K |-> Contacts(ByAgent(S, u))]
<1>1. answer.rows = rows
  BY DEF CallRowsTold
<1>2. IsFiniteSet(S) /\ IsFiniteSet(M) /\ M \subseteq S
  <2>1. IsFiniteSet(S)
    BY CallsInScope DEF PeriodCalls
  <2> HIDE DEF S
  <2>2. M \subseteq S
    BY DEF NotAnswered, Going
  <2> QED BY <2>1, <2>2, FS_Subset
<1>3. /\ metrics(me, q, Start(q), End(q)).total = Cardinality(S)
      /\ metrics(me, q, Start(q), End(q)).missed = Cardinality(M)
  <2>1. S = CallsIn(me, q, Start(q), End(q))
    BY DEF PeriodCalls
  <2>2. /\ metrics(me, q, Start(q), End(q)).total = Cardinality(CallsIn(me, q, Start(q), End(q)))
        /\ metrics(me, q, Start(q), End(q)).missed = Cardinality(NotAnswered(CallsIn(me, q, Start(q), End(q))))
    BY MetricsAre
  <2> QED BY <2>1, <2>2
<1> HIDE DEF S
<1>4. IsFiniteSet(K) /\ Labelled(lab, S, K) /\ Labelled(lab, M, K)
  <2>1. IsFiniteSet(K) /\ Labelled(lab, S, K)
    <3> HIDE DEF lab
    <3> QED BY <1>2, LabelsFinite
  <2> HIDE DEF lab, K, M
  <2> QED BY <1>2, <2>1 DEF Labelled
<1>5. /\ DOMAIN rows = K
      /\ \A u \in K : rows[u] = AgentRow(ByAgent(S, u))
  <2>1. K = {x.call.agent : x \in S}
    BY DEF LabelsOf
  <2> QED BY <2>1 DEF AgentRows, ByAgent
<1> HIDE DEF rows
<1>6. \A n : DOMAIN Figure(rows, n) = K /\ \A u \in K : Figure(rows, n)[u] = rows[u][n]
  BY <1>5 DEF Figure
<1>7. ASSUME NEW u \in K
      PROVE  /\ Figure(rows, "total")[u] = Cardinality(ByAgent(S, u))
             /\ Figure(rows, "unique")[u] = Cardinality(Contacts(ByAgent(S, u)))
             /\ Figure(rows, "missed")[u] = Cardinality(NotAnswered(ByAgent(S, u)))
  BY <1>5, <1>6, AgentRowIs
<1>8. SumFunction(Figure(rows, "total")) = Cardinality(S)
  <2>1. \A u : ByAgent(S, u) = {x \in S : lab[x] = u}
    BY DEF ByAgent
  <2>2. CountsLabels(Figure(rows, "total"), lab, S, K)
    BY <1>7, <2>1 DEF CountsLabels
  <2> HIDE DEF lab, K
  <2> QED BY <1>2, <1>4, <1>6, <2>2, CountByLabel DEF SumFunction
<1>9. SumFunction(Figure(rows, "missed")) = Cardinality(M)
  <2>1. \A u : NotAnswered(ByAgent(S, u)) = {x \in M : lab[x] = u}
    BY DEF ByAgent, NotAnswered, Going, Having
  <2>2. CountsLabels(Figure(rows, "missed"), lab, M, K)
    BY <1>7, <2>1 DEF CountsLabels
  <2> HIDE DEF lab, K, M
  <2> QED BY <1>2, <1>4, <1>6, <2>2, CountByLabel DEF SumFunction
<1>10. SumFunction(Figure(rows, "unique")) >= Cardinality(Contacts(S))
  <2>1. \A u \in K : A[u] = Contacts(ByAgent(S, u)) /\ ByAgent(S, u) \subseteq S
    BY DEF ByAgent
  <2>2. PartsOf(A, K, Contacts(S))
    BY <2>1 DEF PartsOf, Contacts
  <2>3. Covered(A, K, Contacts(S)) = Contacts(S)
    <3>1. \A x \in S : x.call.agent \in K /\ x \in ByAgent(S, x.call.agent)
      BY DEF LabelsOf, ByAgent
    <3>2. \A x \in S : x.lead.id \in A[x.call.agent]
      BY <2>1, <3>1 DEF Contacts
    <3>3. \A y \in Contacts(S) : \E k \in K : y \in A[k]
      BY <3>1, <3>2 DEF Contacts
    <3> QED BY <3>3 DEF Covered
  <2>4. \A u \in K : Figure(rows, "unique")[u] = Cardinality(A[u])
    BY <1>7, <2>1
  <2>5. IsFiniteSet(Contacts(S)) /\ Cardinality(Contacts(S)) \in Nat
    BY <1>2, ContactsFinite, FS_CardinalityType
  <2> HIDE DEF A, K
  <2> DEFINE G == Figure(rows, "unique")
  <2>6. \A u \in K : G[u] = Cardinality(A[u])
    BY <2>4
  <2> HIDE DEF G
  <2>7. NatOn(G, K) /\ Cardinality(Covered(A, K, Contacts(S))) <= SumFunctionOnSet(G, K)
    BY <1>4, <2>2, <2>5, <2>6, CountOfParts
  <2>8. SumFunctionOnSet(G, K) \in Nat
    BY <1>4, <2>7, SumNat
  <2>9. SumFunction(Figure(rows, "unique")) = SumFunctionOnSet(G, K)
    BY <1>6 DEF SumFunction, G
  <2> QED BY <2>3, <2>5, <2>7, <2>8, <2>9
<1> QED BY <1>1, <1>3, <1>8, <1>9, <1>10 DEF S, me, q

\* A history is of live calls of its contact.
LEMMA HistoryAgrees ==
  ASSUME table \in Tables, HistoryTold, Is("history"), answer.contact # Null
  PROVE  \A id \in answer.calls : \E c \in Pool[answer.contact].calls : c.id = id /\ ~c.deleted
<1>1. PICK l \in leads : answer.contact = l.id /\ answer.calls = {c.id : c \in LiveOf(l.calls)}
  BY DEF HistoryTold
<1>2. Pool[answer.contact] = l
  BY <1>1, TablesAssumption, PoolAssumption DEF leads
<1> QED BY <1>1, <1>2 DEF LiveOf

\* A period in which it begins and ends.
LEMMA CallsAreLines ==
  ASSUME table \in Tables, NEW me, NEW q, q.from # Null, q.to # Null
  PROVE  Cardinality(PeriodCalls(me, q)) = Cardinality(callsWhere(me, q, Null))
<1> DEFINE S == PeriodCalls(me, q)
           T == callsWhere(me, q, Null)
           f == [x \in S |-> <<x.lead.id, x.call>>]
<1>1. Start(q) = q.from /\ End(q) = q.to
  BY DEF Start, End
<1>2. /\ IsFiniteSet(S)
      /\ \A x \in S : /\ x = Line(x.lead, x.call) /\ x.lead \in InScope(me) /\ x.lead \in leads
                      /\ x.call \in Counted(x.lead, q, Null)
  <2>1. S = CallsIn(me, q, q.from, q.to)
    BY <1>1 DEF PeriodCalls
  <2> HIDE DEF S
  <2> QED BY <2>1, CallsInScope DEF Counted, LiveOf
<1>3. ASSUME NEW l \in InScope(me), NEW c \in Counted(l, q, Null)
      PROVE  Line(l, c) \in S /\ Line(l, c).lead = l /\ Line(l, c).call = c
  <2>1. Line(l, c).lead = l /\ Line(l, c).call = c
    BY DEF Line
  <2>2. c \in LiveOf(l.calls) /\ Within(c.at, q.from, q.to) /\ OneOf(q.agent, c.agent)
    BY DEF Counted
  <2>3. Line(l, c) \in CallScope(me)
    BY <2>1, <2>2, LineIs
  <2> QED BY <1>1, <2>1, <2>2, <2>3 DEF PeriodCalls, CallsIn
<1> HIDE DEF S
<1>4. \A x \in S : f[x] \in T
  <2> SUFFICES ASSUME NEW x \in S PROVE f[x] \in T
    OBVIOUS
  <2>1. CallOf(f[x], x.lead, q, Null)
    BY <1>2 DEF CallOf
  <2> HIDE DEF f
  <2> QED BY <1>2, <2>1, CountedCall
<1>5. \A z \in T : \E x \in S : f[x] = z
  <2> SUFFICES ASSUME NEW z \in T PROVE \E x \in S : f[x] = z
    OBVIOUS
  <2>1. PICK l \in InScope(me) : CallOf(z, l, q, Null)
    BY CountedCall
  <2>2. PICK c \in Counted(l, q, Null) : z = <<l.id, c>>
    BY <2>1 DEF CallOf
  <2>3. Line(l, c) \in S /\ f[Line(l, c)] = <<l.id, c>>
    BY <1>3
  <2> QED BY <2>2, <2>3
<1>6. \A x, y \in S : f[x] = f[y] => x = y
  <2> SUFFICES ASSUME NEW x \in S, NEW y \in S, f[x] = f[y] PROVE x = y
    OBVIOUS
  <2>1. x.lead.id = y.lead.id /\ x.call = y.call
    OBVIOUS
  <2>2. x.lead = y.lead
    BY <1>2, <2>1, LeadsKeyed
  <2> QED BY <1>2, <2>1, <2>2
<1> HIDE DEF T
<1>7. f \in Bijection(S, T)
  BY <1>4, <1>5, <1>6 DEF Bijection, Injection, Surjection, IsInjective
<1> HIDE DEF f
<1>8. ExistsBijection(S, T)
  BY <1>7 DEF ExistsBijection
<1> HIDE DEF S
<1> QED BY <1>2, <1>8, FS_Bijection DEF S, T

\* Two parts of a finite set that share nothing.
LEMMA TwoParts ==
  ASSUME NEW S, IsFiniteSet(S), NEW A, NEW B, A \subseteq S, B \subseteq S, A \cap B = {}
  PROVE  /\ Cardinality(A) \in Nat /\ Cardinality(B) \in Nat /\ Cardinality(S) \in Nat
         /\ Cardinality(A) + Cardinality(B) <= Cardinality(S)
         /\ A \cup B = S => Cardinality(A) + Cardinality(B) = Cardinality(S)
<1>1. IsFiniteSet(A) /\ IsFiniteSet(B)
  BY FS_Subset
<1>2. Cardinality(A \cup B) = Cardinality(A) + Cardinality(B) - Cardinality(A \cap B)
  BY <1>1, FS_Union
<1>3. Cardinality(A \cap B) = 0
  BY FS_EmptySet
<1>4. A \cup B \subseteq S
  OBVIOUS
<1>5. Cardinality(A \cup B) <= Cardinality(S)
  BY <1>4, FS_Subset
<1>6. Cardinality(A) \in Nat /\ Cardinality(B) \in Nat /\ Cardinality(S) \in Nat
  BY <1>1, FS_CardinalityType
<1>7. Cardinality(A \cup B) = Cardinality(A) + Cardinality(B)
  BY <1>2, <1>3, <1>6
<1> QED BY <1>5, <1>6, <1>7

\* In and out add up, and so do the days.
LEMMA SummaryAgrees ==
  ASSUME table \in Tables, SummaryTold, Is("callSummary")
  PROVE  /\ answer.current.inbound + answer.current.outbound = answer.current.total
         /\ answer.current.missed + answer.current.answered <= answer.current.total
         /\ answer.current.abandoned <= answer.current.missed
         /\ answer.current.fresh <= answer.current.unique
         /\ answer.query.from # Null /\ answer.query.to # Null =>
              answer.current.total = Cardinality(callsWhere(answer.me, answer.query, Null))
<1> DEFINE me == answer.me
           q == answer.query
           from == Start(q)
           to == End(q)
           S == CallsIn(me, q, from, to)
<1>1. q \in Queries /\ answer.current = metrics(me, q, from, to)
  BY DEF SummaryTold
<1>2. IsFiniteSet(S) /\ \A x \in S : x.call.direction \in {"INBOUND", "OUTBOUND"}
  BY CallsInScope
<1>3. q.from # Null /\ q.to # Null => Cardinality(S) = Cardinality(callsWhere(me, q, Null))
  BY CallsAreLines DEF PeriodCalls
<1> HIDE DEF me, q, from, to
<1>4. LET m == answer.current IN
      /\ m.total = Cardinality(S) /\ m.unique = Cardinality(Contacts(S))
      /\ m.answered = Cardinality(Having(S, "ANSWERED")) /\ m.missed = Cardinality(NotAnswered(S))
      /\ m.fresh = freshCalls(S, from)
      /\ m.outbound = Cardinality(Going(S, "OUTBOUND"))
      /\ m.inbound = Cardinality(Going(S, "INBOUND"))
      /\ m.abandoned = Cardinality(HungUp(S))
  BY <1>1, MetricsAre
<1> HIDE DEF S
<1>5. Cardinality(Going(S, "INBOUND")) + Cardinality(Going(S, "OUTBOUND")) = Cardinality(S)
  <2>1. /\ Going(S, "INBOUND") \subseteq S /\ Going(S, "OUTBOUND") \subseteq S
        /\ Going(S, "INBOUND") \cap Going(S, "OUTBOUND") = {}
        /\ Going(S, "INBOUND") \cup Going(S, "OUTBOUND") = S
    BY <1>2 DEF Going
  <2> QED BY <1>2, <2>1, TwoParts
<1>6. Cardinality(NotAnswered(S)) + Cardinality(Having(S, "ANSWERED")) <= Cardinality(S)
  <2>1. /\ NotAnswered(S) \subseteq S /\ Having(S, "ANSWERED") \subseteq S
        /\ NotAnswered(S) \cap Having(S, "ANSWERED") = {}
    BY DEF Going, Having, NotAnswered
  <2> QED BY <1>2, <2>1, TwoParts
<1>7. Cardinality(HungUp(S)) <= Cardinality(NotAnswered(S))
  <2>1. NotAnswered(S) \subseteq S /\ HungUp(S) \subseteq NotAnswered(S)
    BY DEF Going, NotAnswered, HungUp
  <2> QED BY <1>2, <2>1, FS_Subset
<1>8. freshCalls(S, from) <= Cardinality(Contacts(S))
  <2> DEFINE F == {id \in Contacts(S) : ~(\E c \in LiveOf(Pool[id].calls) : c.at < from)}
  <2>1. freshCalls(S, from) = Cardinality(F)
    BY DEF freshCalls
  <2>2. F \subseteq Contacts(S) /\ IsFiniteSet(Contacts(S))
    BY <1>2, ContactsFinite
  <2> HIDE DEF F
  <2> QED BY <2>1, <2>2, FS_Subset
<1> QED BY <1>3, <1>4, <1>5, <1>6, <1>7, <1>8 DEF me, q

\* The figures of the calls add up.
LEMMA CallsFit ==
  ASSUME table \in Tables, AnalyticsTold, CallRowsTold, SummaryTold, HistoryTold
  PROVE  CallsAddUp
BY AnalyticsAgree, CallRowsAgree, SummaryAgrees, HistoryAgrees DEF CallsAddUp

-----------------------------------------------------------------------------
(* The revenue. *)

-----------------------------------------------------------------------------
(* Money. *)

\* The amounts of the leads are naturals; what some of them are worth is the sum of theirs.
Amounts == [l \in leads |-> Amount(l)]

\* What a lead is worth is a natural.
LEMMA AmountsAre ==
  ASSUME table \in Tables
  PROVE  NatOn(Amounts, leads)
<1>1. \A l \in leads : l.actualAmount \in Nat \cup {Null}
  BY TablesAssumption, PoolAssumption DEF leads
<1> QED BY <1>1 DEF NatOn, Amounts, Amount

\* What a set of leads is worth is a sum over it.
LEMMA ValueIs ==
  ASSUME table \in Tables, NEW S, S \subseteq leads
  PROVE  IsFiniteSet(S) /\ Value(S) = SumFunctionOnSet(Amounts, S) /\ Value(S) \in Nat
<1> DEFINE f == [l \in S |-> Amount(l)]
<1>1. IsFiniteSet(S)
  BY LeadsKeyed, FS_Subset
<1>2. \A l \in S : f[l] = Amounts[l]
  BY DEF Amounts
<1>3. Value(S) = SumFunctionOnSet(f, S)
  BY DEF Value, SumFunction
<1>4. NatOn(Amounts, S)
  BY AmountsAre DEF NatOn
<1> HIDE DEF f
<1>5. SumFunctionOnSet(f, S) = SumFunctionOnSet(Amounts, S)
  BY <1>1, <1>2, SumsAlike
<1> QED BY <1>1, <1>3, <1>4, <1>5, SumNat

\* What leads are worth by label.
ValuesLabels(G, lab, U, K) == \A k \in K : G[k] = Value({x \in U : lab[x] = k})

\* What the leads of each label are worth adds up to what all are.
LEMMA ValueByLabel ==
  ASSUME table \in Tables, NEW U, U \subseteq leads, NEW K, IsFiniteSet(K), NEW lab, Labelled(lab, U, K),
         NEW G, ValuesLabels(G, lab, U, K)
  PROVE  SumFunctionOnSet(G, K) = Value(U)
<1> DEFINE A == [k \in K |-> {x \in U : lab[x] = k}]
<1>1. IsFiniteSet(U) /\ NatOn(Amounts, U) /\ Value(U) = SumFunctionOnSet(Amounts, U)
  BY AmountsAre, ValueIs DEF NatOn
<1>2. PartsOf(A, K, U) /\ Apart(A, K)
  BY DEF PartsOf, Apart
<1>3. Covered(A, K, U) = U
  BY DEF Covered, Labelled
<1>4. \A k \in K : G[k] = SumFunctionOnSet(Amounts, A[k])
  <2> SUFFICES ASSUME NEW k \in K PROVE G[k] = SumFunctionOnSet(Amounts, A[k])
    OBVIOUS
  <2>1. A[k] = {x \in U : lab[x] = k} /\ A[k] \subseteq leads
    OBVIOUS
  <2>2. G[k] = Value(A[k])
    BY <2>1 DEF ValuesLabels
  <2> HIDE DEF A
  <2> QED BY <2>1, <2>2, ValueIs
<1> HIDE DEF A
<1> QED BY <1>1, <1>2, <1>3, <1>4, SumOfParts

-----------------------------------------------------------------------------
(* The revenue of a period. *)

SourceDeals(won) ==
  [s \in {sourceLabel(l) : l \in won} |-> Tally({l \in won : sourceLabel(l) = s})]
BoardDeals(won, losses) ==
  [p \in {boardOf(l) : l \in won} \cup {boardOf(l) : l \in losses} |-> Tally({l \in won : boardOf(l) = p})]
Trend(S, edges) ==
  [i \in 1 .. Later(Len(edges), 1) - 1 |-> Tally(closedIn(S, "WON", edges[i], edges[i + 1]))]

RevenueTold ==
  Is("revenue") =>
    LET me == answer.me  q == answer.query  S == leadsWhere(me, q)
        won == closedIn(S, "WON", q.from, q.to)  losses == closedIn(S, "LOST", q.from, q.to)
    IN /\ q \in Queries /\ Ascending(q.edges)
       /\ answer.current = PeriodFigures(S, q.from, q.to)
       /\ answer.trend = Trend(S, q.edges)
       /\ Figure(answer.sources, "deals") = SourceDeals(won)
       /\ Figure(answer.pipelines, "won") = BoardDeals(won, losses)

\* The handler says so.
LEMMA RevenueTelling ==
  ASSUME NEW me, NEW q \in Queries, overview(me, q)
  PROVE  RevenueTold'
<1> DEFINE S    == leadsWhere(me, q)
           won  == closedIn(S, "WON", q.from, q.to)
           losses == closedIn(S, "LOST", q.from, q.to)
           bought == tally(won, sourceLabel)
           before == IF q.prior = Null THEN Null
                     ELSE tally(closedIn(S, "WON", q.prior[1], q.prior[2]), sourceLabel)
           cohort == createdIn(S, q.from, q.to)
           sources == [s \in DOMAIN bought |->
                [deals |-> bought[s], prior |-> IF before = Null THEN Null ELSE Of(before, s).amount,
                 conversion |-> <<Of(tally(Won(cohort), sourceLabel), s).count,
                                  Of(tally(cohort, sourceLabel), s).count>>]]
           pipelines == [p \in DOMAIN tally(won, boardOf) \cup DOMAIN tally(losses, boardOf) |->
                [won |-> Of(tally(won, boardOf), p), lost |-> Of(tally(losses, boardOf), p).count]]
           fields ==
             [current |-> PeriodFigures(S, q.from, q.to),
              prior |-> IF q.prior = Null THEN Null ELSE PeriodFigures(S, q.prior[1], q.prior[2]),
              target |-> Goals(IF q.agent = {} THEN targetMembers(me)
                               ELSE targetMembers(me) \cap q.agent),
              trend |-> Trend(S, q.edges),
              sources |-> sources,
              pipelines |-> pipelines]
<1>1. Say("revenue", me, q, fields) /\ Ascending(q.edges)
  BY DEF overview, Trend
<1>2. /\ table' = table /\ answer'.me = me /\ answer'.query = q
      /\ \A x \in DOMAIN fields \ {"report", "me", "query"} : answer'[x] = fields[x]
  <2> HIDE DEF fields
  <2> QED BY <1>1, Saying
<1>3. /\ answer'.current = PeriodFigures(S, q.from, q.to)
      /\ answer'.trend = Trend(S, q.edges)
      /\ answer'.sources = sources /\ answer'.pipelines = pipelines
  <2> HIDE DEF sources, pipelines
  <2> QED BY <1>2
<1> HIDE DEF fields
<1>4. Figure(sources, "deals") = SourceDeals(won)
  <2>1. bought = SourceDeals(won)
    <3> HIDE DEF won
    <3> QED BY DEF tally, Groups, SourceDeals
  <2>2. DOMAIN bought = DOMAIN SourceDeals(won) /\ \A s \in DOMAIN bought : bought[s] = SourceDeals(won)[s]
    BY <2>1
  <2> HIDE DEF bought, before, won, cohort
  <2>3. Figure(sources, "deals") = [s \in DOMAIN bought |-> bought[s]]
    BY DEF Figure
  <2> QED BY <2>2, <2>3 DEF SourceDeals
<1>5. Figure(pipelines, "won") = BoardDeals(won, losses)
  <2> HIDE DEF won, losses
  <2> DEFINE W == tally(won, boardOf)
             L == tally(losses, boardOf)
             D == {boardOf(l) : l \in won} \cup {boardOf(l) : l \in losses}
  <2>1. /\ DOMAIN W = {boardOf(l) : l \in won} /\ DOMAIN L = {boardOf(l) : l \in losses}
        /\ \A p \in {boardOf(l) : l \in won} : W[p] = Tally({l \in won : boardOf(l) = p})
    BY DEF tally, Groups
  <2>2. \A p : p \notin {boardOf(l) : l \in won} => Tally({l \in won : boardOf(l) = p}) = Nothing
    <3> SUFFICES ASSUME NEW p, p \notin {boardOf(l) : l \in won}
                 PROVE  Tally({l \in won : boardOf(l) = p}) = Nothing
      OBVIOUS
    <3>1. {l \in won : boardOf(l) = p} = {}
      OBVIOUS
    <3>2. Cardinality({}) = 0
      BY FS_EmptySet
    <3>3. Value({}) = 0
      <4>1. DOMAIN [l \in {} |-> Amount(l)] = {}
        OBVIOUS
      <4> QED BY <4>1, SumNone DEF Value, SumFunction
    <3> QED BY <3>1, <3>2, <3>3 DEF Tally, Nothing
  <2> HIDE DEF W, L
  <2>3. \A p \in D : Of(W, p) = Tally({l \in won : boardOf(l) = p})
    BY <2>1, <2>2 DEF Of
  <2>4. Figure(pipelines, "won") = [p \in D |-> Of(W, p)]
    BY <2>1 DEF Figure, W, L
  <2> QED BY <2>3, <2>4 DEF BoardDeals
<1> HIDE DEF sources, pipelines, bought, before, cohort
<1>6. S = leadsWhere(answer.me, answer.query)'
  BY <1>2 DEF leadsWhere, Base, leads
<1> HIDE DEF S
<1> QED BY <1>1, <1>2, <1>3, <1>4, <1>5, <1>6 DEF RevenueTold, Figure

\* The leads won between two edges of the trend, and between the first and some other.
Bought(S, a, b) == closedIn(S, "WON", a, b)

\* A deal won between two times.
LEMMA BoughtIs ==
  ASSUME NEW S, NEW a \in Nat, NEW b \in Nat, NEW l
  PROVE  l \in Bought(S, a, b) <=> l \in S /\ l.status = "WON" /\ l.statusChangedAt >= a /\ l.statusChangedAt < b
BY StaffAssumption DEF Bought, closedIn, Within

\* Periods that adjoin add up.
LEMMA Adjoining ==
  ASSUME table \in Tables, NEW S, S \subseteq leads, NEW a \in Nat, NEW b \in Nat, NEW c \in Nat, a <= b, b <= c
  PROVE  Value(Bought(S, a, c)) = Value(Bought(S, a, b)) + Value(Bought(S, b, c))
<1> DEFINE A == Bought(S, a, b)
           B == Bought(S, b, c)
           C == Bought(S, a, c)
<1>1. \A l \in leads : l.statusChangedAt \in Nat
  BY TablesAssumption, PoolAssumption DEF leads
<1>2. A \subseteq leads /\ B \subseteq leads /\ C \subseteq leads
  BY BoughtIs
<1>3. A \cap B = {}
  BY <1>1, <1>2, BoughtIs
<1>4. C = A \cup B
  <2>1. \A l : l \in C <=> l \in A \/ l \in B
    BY <1>1, BoughtIs
  <2> HIDE DEF A, B, C
  <2> QED BY <2>1
<1> HIDE DEF A, B, C
<1>5. IsFiniteSet(A) /\ IsFiniteSet(B) /\ NatOn(Amounts, A \cup B)
  BY <1>2, ValueIs, AmountsAre DEF NatOn
<1>6. SumFunctionOnSet(Amounts, A \cup B) = SumFunctionOnSet(Amounts, A) + SumFunctionOnSet(Amounts, B)
  BY <1>3, <1>5, SumOfTwo
<1> QED BY <1>2, <1>4, <1>6, ValueIs DEF A, B, C

\* The trend adds up to the whole of it.
LEMMA TrendAdds ==
  ASSUME table \in Tables, NEW S, S \subseteq leads, NEW edges \in Seq(Nat), edges # <<>>, Ascending(edges)
  PROVE  SumFunction(Figure(Trend(S, edges), "amount")) = Value(Bought(S, edges[1], edges[Len(edges)]))
<1> DEFINE n == Len(edges)
           G == Figure(Trend(S, edges), "amount")
<1>1. n \in Nat /\ n > 0 /\ n \in 1 .. n /\ 1 \in 1 .. n /\ \A i \in 1 .. n : edges[i] \in Nat
  OBVIOUS
<1>2. Later(n, 1) - 1 = n - 1
  <2> HIDE DEF n
  <2> QED BY <1>1 DEF Later
<1>3. DOMAIN G = 1 .. n - 1 /\ \A i \in 1 .. n - 1 : G[i] = Value(Bought(S, edges[i], edges[i + 1]))
  BY <1>2 DEF Figure, Trend, Tally, Bought
<1>4. SumFunction(G) = SumFunctionOnSet(G, 1 .. n - 1)
  BY <1>3 DEF SumFunction
<1>5. \A i \in 1 .. n - 1 : edges[i] < edges[i + 1]
  BY DEF Ascending
<1> HIDE DEF n, G
<1> DEFINE P == {k \in 0 .. n - 1 : /\ edges[1] <= edges[k + 1]
                                    /\ SumFunctionOnSet(G, 1 .. k) = Value(Bought(S, edges[1], edges[k + 1]))}
<1>6. 0 \in P
  <2>1. Bought(S, edges[1], edges[1]) = {}
    <3>1. \A l \in leads : l.statusChangedAt \in Nat
      BY TablesAssumption, PoolAssumption DEF leads
    <3> QED BY <1>1, <3>1, BoughtIs
  <2>2. Value({}) = 0
    <3>1. DOMAIN [l \in {} |-> Amount(l)] = {}
      OBVIOUS
    <3> QED BY <3>1, SumNone DEF Value, SumFunction
  <2>3. 1 .. 0 = {} /\ 0 \in 0 .. n - 1 /\ 0 + 1 = 1 /\ edges[1] <= edges[1]
    BY <1>1
  <2>4. SumFunctionOnSet(G, 1 .. 0) = Value(Bought(S, edges[1], edges[1]))
    BY <2>1, <2>2, <2>3, SumNone
  <2> QED BY <2>3, <2>4
<1>7. \A k \in 0 .. n - 1 : k \in P /\ k < n - 1 => k + 1 \in P
  <2> SUFFICES ASSUME NEW k \in 0 .. n - 1, k \in P, k < n - 1 PROVE k + 1 \in P
    OBVIOUS
  <2> DEFINE a == edges[1]
             b == edges[k + 1]
             c == edges[k + 2]
  <2>1. /\ k + 1 \in 1 .. n - 1 /\ k + 1 \in 1 .. n /\ k + 2 \in 1 .. n /\ (k + 1) + 1 = k + 2
        /\ k + 1 \in 0 .. n - 1
    BY <1>1
  <2>2. a \in Nat /\ b \in Nat /\ c \in Nat /\ a <= b /\ b < c
    BY <1>1, <1>5, <2>1
  <2>3. a <= c /\ b <= c
    BY <2>2
  <2>4. SumFunctionOnSet(G, 1 .. k) = Value(Bought(S, a, b)) /\ G[k + 1] = Value(Bought(S, b, c))
    BY <1>3, <2>1
  <2> HIDE DEF a, b, c
  <2>5. Value(Bought(S, a, c)) = Value(Bought(S, a, b)) + Value(Bought(S, b, c))
    BY <2>2, <2>3, Adjoining
  <2>6. Value(Bought(S, a, b)) \in Nat /\ Value(Bought(S, b, c)) \in Nat
    <3>1. Bought(S, a, b) \subseteq leads /\ Bought(S, b, c) \subseteq leads
      BY <2>2, BoughtIs
    <3> QED BY <3>1, ValueIs
  <2>7. SumFunctionOnSet(G, 1 .. k + 1) = G[k + 1] + SumFunctionOnSet(G, 1 .. k)
    <3>0. k \in Int /\ 1 \in Int
      BY <2>1
    <3>1. 1 .. k + 1 = (1 .. k) \cup {k + 1} /\ k + 1 \notin 1 .. k
      BY <2>1
    <3>3. IsFiniteSet(1 .. k)
      BY <3>0, FS_Interval
    <3>2. NatOn(G, (1 .. k) \cup {k + 1})
      <4>1. \A i \in 1 .. n - 1 : G[i] \in Nat
        <5> SUFFICES ASSUME NEW i \in 1 .. n - 1 PROVE G[i] \in Nat
          OBVIOUS
        <5>1. i \in 1 .. n /\ i + 1 \in 1 .. n
          BY <1>1
        <5>2. edges[i] \in Nat /\ edges[i + 1] \in Nat
          BY <1>1, <5>1
        <5>3. Bought(S, edges[i], edges[i + 1]) \subseteq leads
          BY <5>2, BoughtIs
        <5> QED BY <1>3, <5>3, ValueIs
      <4>2. (1 .. k) \cup {k + 1} \subseteq 1 .. n - 1
        BY <1>1, <2>1, <3>1
      <4> QED BY <4>1, <4>2 DEF NatOn
    <3> QED BY <3>1, <3>2, <3>3, SumAdds
  <2>8. SumFunctionOnSet(G, 1 .. k + 1) = Value(Bought(S, a, c))
    BY <2>4, <2>5, <2>6, <2>7
  <2> QED BY <2>1, <2>3, <2>8 DEF a, c
<1> HIDE DEF P
<1>8. n - 1 \in 0 .. n - 1 /\ n - 1 \in Nat /\ (n - 1) + 1 = n
  BY <1>1
<1>9. 0 .. n - 1 \subseteq P
  BY <1>6, <1>7, <1>8, Upward
<1>10. n - 1 \in P
  BY <1>8, <1>9
<1>11. SumFunctionOnSet(G, 1 .. n - 1) = Value(Bought(S, edges[1], edges[n]))
  BY <1>8, <1>10 DEF P
<1> QED BY <1>4, <1>11 DEF n, G

\* What the tallies by some label count and are worth add up to those of the whole.
TalliesOf(won, lab, K) == [k \in K |-> Tally({l \in won : lab[l] = k})]

\* Tallies by label add up.
LEMMA TalliesAdd ==
  ASSUME table \in Tables, NEW won, won \subseteq leads, NEW K, IsFiniteSet(K), NEW lab, Labelled(lab, won, K),
         NEW G, G = TalliesOf(won, lab, K)
  PROVE  /\ SumFunction(Figure(G, "amount")) = Value(won)
         /\ SumFunction(Figure(G, "count")) = Cardinality(won)
<1>1. DOMAIN G = K /\ \A k \in K : G[k] = Tally({l \in won : lab[l] = k})
  BY DEF TalliesOf
<1>2. /\ DOMAIN Figure(G, "amount") = K /\ DOMAIN Figure(G, "count") = K
      /\ \A k \in K : /\ Figure(G, "amount")[k] = Value({l \in won : lab[l] = k})
                      /\ Figure(G, "count")[k] = Cardinality({l \in won : lab[l] = k})
  BY <1>1 DEF Figure, Tally
<1>3. IsFiniteSet(won)
  BY ValueIs
<1>4. SumFunctionOnSet(Figure(G, "amount"), K) = Value(won)
  <2>1. ValuesLabels(Figure(G, "amount"), lab, won, K)
    BY <1>2 DEF ValuesLabels
  <2> QED BY <2>1, ValueByLabel
<1>5. SumFunctionOnSet(Figure(G, "count"), K) = Cardinality(won)
  <2>1. CountsLabels(Figure(G, "count"), lab, won, K)
    BY <1>2 DEF CountsLabels
  <2> QED BY <1>3, <2>1, CountByLabel
<1> QED BY <1>2, <1>4, <1>5 DEF SumFunction

\* Sources, boards and trend add up to the revenue.
LEMMA RevenueAgrees ==
  ASSUME table \in Tables, RevenueTold, Is("revenue")
  PROVE  LET me == answer.me  q == answer.query IN
         /\ SumFunction(Figure(Figure(answer.sources, "deals"), "amount")) = answer.current.revenue
         /\ SumFunction(Figure(Figure(answer.pipelines, "won"), "amount")) = answer.current.revenue
         /\ SumFunction(Figure(Figure(answer.pipelines, "won"), "count")) = answer.current.deals
         /\ q.edges # <<>> /\ q.from = q.edges[1] /\ q.to = q.edges[Len(q.edges)] =>
              SumFunction(Figure(answer.trend, "amount")) = answer.current.revenue
         /\ answer.current.deals <= MaxDeals =>
              answer.current.deals = Cardinality(dealsWhere(me, q))
         /\ q.agent = {} /\ q.pipeline = Null /\ q.conditions = {} =>
              answer.current.revenue = Value(convertedInPeriod(me, q))
<1> DEFINE me == answer.me
           q == answer.query
           S == leadsWhere(me, q)
           won == closedIn(S, "WON", q.from, q.to)
           losses == closedIn(S, "LOST", q.from, q.to)
<1>1. /\ q \in Queries /\ Ascending(q.edges)
      /\ answer.current = PeriodFigures(S, q.from, q.to)
      /\ answer.trend = Trend(S, q.edges)
      /\ Figure(answer.sources, "deals") = SourceDeals(won)
      /\ Figure(answer.pipelines, "won") = BoardDeals(won, losses)
  BY DEF RevenueTold
<1>2. S \subseteq leads
  BY DEF leadsWhere, Base
<1>3. answer.current.revenue = Value(won) /\ answer.current.deals = Cardinality(won)
  BY <1>1 DEF PeriodFigures
<1>4. won \subseteq leads /\ losses \subseteq leads
  BY <1>2 DEF closedIn
<1> HIDE DEF S, won, losses
<1>5. IsFiniteSet(won) /\ IsFiniteSet(losses)
  BY <1>4, ValueIs
<1>6. SumFunction(Figure(Figure(answer.sources, "deals"), "amount")) = answer.current.revenue
  <2> DEFINE lab == [l \in won |-> sourceLabel(l)]
             K == LabelsOf(lab, won)
  <2>1. IsFiniteSet(K) /\ Labelled(lab, won, K)
    <3> HIDE DEF lab
    <3> QED BY <1>5, LabelsFinite
  <2>2. K = {sourceLabel(l) : l \in won}
    BY DEF LabelsOf
  <2>3. \A k : {l \in won : lab[l] = k} = {l \in won : sourceLabel(l) = k}
    OBVIOUS
  <2>4. SourceDeals(won) = TalliesOf(won, lab, K)
    <3> HIDE DEF lab, K
    <3> QED BY <2>2, <2>3 DEF SourceDeals, TalliesOf
  <2> HIDE DEF lab, K
  <2> QED BY <1>1, <1>3, <1>4, <2>1, <2>4, TalliesAdd
<1>7. /\ SumFunction(Figure(Figure(answer.pipelines, "won"), "amount")) = answer.current.revenue
      /\ SumFunction(Figure(Figure(answer.pipelines, "won"), "count")) = answer.current.deals
  <2> DEFINE lab == [l \in won \cup losses |-> boardOf(l)]
             K == LabelsOf(lab, won \cup losses)
  <2>1. IsFiniteSet(K) /\ Labelled(lab, won \cup losses, K)
    <3>1. IsFiniteSet(won \cup losses)
      BY <1>5, FS_Union
    <3> HIDE DEF lab
    <3> QED BY <3>1, LabelsFinite
  <2>2. K = {boardOf(l) : l \in won} \cup {boardOf(l) : l \in losses}
    <3>1. K = {boardOf(l) : l \in won \cup losses}
      BY DEF LabelsOf
    <3> HIDE DEF K
    <3> QED BY <3>1
  <2>3. \A k : {l \in won : lab[l] = k} = {l \in won : boardOf(l) = k}
    OBVIOUS
  <2>4. BoardDeals(won, losses) = TalliesOf(won, lab, K)
    <3> HIDE DEF lab, K
    <3> QED BY <2>2, <2>3 DEF BoardDeals, TalliesOf
  <2> HIDE DEF lab, K
  <2>5. Labelled(lab, won, K)
    BY <2>1 DEF Labelled
  <2> QED BY <1>1, <1>3, <1>4, <2>1, <2>4, <2>5, TalliesAdd
<1>8. ASSUME q.edges # <<>>, q.from = q.edges[1], q.to = q.edges[Len(q.edges)]
      PROVE  SumFunction(Figure(answer.trend, "amount")) = answer.current.revenue
  <2>1. q.edges \in Seq(Nat)
    BY <1>1, AskedAssumption
  <2>2. won = Bought(S, q.edges[1], q.edges[Len(q.edges)])
    BY <1>8 DEF won, Bought
  <2> HIDE DEF me, q
  <2> QED BY <1>1, <1>2, <1>3, <1>8, <2>1, <2>2, TrendAdds
<1>9. won = dealsWhere(me, q)
  BY DEF dealsWhere, won, S
<1>10. ASSUME q.agent = {}, q.pipeline = Null, q.conditions = {}
       PROVE  won = convertedInPeriod(me, q)
  <2> DEFINE p == [Query EXCEPT !.pipeline = q.pipeline, !.agent = q.agent, !.conditions = q.conditions]
  <2>1. /\ p.search = Null /\ p.conditions = {} /\ p.source = {} /\ p.agent = {} /\ p.tag = {}
        /\ p.pipeline = Null /\ ~p.unassigned /\ ~p.todays /\ ~p.overdue /\ ~p.noActivity /\ p.day = Null
        /\ p.status = {} /\ p.from = Null /\ p.to = Null
    BY <1>10, NothingChosen DEF QueryNames
  <2>2. S = Base(me, p)
    BY DEF S, leadsWhere
  <2> HIDE DEF p
  <2>3. \A l : Suits(me, l, p) <=> leadScopeWhere(me, l, FALSE)
    BY <2>1 DEF Suits, leadSearchWhere, OneOf, Some
  <2>4. \A l : l \in S <=> l \in leads /\ leadScopeWhere(me, l, FALSE)
    BY <2>1, <2>2, <2>3, BaseIs DEF OneOf, Within
  <2>5. \A l : l \in won <=> /\ l \in S /\ l.status = "WON" /\ Within(l.statusChangedAt, q.from, q.to)
    BY DEF won, closedIn
  <2>6. \A l : l \in convertedInPeriod(me, q) <=> /\ l \in leads /\ leadScopeWhere(me, l, FALSE)
                                   /\ l.status = "WON" /\ Within(l.statusChangedAt, q.from, q.to)
    BY DEF convertedInPeriod
  <2> QED BY <2>4, <2>5, <2>6
<1> HIDE DEF me, q
<1>11. q.agent = {} /\ q.pipeline = Null /\ q.conditions = {} => won = convertedInPeriod(me, q)
  BY <1>10
<1> SUFFICES
     /\ SumFunction(Figure(Figure(answer.sources, "deals"), "amount")) = answer.current.revenue
     /\ SumFunction(Figure(Figure(answer.pipelines, "won"), "amount")) = answer.current.revenue
     /\ SumFunction(Figure(Figure(answer.pipelines, "won"), "count")) = answer.current.deals
     /\ q.edges # <<>> /\ q.from = q.edges[1] /\ q.to = q.edges[Len(q.edges)] =>
          SumFunction(Figure(answer.trend, "amount")) = answer.current.revenue
     /\ answer.current.deals <= MaxDeals =>
          answer.current.deals = Cardinality(dealsWhere(me, q))
     /\ q.agent = {} /\ q.pipeline = Null /\ q.conditions = {} =>
          answer.current.revenue = Value(convertedInPeriod(me, q))
  BY DEF me, q
<1> QED BY <1>3, <1>6, <1>7, <1>8, <1>9, <1>11

-----------------------------------------------------------------------------
(* The boards of the owners. *)

\* Owners are members of staff.
LEMMA OwnersAre ==
  ASSUME table \in Tables, NEW S, S \subseteq leads
  PROVE  OwnersOf(S) \subseteq DOMAIN Staff /\ IsFiniteSet(OwnersOf(S)) /\ Null \notin OwnersOf(S)
<1>1. \A l \in leads : Assignees(l) \subseteq DOMAIN Staff
  BY TablesAssumption, RowsAssumption DEF leads, Assignees
<1>2. OwnersOf(S) \subseteq DOMAIN Staff
  BY <1>1 DEF OwnersOf
<1> QED BY <1>2, StaffAssumption, FS_Subset

\* What the owners' leads are worth covers what the leads with an owner are.
LEMMA OwnersCover ==
  ASSUME table \in Tables, NEW U, U \subseteq leads, NEW K, IsFiniteSet(K), OwnersOf(U) \subseteq K,
         NEW G, \A u \in K : G[u] = Value(OwnedBy(U, u))
  PROVE  SumFunctionOnSet(G, K) >= Value({l \in U : Assignees(l) # {}})
<1> DEFINE A == [u \in K |-> OwnedBy(U, u)]
           owned == {l \in U : Assignees(l) # {}}
<1>1. IsFiniteSet(U) /\ NatOn(Amounts, U)
  BY AmountsAre, ValueIs DEF NatOn
<1>2. PartsOf(A, K, U)
  BY DEF PartsOf, OwnedBy
<1>3. Covered(A, K, U) = owned
  BY DEF Covered, OwnedBy, OwnersOf
<1>4. \A u \in K : G[u] = SumFunctionOnSet(Amounts, A[u])
  <2> SUFFICES ASSUME NEW u \in K PROVE G[u] = SumFunctionOnSet(Amounts, A[u])
    OBVIOUS
  <2>1. A[u] = OwnedBy(U, u) /\ A[u] \subseteq leads
    BY DEF OwnedBy
  <2> HIDE DEF A
  <2> QED BY <2>1, ValueIs
<1>5. owned \subseteq leads
  OBVIOUS
<1> HIDE DEF A, owned
<1>6. NatOn(G, K) /\ SumFunctionOnSet(Amounts, owned) <= SumFunctionOnSet(G, K)
  BY <1>1, <1>2, <1>3, <1>4, SumOfParts
<1>7. SumFunctionOnSet(G, K) \in Nat
  BY <1>6, SumNat
<1>8. Value(owned) = SumFunctionOnSet(Amounts, owned) /\ Value(owned) \in Nat
  BY <1>5, ValueIs
<1> QED BY <1>6, <1>7, <1>8 DEF owned

\* The assignments of a period, and how many of them there are.
AssignedOf(z, l, q) == \E a \in l.assigned : Within(a.at, q.from, q.to) /\ z = <<l, a>>

\* An assignment counted is one of a lead in scope.
LEMMA AssignedIs ==
  ASSUME NEW me, NEW q, NEW z
  PROVE  z \in assignedInPeriod(me, q) <=> \E l \in InScope(me) : AssignedOf(z, l, q)
<1> DEFINE row(l) == {<<l, a>> : a \in {x \in l.assigned : Within(x.at, q.from, q.to)}}
<1>1. assignedInPeriod(me, q) = UNION {row(l) : l \in InScope(me)}
  BY DEF assignedInPeriod, InScope
<1>2. \A l : z \in row(l) <=> AssignedOf(z, l, q)
  BY DEF AssignedOf
<1> HIDE DEF row
<1> QED BY <1>1, <1>2

\* Finitely many of them.
LEMMA AssignedFinite ==
  ASSUME table \in Tables, NEW me, NEW q
  PROVE  /\ IsFiniteSet(assignedInPeriod(me, q))
         /\ \A x \in assignedInPeriod(me, q) : /\ x[1] \in leads /\ x[2] \in x[1].assigned
                                               /\ x[2].user \in DOMAIN Staff /\ x[2].at \in Nat
<1>1. ASSUME NEW x \in assignedInPeriod(me, q)
      PROVE  /\ x \in leads \X Hanging("assigned") /\ x[1] \in leads /\ x[2] \in x[1].assigned
             /\ x[2].user \in DOMAIN Staff /\ x[2].at \in Nat
  <2>1. PICK l \in InScope(me) : AssignedOf(x, l, q)
    BY AssignedIs
  <2>2. PICK a \in l.assigned : x = <<l, a>>
    BY <2>1 DEF AssignedOf
  <2>3. l \in leads
    BY DEF InScope
  <2>4. a \in Hanging("assigned")
    BY <2>2, <2>3 DEF Hanging
  <2>5. a.user \in DOMAIN Staff /\ a.at \in Nat
    BY <2>3, TablesAssumption, RowsAssumption DEF leads
  <2> QED BY <2>2, <2>3, <2>4, <2>5
<1>2. IsFiniteSet(leads \X Hanging("assigned"))
  BY LeadsKeyed, HangingFinite, FS_Product
<1>3. IsFiniteSet(assignedInPeriod(me, q))
  BY <1>1, <1>2, FS_Subset
<1> QED BY <1>1, <1>3

-----------------------------------------------------------------------------
(* The leaderboard of sales. *)

Leaders(assigned, won) ==
  [u \in {x[2].user : x \in assigned} \cup OwnersOf(won) |->
     [leads |-> Cardinality({x \in assigned : x[2].user = u}), converted |-> Tally(OwnedBy(won, u))]]

LeaderboardTold ==
  Is("leaderboard") =>
    answer.rows = Leaders(assignedInPeriod(answer.me, answer.query), convertedInPeriod(answer.me, answer.query))

\* The handler says so.
LEMMA LeaderboardTelling ==
  ASSUME NEW me, NEW q \in Queries, salesLeaderboard(me, q)
  PROVE  LeaderboardTold'
<1> DEFINE assigned == assignedInPeriod(me, q)
           won == convertedInPeriod(me, q)
           fields ==
             [rows |-> [u \in {x[2].user : x \in assigned} \cup OwnersOf(won) |->
                [leads |-> Cardinality({x \in assigned : x[2].user = u}),
                 converted |-> Tally(OwnedBy(won, u))]]]
<1>1. Say("leaderboard", me, q, fields)
  BY DEF salesLeaderboard
<1>2. /\ table' = table /\ answer'.me = me /\ answer'.query = q
      /\ \A x \in DOMAIN fields \ {"report", "me", "query"} : answer'[x] = fields[x]
  <2> HIDE DEF fields
  <2> QED BY <1>1, Saying
<1>3. answer'.rows = fields.rows
  <2>1. "rows" \in DOMAIN fields \ {"report", "me", "query"}
    OBVIOUS
  <2> HIDE DEF fields
  <2> QED BY <1>2, <2>1
<1> HIDE DEF assigned, won
<1>4. answer'.rows = Leaders(assigned, won)
  BY <1>3 DEF Leaders
<1> HIDE DEF fields
<1>5. assigned = assignedInPeriod(answer.me, answer.query)'
  BY <1>2 DEF assigned, assignedInPeriod, leads
<1>6. won = convertedInPeriod(answer.me, answer.query)'
  BY <1>2 DEF won, convertedInPeriod, leads
<1> QED BY <1>4, <1>5, <1>6 DEF LeaderboardTold

\* The owners' rows cover what has an owner.
LEMMA LeaderboardAgrees ==
  ASSUME table \in Tables, LeaderboardTold, Is("leaderboard")
  PROVE  LET me == answer.me  q == answer.query IN
         /\ SumFunction(Figure(answer.rows, "leads")) = Cardinality(assignedInPeriod(me, q))
         /\ SumFunction(Figure(Figure(answer.rows, "converted"), "amount")) >=
              Value({l \in convertedInPeriod(me, q) : Assignees(l) # {}})
<1> DEFINE assigned == assignedInPeriod(answer.me, answer.query)
           won == convertedInPeriod(answer.me, answer.query)
           lab == [x \in assigned |-> x[2].user]
           users == LabelsOf(lab, assigned)
           K == users \cup OwnersOf(won)
           F == Figure(answer.rows, "leads")
           G == Figure(Figure(answer.rows, "converted"), "amount")
<1>1. answer.rows = Leaders(assigned, won)
  BY DEF LeaderboardTold
<1>2. IsFiniteSet(assigned)
  BY AssignedFinite
<1>3. won \subseteq leads
  BY DEF convertedInPeriod
<1> HIDE DEF assigned, won
<1>4. IsFiniteSet(users) /\ Labelled(lab, assigned, users)
  <2> HIDE DEF lab
  <2> QED BY <1>2, LabelsFinite
<1>5. IsFiniteSet(K) /\ Labelled(lab, assigned, K) /\ OwnersOf(won) \subseteq K
  <2>1. IsFiniteSet(OwnersOf(won))
    BY <1>3, OwnersAre
  <2> HIDE DEF lab, users
  <2> QED BY <1>4, <2>1, FS_Union DEF Labelled
<1>6. K = {x[2].user : x \in assigned} \cup OwnersOf(won)
  BY DEF LabelsOf
<1>7. /\ DOMAIN F = K /\ DOMAIN G = K
      /\ \A u \in K : /\ F[u] = Cardinality({x \in assigned : x[2].user = u})
                      /\ G[u] = Value(OwnedBy(won, u))
  <2> HIDE DEF K
  <2> DEFINE had(u) == Cardinality({x \in assigned : x[2].user = u})
             sold(u) == Tally(OwnedBy(won, u))
             rows == answer.rows
             C == Figure(rows, "converted")
  <2>1. rows = [u \in K |-> [leads |-> had(u), converted |-> sold(u)]]
    BY <1>1, <1>6 DEF Leaders
  <2>2. \A u : sold(u).amount = Value(OwnedBy(won, u))
    BY DEF Tally
  <2> HIDE DEF had, sold, rows
  <2>3. DOMAIN F = K /\ \A u \in K : F[u] = had(u)
    BY <2>1 DEF Figure, rows
  <2>4. DOMAIN C = K /\ \A u \in K : C[u] = sold(u)
    BY <2>1 DEF Figure
  <2>5. DOMAIN G = K /\ \A u \in K : G[u] = C[u].amount
    <3> HIDE DEF C
    <3>1. G = [k \in DOMAIN C |-> C[k].amount]
      BY DEF Figure, C, rows
    <3> QED BY <2>4, <3>1
  <2>6. \A u \in K : G[u] = Value(OwnedBy(won, u))
    BY <2>2, <2>4, <2>5
  <2> QED BY <2>3, <2>5, <2>6 DEF had
<1>8. CountsLabels(F, lab, assigned, K)
  <2>1. \A u : {x \in assigned : lab[x] = u} = {x \in assigned : x[2].user = u}
    OBVIOUS
  <2> HIDE DEF K, F, lab
  <2> QED BY <1>7, <2>1 DEF CountsLabels
<1> HIDE DEF lab, users, K, F, G
<1>9. SumFunctionOnSet(F, K) = Cardinality(assigned)
  BY <1>2, <1>5, <1>8, CountByLabel
<1>10. SumFunctionOnSet(G, K) >= Value({l \in won : Assignees(l) # {}})
  BY <1>3, <1>5, <1>7, OwnersCover
<1> QED BY <1>7, <1>9, <1>10 DEF SumFunction, F, G, assigned, won

\* The revenue adds up.
LEMMA RevenueFit ==
  ASSUME table \in Tables, RevenueTold, LeaderboardTold
  PROVE  RevenueAddsUp
BY RevenueAgrees, LeaderboardAgrees DEF RevenueAddsUp

-----------------------------------------------------------------------------
(* Conversion, stages and sources. *)

-----------------------------------------------------------------------------
(* The board of conversions. *)

WonOf(me, q) == Base(me, [Period(q) EXCEPT !.status = {"WON"}])
SourcesOf(all, S) == [s \in {sourceLabel(l) : l \in all} |-> Cardinality({l \in S : sourceLabel(l) = s})]
OwnersWon(all, won) ==
  [u \in OwnersOf(all) \cup (IF Unassigned(all) = {} THEN {} ELSE {Null}) |->
     IF u = Null THEN Cardinality(Unassigned(won)) ELSE Cardinality(OwnedBy(won, u))]

ConversionTold ==
  Is("conversion") =>
    LET all == Base(answer.me, Period(answer.query))  won == WonOf(answer.me, answer.query) IN
    /\ answer.totals.leadCount = Cardinality(all) /\ answer.totals.convertedCount = Cardinality(won)
    /\ Figure(answer.bySource, "leadCount") = SourcesOf(all, all)
    /\ Figure(answer.bySource, "convertedCount") = SourcesOf(all, won)
    /\ Figure(answer.byOwner, "convertedCount") = OwnersWon(all, won)

\* The handler says so.
LEMMA ConversionTelling ==
  ASSUME NEW me, NEW q \in Queries, leadsConversion(me, q)
  PROVE  ConversionTold'
<1> DEFINE all == Base(me, Period(q))
           won == Base(me, [Period(q) EXCEPT !.status = {"WON"}])
           source(S) == Groups(S, sourceLabel)
           nobody == IF Unassigned(all) = {} THEN {} ELSE {Null}
           Across(S, T) == [leadCount |-> Cardinality(S), convertedCount |-> Cardinality(T)]
           bySource == [s \in DOMAIN source(all) |->
             Across(source(all)[s], IF s \in DOMAIN source(won) THEN source(won)[s] ELSE {})]
           byOwner == [u \in OwnersOf(all) \cup nobody |->
             IF u = Null THEN Across(Unassigned(all), Unassigned(won))
             ELSE Across(OwnedBy(all, u), OwnedBy(won, u))]
           fields == [totals |-> Across(all, won), bySource |-> bySource, byOwner |-> byOwner]
<1>1. Say("conversion", me, q, fields)
  BY DEF leadsConversion
<1>2. /\ table' = table /\ answer'.me = me /\ answer'.query = q
      /\ \A x \in DOMAIN fields \ {"report", "me", "query"} : answer'[x] = fields[x]
  <2> HIDE DEF fields
  <2> QED BY <1>1, Saying
<1>3. /\ answer'.totals.leadCount = Cardinality(all) /\ answer'.totals.convertedCount = Cardinality(won)
      /\ answer'.bySource = bySource /\ answer'.byOwner = byOwner
  <2> HIDE DEF bySource, byOwner, all, won
  <2> QED BY <1>2
<1> HIDE DEF fields, all, won
<1>4. /\ DOMAIN source(all) = {sourceLabel(l) : l \in all}
      /\ \A s \in DOMAIN source(all) : source(all)[s] = {l \in all : sourceLabel(l) = s}
      /\ \A s : (IF s \in DOMAIN source(won) THEN source(won)[s] ELSE {}) = {l \in won : sourceLabel(l) = s}
  <2>1. \A s : s \notin {sourceLabel(l) : l \in won} => {l \in won : sourceLabel(l) = s} = {}
    OBVIOUS
  <2> QED BY <2>1 DEF Groups
<1> HIDE DEF source
<1>5. Figure(bySource, "leadCount") = SourcesOf(all, all)
  BY <1>4 DEF Figure, SourcesOf
<1>6. Figure(bySource, "convertedCount") = SourcesOf(all, won)
  BY <1>4 DEF Figure, SourcesOf
<1>7. Figure(byOwner, "convertedCount") = OwnersWon(all, won)
  <2>1. \A u \in DOMAIN byOwner : byOwner[u]["convertedCount"] = OwnersWon(all, won)[u]
    BY DEF OwnersWon
  <2>2. DOMAIN byOwner = DOMAIN OwnersWon(all, won)
    BY DEF OwnersWon
  <2>3. OwnersWon(all, won) = [u \in DOMAIN OwnersWon(all, won) |-> OwnersWon(all, won)[u]]
    BY DEF OwnersWon
  <2> HIDE DEF byOwner
  <2> QED BY <2>1, <2>2, <2>3 DEF Figure
<1> HIDE DEF bySource, byOwner
<1>8. all = Base(answer.me, Period(answer.query))'
  BY <1>2 DEF all, Base, leads
<1>9. won = WonOf(answer.me, answer.query)'
  BY <1>2 DEF won, WonOf, Base, leads
<1> QED BY <1>3, <1>5, <1>6, <1>7, <1>8, <1>9 DEF ConversionTold, Figure

\* The leads won are the report's converted ones.
LEMMA WonAre ==
  ASSUME NEW me, NEW q
  PROVE  /\ WonOf(me, q) = Converted(me, Period(q))
         /\ WonOf(me, q) \subseteq Base(me, Period(q))
         /\ Base(me, Period(q)) \subseteq leads
<1> DEFINE p == Period(q)
           w == [p EXCEPT !.status = {"WON"}]
<1>1. Complete(p) /\ p.status = {} /\ p.dateField = "created"
  BY PeriodIs, NothingChosen DEF QueryNames
<1>2. Akin(w, p) /\ w.status = {"WON"} /\ w.from = p.from /\ w.to = p.to
  <2> HIDE DEF p
  <2> QED BY <1>1, Restated
<1>3. WonOf(me, q) = Base(me, w)
  BY DEF WonOf
<1> HIDE DEF p, w
<1>4. \A l : l \in WonOf(me, q) <=> /\ l \in leads /\ Suits(me, l, p) /\ l.status = "WON"
                                    /\ Within(l.createdAt, p.from, p.to)
  BY <1>2, <1>3, BaseIs, SuitsAlike DEF OneOf
<1>5. \A l : l \in Base(me, p) <=> l \in leads /\ Suits(me, l, p) /\ Within(l.createdAt, p.from, p.to)
  BY <1>1, BaseIs DEF OneOf
<1>6. \A l : l \in Converted(me, p) <=> /\ l \in leads /\ Suits(me, l, p) /\ l.status = "WON"
                                        /\ Within(l.createdAt, p.from, p.to)
  BY <1>1, ConvertedIs DEF Timed
<1> QED BY <1>4, <1>5, <1>6 DEF p

\* The sources add up to the totals.
LEMMA ConversionAgrees ==
  ASSUME table \in Tables, ConversionTold, Is("conversion")
  PROVE  LET me == answer.me  q == answer.query IN
         /\ SumFunction(Figure(answer.bySource, "leadCount")) = answer.totals.leadCount
         /\ SumFunction(Figure(answer.bySource, "convertedCount")) = Cardinality(Converted(me, Period(q)))
         /\ SumFunction(Figure(answer.byOwner, "convertedCount")) >= answer.totals.convertedCount
<1> DEFINE all == Base(answer.me, Period(answer.query))
           won == WonOf(answer.me, answer.query)
           lab == [l \in all |-> sourceLabel(l)]
           K == LabelsOf(lab, all)
           nobody == IF Unassigned(all) = {} THEN {} ELSE {Null}
           P == OwnersOf(all) \cup nobody
           A == [u \in P |-> IF u = Null THEN Unassigned(won) ELSE OwnedBy(won, u)]
           G == OwnersWon(all, won)
<1>1. /\ answer.totals.leadCount = Cardinality(all) /\ answer.totals.convertedCount = Cardinality(won)
      /\ Figure(answer.bySource, "leadCount") = SourcesOf(all, all)
      /\ Figure(answer.bySource, "convertedCount") = SourcesOf(all, won)
      /\ Figure(answer.byOwner, "convertedCount") = G
  BY DEF ConversionTold
<1>2. /\ won = Converted(answer.me, Period(answer.query))
      /\ won \subseteq all /\ all \subseteq leads
  BY WonAre
<1> HIDE DEF all, won
<1>3. IsFiniteSet(all) /\ IsFiniteSet(won)
  BY <1>2, LeadsKeyed, FS_Subset
<1>4. IsFiniteSet(K) /\ Labelled(lab, all, K)
  <2> HIDE DEF lab
  <2> QED BY <1>3, LabelsFinite
<1>5. K = {sourceLabel(l) : l \in all}
  BY DEF LabelsOf
<1>6. Labelled(lab, won, K)
  BY <1>2, <1>4 DEF Labelled
<1>7. CountsLabels(SourcesOf(all, all), lab, all, K) /\ CountsLabels(SourcesOf(all, won), lab, won, K)
  <2>1. \A k : /\ {l \in all : lab[l] = k} = {l \in all : sourceLabel(l) = k}
               /\ {l \in won : lab[l] = k} = {l \in won : sourceLabel(l) = k}
    BY <1>2
  <2> HIDE DEF lab, K
  <2> QED BY <1>5, <2>1 DEF CountsLabels, SourcesOf
<1>8. DOMAIN SourcesOf(all, all) = K /\ DOMAIN SourcesOf(all, won) = K
  <2> HIDE DEF K
  <2> QED BY <1>5 DEF SourcesOf
<1>9. SumFunction(SourcesOf(all, all)) = Cardinality(all) /\ SumFunction(SourcesOf(all, won)) = Cardinality(won)
  <2> HIDE DEF lab, K
  <2> QED BY <1>3, <1>4, <1>6, <1>7, <1>8, CountByLabel DEF SumFunction
<1>10. SumFunction(G) >= Cardinality(won)
  <2>1. OwnersOf(all) \subseteq DOMAIN Staff /\ IsFiniteSet(OwnersOf(all)) /\ Null \notin OwnersOf(all)
    BY <1>2, OwnersAre
  <2>2. IsFiniteSet(P)
    <3>1. IsFiniteSet(nobody)
      BY FS_EmptySet, FS_Singleton
    <3> HIDE DEF nobody
    <3> QED BY <2>1, <3>1, FS_Union
  <2>3. PartsOf(A, P, won)
    BY DEF PartsOf, OwnedBy, Unassigned
  <2>4. Covered(A, P, won) = won
    <3>1. \A l \in won : Assignees(l) = {} => Null \in P /\ l \in A[Null]
      BY <1>2 DEF Unassigned
    <3>2. \A l \in won : \A u \in Assignees(l) : u \in P /\ l \in A[u]
      BY <1>2, <2>1 DEF OwnersOf, OwnedBy
    <3> HIDE DEF A, P
    <3>3. \A l \in won : \E u \in P : l \in A[u]
      BY <3>1, <3>2
    <3> QED BY <3>3 DEF Covered
  <2>5. DOMAIN G = P /\ \A u \in P : G[u] = Cardinality(A[u])
    BY DEF OwnersWon
  <2> HIDE DEF A, P, G, nobody
  <2>6. NatOn(G, P) /\ Cardinality(won) <= SumFunctionOnSet(G, P)
    BY <1>3, <2>2, <2>3, <2>4, <2>5, CountOfParts
  <2>7. SumFunctionOnSet(G, P) \in Nat /\ Cardinality(won) \in Nat
    BY <1>3, <2>2, <2>6, SumNat, FS_CardinalityType
  <2> QED BY <2>5, <2>6, <2>7 DEF SumFunction
<1> QED BY <1>1, <1>2, <1>9, <1>10

-----------------------------------------------------------------------------
(* The board of attention. *)

LateOf(me, q) == {x.lead : x \in OverdueReport(me, Period(q))}
QuietOf(me, q) == {l \in Base(me, Period(q)) : noEngagementWhere(l, Null, Null)}
LostOf(me, q) == Base(me, [Period(q) EXCEPT !.status = {"LOST"}])

AttentionTold ==
  Is("attention") =>
    /\ answer.overdue = Ids(LateOf(answer.me, answer.query))
    /\ answer.noActivity = Ids(QuietOf(answer.me, answer.query))
    /\ answer.lost = Ids(LostOf(answer.me, answer.query))

\* The handler says so.
LEMMA AttentionTelling ==
  ASSUME NEW me, NEW q \in Queries, leadsAttention(me, q)
  PROVE  AttentionTold'
<1> DEFINE p == Period(q)
           fields ==
             [overdue |-> Ids({x.lead : x \in OverdueReport(me, p)}),
              noActivity |-> Ids({l \in Base(me, p) : noEngagementWhere(l, Null, Null)}),
              lost |-> Ids(Base(me, [p EXCEPT !.status = {"LOST"}]))]
<1>1. Say("attention", me, q, fields)
  BY DEF leadsAttention
<1>2. /\ table' = table /\ answer'.me = me /\ answer'.query = q
      /\ \A x \in DOMAIN fields \ {"report", "me", "query"} : answer'[x] = fields[x]
  <2> HIDE DEF fields
  <2> QED BY <1>1, Saying
<1>3. /\ answer'.overdue = Ids(LateOf(me, q)) /\ answer'.noActivity = Ids(QuietOf(me, q))
      /\ answer'.lost = Ids(LostOf(me, q))
  <2>1. /\ answer'.overdue = fields.overdue /\ answer'.noActivity = fields.noActivity
        /\ answer'.lost = fields.lost
    <3>1. {"overdue", "noActivity", "lost"} \subseteq DOMAIN fields \ {"report", "me", "query"}
      OBVIOUS
    <3> HIDE DEF fields
    <3> QED BY <1>2, <3>1
  <2> QED BY <2>1 DEF LateOf, QuietOf, LostOf
<1> HIDE DEF fields
<1>4. LateOf(me, q) = LateOf(answer.me, answer.query)'
  BY <1>2 DEF LateOf, OverdueReport, Scoped, Pairs, leads, Period
<1>5. QuietOf(me, q) = QuietOf(answer.me, answer.query)' /\ LostOf(me, q) = LostOf(answer.me, answer.query)'
  BY <1>2 DEF QuietOf, LostOf, Base, leads
<1> QED BY <1>3, <1>4, <1>5 DEF AttentionTold, Ids

\* Each list is of the report it links to.
LEMMA AttentionAgrees ==
  ASSUME AttentionTold, Is("attention")
  PROVE  LET me == answer.me  q == answer.query IN
         /\ answer.lost = Ids(Lost(me, Period(q)))
         /\ \A id \in answer.overdue : \E x \in OverdueReport(me, Period(q)) : x.lead.id = id
         /\ ~Windowed(q) => answer.noActivity = Ids(NoActivity(me, Query))
<1> DEFINE me == answer.me
           q == answer.query
           p == Period(q)
           w == [p EXCEPT !.status = {"LOST"}]
           n == NoWindow(Query)
<1>1. Complete(p) /\ p.from = q.from /\ p.to = q.to /\ \A f \in QueryNames \ {"from", "to"} : p[f] = Query[f]
  BY PeriodIs
<1>2. /\ p.status = {} /\ p.dateField = "created" /\ p.team = {} /\ p.reason = {}
  BY <1>1, NothingChosen DEF QueryNames
<1>3. LostOf(me, q) = Lost(me, p)
  <2>1. LostOf(me, q) = Base(me, w)
    BY DEF LostOf
  <2>9. Complete(p)
    BY <1>1
  <2>2. Akin(w, p) /\ w.status = {"LOST"} /\ w.from = p.from /\ w.to = p.to
    <3>1. w = [p EXCEPT !.status = {"LOST"}]
      OBVIOUS
    <3> HIDE DEF p, w
    <3> QED BY <2>9, <3>1, RestatedAs
  <2> HIDE DEF p
  <2> HIDE DEF w
  <2>3. \A l : l \in Base(me, w) <=> /\ l \in leads /\ Suits(me, l, p) /\ l.status = "LOST"
                                     /\ Within(l.createdAt, p.from, p.to)
    BY <2>2, BaseIs, SuitsAlike DEF OneOf
  <2>4. \A l : l \in Lost(me, p) <=> /\ l \in leads /\ Suits(me, l, p) /\ l.status = "LOST"
                                     /\ Within(l.createdAt, p.from, p.to)
    BY <1>1, <1>2, LostIs DEF Timed, teamWhere, Some, reasonWhere, OneOf
  <2>5. \A l : l \in Base(me, w) <=> l \in Lost(me, p)
    BY <2>3, <2>4
  <2>6. Base(me, w) \subseteq leads /\ Lost(me, p) \subseteq leads
    BY <2>3, <2>4
  <2> QED BY <2>1, <2>5, <2>6
<1>4. ASSUME ~Windowed(q)
      PROVE  QuietOf(me, q) = NoActivity(me, Query)
  <2>1. q.from = Null /\ q.to = Null
    BY <1>4 DEF Windowed
  <2>2. /\ Complete(Query) /\ Query.from = Null /\ Query.to = Null /\ Query.status = {}
    BY NothingChosen DEF Complete
  <2>3. Akin(n, Query) /\ n.status = Query.status /\ n.from = Null /\ n.to = Null
    BY <2>2, WindowOff
  <2>4. Akin(p, Query)
    BY <1>1 DEF Akin, QueryNames
  <2>5. p.from = Null /\ p.to = Null /\ p.status = {}
    BY <1>1, <1>2, <2>1
  <2>6. \A l : l \in NoActivity(me, Query) <=> l \in Base(me, n) /\ noEngagementWhere(l, Null, Null)
    BY <2>2 DEF NoActivity
  <2>7. \A l : l \in QuietOf(me, q) <=> l \in Base(me, p) /\ noEngagementWhere(l, Null, Null)
    BY DEF QuietOf
  <2> HIDE DEF n, p
  <2>8. \A l : l \in Base(me, n) <=> l \in Base(me, p)
    <3> SUFFICES ASSUME NEW l PROVE l \in Base(me, n) <=> l \in Base(me, p)
      OBVIOUS
    <3>1. Suits(me, l, n) <=> Suits(me, l, Query)
      BY <2>3, SuitsAlike
    <3>2. Suits(me, l, p) <=> Suits(me, l, Query)
      BY <2>4, SuitsAlike
    <3>3. l \in Base(me, n) <=> /\ l \in leads /\ Suits(me, l, Query)
                               /\ OneOf({}, l.status) /\ Within(l.createdAt, Null, Null)
      BY <2>2, <2>3, <3>1, BaseIs
    <3>4. l \in Base(me, p) <=> /\ l \in leads /\ Suits(me, l, Query)
                               /\ OneOf({}, l.status) /\ Within(l.createdAt, Null, Null)
      BY <2>5, <3>2, BaseIs
    <3> QED BY <3>3, <3>4
  <2> QED BY <2>6, <2>7, <2>8
<1>5. \A id \in Ids(LateOf(me, q)) : \E x \in OverdueReport(me, p) : x.lead.id = id
  <2> SUFFICES ASSUME NEW id \in Ids(LateOf(me, q)) PROVE \E x \in OverdueReport(me, p) : x.lead.id = id
    OBVIOUS
  <2>1. PICK l \in LateOf(me, q) : l.id = id
    BY DEF Ids
  <2> QED BY <2>1 DEF LateOf
<1> HIDE DEF p, w, n
<1>6. /\ answer.overdue = Ids(LateOf(me, q)) /\ answer.noActivity = Ids(QuietOf(me, q))
      /\ answer.lost = Ids(LostOf(me, q))
  BY DEF AttentionTold
<1> QED BY <1>3, <1>4, <1>5, <1>6 DEF p

-----------------------------------------------------------------------------
(* The board of stages. *)

Staged(S) ==
  [s \in {<<r.board, r.name>> : r \in {x \in Stages : x.inclusion}} |->
     Cardinality({l \in S : l.pipeline = s[1] /\ l.status = s[2]})]

StagesTold ==
  Is("stages") =>
    LET S == Base(answer.me, Period(answer.query)) IN
    answer.stages = Staged(S) /\ answer.total = Cardinality(S)

\* The handler says so.
LEMMA StagesTelling ==
  ASSUME NEW me, NEW q \in Queries, stageOverview(me, q)
  PROVE  StagesTold'
<1> DEFINE S == Base(me, Period(q))
           rows == {s \in Stages : s.inclusion}
           fields ==
             [stages |-> [s \in {<<r.board, r.name>> : r \in rows} |->
                Cardinality({l \in S : l.pipeline = s[1] /\ l.status = s[2]})],
              total |-> Cardinality(S)]
<1>1. Say("stages", me, q, fields)
  BY DEF stageOverview
<1>2. /\ table' = table /\ answer'.me = me /\ answer'.query = q
      /\ \A x \in DOMAIN fields \ {"report", "me", "query"} : answer'[x] = fields[x]
  <2> HIDE DEF fields
  <2> QED BY <1>1, Saying
<1>3. answer'.stages = Staged(S) /\ answer'.total = Cardinality(S)
  <2>1. answer'.stages = fields.stages /\ answer'.total = fields.total
    <3>1. {"stages", "total"} \subseteq DOMAIN fields \ {"report", "me", "query"}
      OBVIOUS
    <3> HIDE DEF fields
    <3> QED BY <1>2, <3>1
  <2> HIDE DEF S
  <2> QED BY <2>1 DEF Staged
<1> HIDE DEF fields
<1>4. S = Base(answer.me, Period(answer.query))'
  BY <1>2 DEF Base, leads
<1> HIDE DEF S
<1> QED BY <1>3, <1>4 DEF StagesTold, Staged

\* No lead is in two stages of the overview.
LEMMA StagesAgree ==
  ASSUME table \in Tables, StagesTold, Is("stages")
  PROVE  SumFunction(answer.stages) <= answer.total
<1> DEFINE S == Base(answer.me, Period(answer.query))
           rows == {s \in Stages : s.inclusion}
           K == {<<r.board, r.name>> : r \in rows}
           A == [s \in K |-> {l \in S : l.pipeline = s[1] /\ l.status = s[2]}]
           G == Staged(S)
<1>1. answer.stages = G /\ answer.total = Cardinality(S)
  BY DEF StagesTold
<1>2. S \subseteq leads
  BY DEF Base
<1> HIDE DEF S
<1>3. IsFiniteSet(S)
  BY <1>2, LeadsKeyed, FS_Subset
<1>4. IsFiniteSet(K)
  <2>1. IsFiniteSet(rows)
    BY StagesAssumption, FS_Subset
  <2>2. [r \in rows |-> <<r.board, r.name>>] \in Surjection(rows, K)
    BY DEF Surjection
  <2> HIDE DEF rows, K
  <2> QED BY <2>1, <2>2, FS_Surjection
<1>5. PartsOf(A, K, S)
  BY DEF PartsOf
<1>6. Apart(A, K)
  BY DEF Apart
<1>7. DOMAIN G = K /\ \A s \in K : G[s] = Cardinality(A[s])
  BY DEF Staged
<1>8. Covered(A, K, S) \subseteq S
  BY DEF Covered
<1> HIDE DEF A, K, G, rows
<1>9. Cardinality(Covered(A, K, S)) = SumFunctionOnSet(G, K)
  BY <1>3, <1>4, <1>5, <1>6, <1>7, CountOfParts
<1>10. Cardinality(Covered(A, K, S)) <= Cardinality(S)
  BY <1>3, <1>8, FS_Subset
<1> QED BY <1>1, <1>7, <1>9, <1>10 DEF SumFunction

-----------------------------------------------------------------------------
(* The live view of the funnel. *)

OnEach(S, B) == [s \in B |-> Tally({l \in S : l.status = s.name}).count]
OnSome(S, B) == {l \in S : \E s \in B : l.status = s.name}
OpenStages(S, board) ==
  {s \in {t \in Stages : t.board = board /\ t.inclusion /\ Tally({l \in S : l.status = t.name}).count > 0} : ~s.closed}
WonStages(board) == {s \in Stages : s.board = board /\ s.closed /\ s.outcome = "WON"}

\* The counts of stages of one board are of different leads.
LEMMA StagesApart ==
  ASSUME table \in Tables, NEW S, S \subseteq leads, NEW board, NEW B, B \subseteq Stages,
         \A s \in B : s.board = board
  PROVE  /\ SumFunction(OnEach(S, B)) = Cardinality(OnSome(S, B))
         /\ OnSome(S, B) \subseteq S
<1> DEFINE A == [s \in B |-> {l \in S : l.status = s.name}]
           G == OnEach(S, B)
<1>1. IsFiniteSet(B) /\ IsFiniteSet(S)
  BY StagesAssumption, LeadsKeyed, FS_Subset
<1>2. PartsOf(A, B, S)
  BY DEF PartsOf
<1>3. Apart(A, B)
  <2>1. \A s, t \in B : s.name = t.name => s = t
    BY StagesAssumption
  <2> QED BY <2>1 DEF Apart
<1>4. Covered(A, B, S) = OnSome(S, B)
  BY DEF Covered, OnSome
<1>5. DOMAIN G = B /\ \A s \in B : G[s] = Cardinality(A[s])
  BY DEF OnEach, Tally
<1> HIDE DEF A, G
<1>6. Cardinality(OnSome(S, B)) = SumFunctionOnSet(G, B)
  BY <1>1, <1>2, <1>3, <1>4, <1>5, CountOfParts
<1> QED BY <1>5, <1>6 DEF SumFunction, G, OnSome

OfBoard(me, q, board) == Base(me, [q EXCEPT !.pipeline = board])

FunnelTold ==
  Is("liveFunnel") =>
    LET q == answer.query  S == OfBoard(answer.me, q, answer.board) IN
    /\ q \in Queries /\ SalesFunnelQueryDto(q)
    /\ answer.overall = Cardinality(S)
    /\ answer.leads = SumFunction(OnEach(S, OpenStages(S, answer.board)))
    /\ answer.won = SumFunction(OnEach(S, WonStages(answer.board)))
    /\ \A n \in DOMAIN answer.funnel : answer.funnel[n].count = Cardinality({l \in S : l.status = n})

\* The handler says so.
LEMMA FunnelTelling ==
  ASSUME NEW me, NEW q \in Queries, liveFunnel(me, q)
  PROVE  FunnelTold'
<1> DEFINE board == IF q.pipeline = Null THEN DefaultPipeline ELSE q.pipeline
           S == Base(me, [q EXCEPT !.pipeline = board])
           on(s) == Tally({l \in S : l.status = s.name})
           shown == {s \in Stages : s.board = board /\ s.inclusion /\ on(s).count > 0}
           open == {s \in shown : ~s.closed}
           rows(R) == [n \in {s.name : s \in R} |-> Tally({l \in S : l.status = n})]
           won == {s \in Stages : s.board = board /\ s.closed /\ s.outcome = "WON"}
           fields ==
             [table |-> rows(open), board |-> board, overall |-> Cardinality(S),
              funnel |-> rows({s \in shown : q.includeLost \/ ~(s.closed /\ s.outcome = "LOST")}),
              leads |-> SumFunction([s \in open |-> on(s).count]),
              won |-> SumFunction([s \in won |-> on(s).count])]
<1>1. Say("liveFunnel", me, q, fields) /\ SalesFunnelQueryDto(q)
  BY DEF liveFunnel
<1>2. /\ table' = table /\ answer'.me = me /\ answer'.query = q
      /\ \A x \in DOMAIN fields \ {"report", "me", "query"} : answer'[x] = fields[x]
  <2> HIDE DEF fields
  <2> QED BY <1>1, Saying
<1>3. /\ answer'.board = fields.board /\ answer'.overall = fields.overall /\ answer'.funnel = fields.funnel
      /\ answer'.leads = fields.leads /\ answer'.won = fields.won
  <2>1. {"board", "overall", "funnel", "leads", "won"} \subseteq DOMAIN fields \ {"report", "me", "query"}
    OBVIOUS
  <2> HIDE DEF fields
  <2> QED BY <1>2, <2>1
<1> HIDE DEF board, S
<1>4. answer'.board = board /\ answer'.overall = Cardinality(S)
  <2> HIDE DEF on, shown, open, rows, won
  <2> QED BY <1>3
<1>5. answer'.leads = SumFunction(OnEach(S, OpenStages(S, board)))
  <2>1. answer'.leads = SumFunction([s \in open |-> on(s).count])
    <3> HIDE DEF on, shown, open, rows, won
    <3> QED BY <1>3
  <2>2. open = OpenStages(S, board)
    BY DEF OpenStages
  <2> HIDE DEF open, shown
  <2>3. [s \in open |-> on(s).count] = OnEach(S, open)
    BY DEF OnEach
  <2> HIDE DEF on
  <2> QED BY <2>1, <2>2, <2>3
<1>6. answer'.won = SumFunction(OnEach(S, WonStages(board)))
  <2>1. answer'.won = SumFunction([s \in won |-> on(s).count])
    <3> HIDE DEF on, shown, open, rows, won
    <3> QED BY <1>3
  <2>2. won = WonStages(board)
    BY DEF WonStages
  <2> HIDE DEF won
  <2>3. [s \in won |-> on(s).count] = OnEach(S, won)
    BY DEF OnEach
  <2> HIDE DEF on
  <2> QED BY <2>1, <2>2, <2>3
<1>7. \A n \in DOMAIN answer'.funnel : answer'.funnel[n].count = Cardinality({l \in S : l.status = n})
  <2> DEFINE R == {s \in shown : q.includeLost \/ ~(s.closed /\ s.outcome = "LOST")}
  <2>1. answer'.funnel = rows(R)
    <3> HIDE DEF on, shown, open, rows, won
    <3> QED BY <1>3
  <2> HIDE DEF R
  <2> QED BY <2>1 DEF Tally
<1> HIDE DEF fields, on, shown, open, rows, won
<1>8. S = OfBoard(answer.me, answer.query, answer.board)'
  BY <1>2, <1>4 DEF S, OfBoard, Base, leads
<1> HIDE DEF S
<1> QED BY <1>1, <1>2, <1>4, <1>5, <1>6, <1>7, <1>8
        DEF FunnelTold, SalesFunnelQueryDto, Only, FromOne, OnEach, OpenStages, WonStages

\* The board's leads are a report's.
LEMMA FunnelLists ==
  ASSUME NEW me, NEW q \in Queries, SalesFunnelQueryDto(q), NEW board
  PROVE  OfBoard(me, q, board) = ByStatus(me, [q EXCEPT !.pipeline = board, !.includeLost = FALSE])
<1> DEFINE b == [q EXCEPT !.pipeline = board]
           r == [q EXCEPT !.pipeline = board, !.includeLost = FALSE]
<1>1. Complete(q)
  BY QueriesComplete
<1>2. Only(q, LeadsFields \cup {"includeLost"})
  BY DEF SalesFunnelQueryDto
<1>3. {"team", "dateField"} \cap (LeadsFields \cup {"includeLost"}) = {}
  BY DEF LeadsFields, NoFilter
<1>4. q.team = {} /\ q.dateField = "created"
  <2> HIDE DEF b, r
  <2>1. "team" \in QueryNames /\ "dateField" \in QueryNames
    BY DEF QueryNames
  <2>2. q["team"] = Query["team"] /\ q["dateField"] = Query["dateField"]
    BY <1>2, <1>3, <2>1, NotAllowed
  <2> QED BY <2>2, NothingChosen
<1>5. /\ Complete(r) /\ Akin(r, b) /\ r.status = b.status /\ r.from = b.from /\ r.to = b.to
      /\ r.team = {} /\ r.dateField = "created"
  BY <1>1, <1>4 DEF Complete, QueryNames, Akin
<1>6. OfBoard(me, q, board) = Base(me, b)
  BY DEF OfBoard
<1> HIDE DEF b, r
<1>7. \A l : l \in Base(me, b) <=> /\ l \in leads /\ Suits(me, l, b) /\ OneOf(b.status, l.status)
                                   /\ Within(l.createdAt, b.from, b.to)
  BY BaseIs
<1>8. \A l : l \in ByStatus(me, r) <=> /\ l \in leads /\ Suits(me, l, r) /\ OneOf(r.status, l.status)
                                       /\ Within(l.createdAt, r.from, r.to)
  BY <1>5, ByStatusIs DEF Timed, teamWhere, Some
<1>9. \A l : l \in Base(me, b) <=> l \in ByStatus(me, r)
  BY <1>5, <1>7, <1>8, SuitsAlike
<1>10. Base(me, b) \subseteq leads /\ ByStatus(me, r) \subseteq leads
  BY <1>7, <1>8
<1>11. Base(me, b) = ByStatus(me, r)
  BY <1>9, <1>10
<1> QED BY <1>6, <1>11 DEF r

\* The stages count the board's leads, the won ones and the rest.
LEMMA FunnelAgrees ==
  ASSUME table \in Tables, FunnelTold, Is("liveFunnel")
  PROVE  LET me == answer.me  q == answer.query
             listed == ByStatus(me, [q EXCEPT !.pipeline = answer.board, !.includeLost = FALSE]) IN
         /\ answer.leads <= answer.overall /\ answer.overall = Cardinality(listed)
         /\ \A n \in DOMAIN answer.funnel :
              answer.funnel[n].count = Cardinality({l \in listed : l.status = n})
         /\ (\A s \in Stages : s.board = answer.board /\ s.name = "LOST" => s.outcome # "WON") =>
              answer.won + Cardinality({l \in listed : l.status = "LOST"}) <= answer.overall
<1> DEFINE board == answer.board
           S == OfBoard(answer.me, answer.query, board)
           open == OpenStages(S, board)
           won == WonStages(board)
           losses == {l \in S : l.status = "LOST"}
<1>1. /\ answer.query \in Queries /\ SalesFunnelQueryDto(answer.query)
      /\ answer.overall = Cardinality(S)
      /\ answer.leads = SumFunction(OnEach(S, open))
      /\ answer.won = SumFunction(OnEach(S, won))
      /\ \A n \in DOMAIN answer.funnel : answer.funnel[n].count = Cardinality({l \in S : l.status = n})
  BY DEF FunnelTold
<1>2. S = ByStatus(answer.me, [answer.query EXCEPT !.pipeline = answer.board, !.includeLost = FALSE])
  <2>1. OfBoard(answer.me, answer.query, answer.board)
          = ByStatus(answer.me, [answer.query EXCEPT !.pipeline = answer.board, !.includeLost = FALSE])
    <3>1. answer.query \in Queries /\ SalesFunnelQueryDto(answer.query)
      BY <1>1
    <3> HIDE DEF S, board, open, won, losses
    <3> QED BY <3>1, FunnelLists
  <2> QED BY <2>1
<1>3. S \subseteq leads
  BY DEF OfBoard, Base
<1>4. /\ open \subseteq Stages /\ (\A s \in open : s.board = board)
      /\ won \subseteq Stages /\ (\A s \in won : s.board = board /\ s.outcome = "WON")
  BY DEF OpenStages, WonStages
<1> HIDE DEF S, open, won, board
<1>5. IsFiniteSet(S)
  BY <1>3, LeadsKeyed, FS_Subset
<1>6. answer.leads = Cardinality(OnSome(S, open)) /\ OnSome(S, open) \subseteq S
  BY <1>1, <1>3, <1>4, StagesApart
<1>7. answer.won = Cardinality(OnSome(S, won)) /\ OnSome(S, won) \subseteq S
  BY <1>1, <1>3, <1>4, StagesApart
<1>8. answer.leads <= answer.overall
  <2>1. Cardinality(OnSome(S, open)) <= Cardinality(S)
    BY <1>5, <1>6, FS_Subset
  <2> QED BY <1>1, <1>6, <2>1
<1>9. ASSUME \A s \in Stages : s.board = answer.board /\ s.name = "LOST" => s.outcome # "WON"
      PROVE  answer.won + Cardinality(losses) <= answer.overall
  <2>1. \A s \in won : s.name # "LOST"
    BY <1>4, <1>9 DEF board
  <2>2. OnSome(S, won) \cap losses = {}
    BY <2>1 DEF OnSome
  <2>3. losses \subseteq S
    OBVIOUS
  <2> HIDE DEF losses
  <2>4. IsFiniteSet(losses) /\ IsFiniteSet(OnSome(S, won))
    BY <1>5, <1>7, <2>3, FS_Subset
  <2>5. /\ Cardinality(OnSome(S, won) \cup losses)
             = Cardinality(OnSome(S, won)) + Cardinality(losses) - Cardinality(OnSome(S, won) \cap losses)
        /\ Cardinality(OnSome(S, won)) \in Nat /\ Cardinality(losses) \in Nat
    BY <2>4, FS_Union, FS_CardinalityType
  <2>6. Cardinality(OnSome(S, won) \cap losses) = 0
    BY <2>2, FS_EmptySet
  <2>7. Cardinality(OnSome(S, won) \cup losses) <= Cardinality(S)
    <3>1. OnSome(S, won) \cup losses \subseteq S
      BY <1>7, <2>3
    <3> QED BY <1>5, <3>1, FS_Subset
  <2> QED BY <1>1, <1>7, <2>5, <2>6, <2>7
<1> QED BY <1>1, <1>2, <1>8, <1>9

-----------------------------------------------------------------------------
(* Days. *)

-----------------------------------------------------------------------------
(* Whole days, before and after a date. *)

\* A day later is at least a day's length later.
LEMMA Larger ==
  ASSUME NEW a \in Int, NEW b \in Int, NEW d \in Nat \ {0}, a < b
  PROVE  d * a + d <= d * b
<1>1. PICK c \in Nat : b = a + 1 + c
  <2>1. b - a - 1 \in Nat /\ b = a + 1 + (b - a - 1)
    OBVIOUS
  <2> QED BY <2>1
<1>2. d * b = d * a + d + d * c
  BY <1>1
<1>3. d * c \in Nat /\ d * a \in Int
  OBVIOUS
<1> QED BY <1>2, <1>3

\* The day of a time,
LEMMA DaysIn ==
  ASSUME NEW a \in Int, NEW d \in Nat \ {0}
  PROVE  a \div d \in Int /\ d * (a \div d) \in Int /\ d * (a \div d) <= a /\ a < d * (a \div d) + d
<1>1. a \div d \in Int /\ a % d \in 0 .. d - 1
  OBVIOUS
<1>2. a = d * (a \div d) + (a % d)
  OBVIOUS
<1>3. d * (a \div d) \in Int
  BY <1>1
<1> QED BY <1>1, <1>2, <1>3

\* which does not fall as time goes on,
LEMMA DaysGrow ==
  ASSUME NEW a \in Int, NEW b \in Int, NEW d \in Nat \ {0}, a <= b
  PROVE  a \div d <= b \div d
<1> DEFINE x == a \div d
           y == b \div d
<1>1. x \in Int /\ d * x \in Int /\ d * x <= a /\ y \in Int /\ d * y \in Int /\ b < d * y + d
  BY DaysIn
<1> HIDE DEF x, y
<1>2. y < x => d * y + d <= d * x
  BY <1>1, Larger
<1>3. x <= y
  BY <1>1, <1>2
<1> QED BY <1>3 DEF x, y

\* and is the next one a day's length later.
LEMMA DaysNext ==
  ASSUME NEW a \in Int, NEW d \in Nat \ {0}
  PROVE  (a + d) \div d = (a \div d) + 1
<1> DEFINE x == (a + d) \div d
           y == a \div d
           z == y + 1
<1>1. a + d \in Int
  OBVIOUS
<1>2. /\ x \in Int /\ d * x \in Int /\ d * x <= a + d /\ a + d < d * x + d
      /\ y \in Int /\ d * y \in Int /\ d * y <= a /\ a < d * y + d
  BY <1>1, DaysIn
<1> HIDE DEF x, y
<1>3. z \in Int /\ d * z = d * y + d
  BY <1>2
<1> HIDE DEF z
<1>4. (x < z => d * x + d <= d * z) /\ (z < x => d * z + d <= d * x)
  BY <1>2, <1>3, Larger
<1>5. x = z
  BY <1>2, <1>3, <1>4
<1> QED BY <1>5 DEF x, y, z

\* A finite set of integers has a least and a greatest element.
HasEnds(s) == (\E x \in s : \A y \in s : x <= y) /\ (\E x \in s : \A y \in s : x >= y)

\* The ends of a finite set of integers.
LEMMA EndsOf ==
  ASSUME NEW S, S \subseteq Int, IsFiniteSet(S), S # {}
  PROVE  /\ Min(S) \in S /\ \A y \in S : Min(S) <= y
         /\ Max(S) \in S /\ \A y \in S : Max(S) >= y
<1> DEFINE P == {s \in SUBSET S : s # {} => HasEnds(s)}
<1>1. ASSUME NEW s \in SUBSET S, \A t \in SUBSET s : t # s => t \in P
      PROVE  s \in P
  <2> SUFFICES ASSUME s # {} PROVE HasEnds(s)
    OBVIOUS
  <2>1. PICK z \in s : TRUE
    OBVIOUS
  <2> DEFINE t == s \ {z}
  <2>2. t \in P /\ t \subseteq Int /\ z \in Int /\ s = t \cup {z} /\ s \subseteq Int
    BY <1>1
  <2>3. CASE t = {}
    <3>1. s = {z}
      BY <2>2, <2>3
    <3> QED BY <2>2, <3>1 DEF HasEnds
  <2>4. CASE t # {}
    <3>1. HasEnds(t)
      BY <2>2, <2>4
    <3> HIDE DEF t
    <3>2. PICK x \in t : \A y \in t : x <= y
      BY <3>1 DEF HasEnds
    <3>3. PICK u \in t : \A y \in t : u >= y
      BY <3>1 DEF HasEnds
    <3>4. \E v \in s : \A y \in s : v <= y
      <4>1. CASE x <= z
        BY <2>2, <3>2, <4>1
      <4>2. CASE z < x
        BY <2>2, <3>2, <4>2
      <4> QED BY <2>2, <4>1, <4>2
    <3>5. \E v \in s : \A y \in s : v >= y
      <4>1. CASE u >= z
        BY <2>2, <3>3, <4>1
      <4>2. CASE z > u
        BY <2>2, <3>3, <4>2
      <4> QED BY <2>2, <4>1, <4>2
    <3> QED BY <3>4, <3>5 DEF HasEnds
  <2> QED BY <2>3, <2>4
<1> HIDE DEF P
<1>2. SUBSET S \subseteq P
  BY <1>1, SubsetInduction
<1>3. HasEnds(S)
  BY <1>2 DEF P
<1>4. Min(S) \in S /\ \A y \in S : Min(S) <= y
  BY <1>3 DEF Min, HasEnds
<1>5. Max(S) \in S /\ \A y \in S : Max(S) >= y
  BY <1>3 DEF Max, HasEnds
<1> QED BY <1>4, <1>5

-----------------------------------------------------------------------------
(* The summary of sources by day. *)

AnchorOf(q) == IF q.from # Null THEN q.from ELSE TodayStart
ColumnsOf(q, points) == LET w == dayWindow(q, points, AnchorOf(q)) IN w[1] .. w[2]
DailyCell(points, anchor, s, d) ==
  Cardinality({p.lead.id : p \in {x \in points : /\ sourceLabel(x.lead) = s
                                                  /\ DayOf(x.at, anchor) = d}})
SourcesIn(points, anchor, columns) ==
  {sourceLabel(p.lead) : p \in {x \in points : DayOf(x.at, anchor) \in columns}}
DailyCounts(points, anchor, columns) ==
  [d \in columns |-> SumFunction([s \in SourcesIn(points, anchor, columns) |-> DailyCell(points, anchor, s, d)])]
SourceCounts(points, anchor, columns) ==
  [s \in SourcesIn(points, anchor, columns) |-> SumFunction([d \in columns |-> DailyCell(points, anchor, s, d)])]

SourceDaysTold ==
  Is("sourceSummary") =>
    LET q == answer.query  points == Points(answer.me, q)  columns == ColumnsOf(q, points) IN
    /\ q \in Queries
    /\ answer.days = DailyCounts(points, AnchorOf(q), columns)
    /\ answer.sources = SourceCounts(points, AnchorOf(q), columns)

\* The handler says so.
LEMMA SourceDaysTelling ==
  ASSUME NEW me, NEW q \in Queries, leadSourceSummary(me, q)
  PROVE  SourceDaysTold'
<1> DEFINE anchor == IF q.from # Null THEN q.from ELSE TodayStart
           points == Points(me, q)
           window == dayWindow(q, points, anchor)
           columns == window[1] .. window[2]
           cell(s, d) == Cardinality({p.lead.id : p \in {x \in points : /\ sourceLabel(x.lead) = s
                                                                         /\ DayOf(x.at, anchor) = d}})
           shown == {sourceLabel(p.lead) : p \in {x \in points : DayOf(x.at, anchor) \in columns}}
           fields ==
             [days |-> [d \in columns |-> SumFunction([s \in shown |-> cell(s, d)])],
              sources |-> [s \in shown |-> SumFunction([d \in columns |-> cell(s, d)])]]
<1>1. Say("sourceSummary", me, q, fields)
  BY DEF leadSourceSummary
<1>2. /\ table' = table /\ answer'.me = me /\ answer'.query = q
      /\ \A x \in DOMAIN fields \ {"report", "me", "query"} : answer'[x] = fields[x]
  <2> HIDE DEF fields
  <2> QED BY <1>1, Saying
<1>3. answer'.days = fields.days /\ answer'.sources = fields.sources
  <2>1. {"days", "sources"} \subseteq DOMAIN fields \ {"report", "me", "query"}
    OBVIOUS
  <2> HIDE DEF fields
  <2> QED BY <1>2, <2>1
<1>4. anchor = AnchorOf(q) /\ columns = ColumnsOf(q, points)
  BY DEF AnchorOf, ColumnsOf
<1> HIDE DEF anchor, points, window, columns
<1>5. \A s, d : cell(s, d) = DailyCell(points, anchor, s, d)
  BY DEF DailyCell
<1>6. shown = SourcesIn(points, anchor, columns)
  BY DEF SourcesIn
<1> HIDE DEF cell, shown
<1>7. /\ answer'.days = DailyCounts(points, anchor, columns)
      /\ answer'.sources = SourceCounts(points, anchor, columns)
  BY <1>3, <1>5, <1>6 DEF DailyCounts, SourceCounts
<1> HIDE DEF fields
<1>8. points = Points(answer.me, answer.query)'
  BY <1>2 DEF points, Points, assignedInPeriod, leads
<1>9. anchor = AnchorOf(answer.query)'
  BY <1>2, <1>4 DEF AnchorOf
<1>10. columns = ColumnsOf(answer.query, Points(answer.me, answer.query))'
  BY <1>2, <1>4, <1>8 DEF ColumnsOf, AnchorOf, dayWindow
<1>11. DailyCounts(points, anchor, columns)
         = DailyCounts(Points(answer.me, answer.query), AnchorOf(answer.query),
                       ColumnsOf(answer.query, Points(answer.me, answer.query)))'
  BY <1>8, <1>9, <1>10 DEF DailyCounts, SourcesIn, DailyCell
<1>12. SourceCounts(points, anchor, columns)
         = SourceCounts(Points(answer.me, answer.query), AnchorOf(answer.query),
                        ColumnsOf(answer.query, Points(answer.me, answer.query)))'
  BY <1>8, <1>9, <1>10 DEF SourceCounts, SourcesIn, DailyCell
<1> QED BY <1>2, <1>7, <1>11, <1>12 DEF SourceDaysTold

\* The points are finite in number, and on a lead each.
LEMMA PointsAre ==
  ASSUME table \in Tables, NEW me, NEW q
  PROVE  /\ IsFiniteSet(Points(me, q))
         /\ \A p \in Points(me, q) : p.lead \in leads /\ p.at \in Nat
         /\ ~q.assigned => \A p \in Points(me, q) : p.at = p.lead.createdAt
<1> DEFINE given == assignedInPeriod(me, q)
           X == {x \in leads : leadScopeWhere(me, x, FALSE) /\ Within(x.createdAt, q.from, q.to)}
           G == {[at |-> x[2].at, lead |-> x[1]] : x \in given}
           M == {[at |-> l.createdAt, lead |-> l] : l \in X}
<1>1. \A l \in leads : l.createdAt \in Nat
  BY TablesAssumption, RowsAssumption DEF leads
<1>2. Points(me, q) = IF q.assigned THEN G ELSE M
  BY DEF Points
<1>3. IsFiniteSet(given) /\ \A x \in given : x[1] \in leads /\ x[2].at \in Nat
  BY AssignedFinite
<1>4. IsFiniteSet(X) /\ X \subseteq leads
  BY LeadsKeyed, FS_Subset
<1> HIDE DEF given, X
<1>5. IsFiniteSet(G) /\ \A p \in G : p.lead \in leads /\ p.at \in Nat
  <2>1. [x \in given |-> [at |-> x[2].at, lead |-> x[1]]] \in Surjection(given, G)
    BY DEF Surjection
  <2>2. IsFiniteSet(G)
    <3> HIDE DEF G
    <3> QED BY <1>3, <2>1, FS_Surjection
  <2> QED BY <1>3, <2>2
<1>6. IsFiniteSet(M) /\ \A p \in M : p.lead \in leads /\ p.at \in Nat /\ p.at = p.lead.createdAt
  <2>1. [l \in X |-> [at |-> l.createdAt, lead |-> l]] \in Surjection(X, M)
    BY DEF Surjection
  <2>2. IsFiniteSet(M)
    <3> HIDE DEF M
    <3> QED BY <1>4, <2>1, FS_Surjection
  <2> QED BY <1>1, <1>4, <2>2
<1> HIDE DEF G, M
<1> QED BY <1>2, <1>5, <1>6

\* The columns are days, and finite in number.
LEMMA ColumnsAre ==
  ASSUME NEW q \in Queries, NEW points, IsFiniteSet(points), \A p \in points : p.at \in Nat
  PROVE  /\ AnchorOf(q) \in Nat
         /\ \A p \in points : DayOf(p.at, AnchorOf(q)) \in Int
         /\ IsFiniteSet(ColumnsOf(q, points)) /\ ColumnsOf(q, points) \subseteq Int
         /\ Cardinality(ColumnsOf(q, points)) < MaxDays =>
              /\ q.from # Null /\ q.to # Null =>
                   ColumnsOf(q, points) = 0 .. Later(0, (q.to - q.from + Day - 1) \div Day - 1)
              /\ ~(q.from # Null /\ q.to # Null) =>
                   \A p \in points : DayOf(p.at, AnchorOf(q)) \in ColumnsOf(q, points)
<1> DEFINE anchor == AnchorOf(q)
           columns == ColumnsOf(q, points)
           w == dayWindow(q, points, anchor)
           days == {DayOf(p.at, anchor) : p \in points}
<1>1. anchor \in Nat /\ Day \in Nat \ {0} /\ TodayStart \in Nat /\ MaxDays \in Nat \ {0} /\ Null \notin Nat
  <2>1. q.from # Null => q.from \in Nat
    BY AskedAssumption
  <2> QED BY <2>1, ClockAssumption, DayEdges, ColumnsAssumption, StaffAssumption DEF AnchorOf
<1>2. columns = w[1] .. w[2]
  BY DEF ColumnsOf
<1> HIDE DEF anchor, columns
<1>3. \A a \in Nat : DayOf(a, anchor) \in Int
  <2> SUFFICES ASSUME NEW a \in Nat PROVE DayOf(a, anchor) \in Int
    OBVIOUS
  <2>1. a - anchor \in Int
    BY <1>1
  <2> QED BY <1>1, <2>1, DaysIn DEF DayOf
<1>4. \A p \in points : DayOf(p.at, anchor) \in Int
  BY <1>3
<1>5. IsFiniteSet(days) /\ days \subseteq Int /\ (points # {} => days # {})
  <2>1. [p \in points |-> DayOf(p.at, anchor)] \in Surjection(points, days)
    BY DEF Surjection
  <2>2. IsFiniteSet(days)
    <3> HIDE DEF days
    <3> QED BY <2>1, FS_Surjection
  <2> QED BY <1>4, <2>2
<1>6. CASE q.from # Null /\ q.to # Null
  <2> DEFINE ahead == (q.to - anchor + Day - 1) \div Day - 1
             last == Later(0, ahead)
             final == IF last < MaxDays THEN last ELSE MaxDays - 1
  <2>1. q.from \in Nat /\ q.to \in Nat /\ anchor = q.from
    BY <1>6, AskedAssumption DEF anchor, AnchorOf
  <2>2. ahead \in Int
    <3>1. q.to - anchor + Day - 1 \in Int
      BY <1>1, <2>1
    <3>2. (q.to - anchor + Day - 1) \div Day \in Int
      BY <1>1, <3>1, DaysIn
    <3> QED BY <3>2
  <2>3. w = <<0, final>>
    BY <1>6 DEF dayWindow
  <2>4. last \in Int /\ last >= 0
    <3> HIDE DEF ahead
    <3> QED BY <2>2 DEF Later
  <2> HIDE DEF last, ahead, w
  <2>5. final \in Int /\ final >= 0 /\ columns = 0 .. final
    BY <1>1, <1>2, <2>3, <2>4
  <2>6. IsFiniteSet(columns) /\ Cardinality(columns) = final + 1
    <3> HIDE DEF final
    <3>1. 0 \in Int /\ final \in Int
      BY <2>5
    <3>2. IsFiniteSet(0 .. final) /\ Cardinality(0 .. final) = IF 0 > final THEN 0 ELSE final - 0 + 1
      BY <3>1, FS_Interval
    <3> QED BY <2>5, <3>2
  <2>7. Cardinality(columns) < MaxDays => final = last
    BY <1>1, <2>4, <2>6
  <2>8. columns \subseteq Int
    BY <2>5
  <2>9. Cardinality(columns) < MaxDays => columns = 0 .. Later(0, (q.to - q.from + Day - 1) \div Day - 1)
    BY <2>1, <2>5, <2>7 DEF last, ahead
  <2> HIDE DEF final
  <2> QED BY <1>1, <1>4, <1>6, <2>6, <2>8, <2>9 DEF anchor, columns
<1>7. CASE ~(q.from # Null /\ q.to # Null) /\ points = {}
  <2> DEFINE d == DayOf(TodayStart, anchor)
  <2>1. w = <<d, d>>
    BY <1>7 DEF dayWindow
  <2>2. d \in Int
    BY <1>1, <1>3
  <2> HIDE DEF d, w
  <2>3. columns = d .. d
    BY <1>2, <2>1
  <2>4. IsFiniteSet(columns) /\ columns \subseteq Int
    <3>1. IsFiniteSet(d .. d)
      BY <2>2, FS_Interval
    <3> QED BY <2>2, <2>3, <3>1
  <2> QED BY <1>1, <1>7, <2>4 DEF anchor, columns
<1>8. CASE ~(q.from # Null /\ q.to # Null) /\ points # {}
  <2> DEFINE first == Later(Min(days), Max(days) - MaxDays + 1)
             final == Max(days)
  <2>1. w = <<first, final>>
    BY <1>8 DEF dayWindow
  <2>2. /\ Min(days) \in Int /\ final \in Int /\ Min(days) <= final
        /\ \A y \in days : Min(days) <= y /\ y <= final
    <3> HIDE DEF days
    <3> QED BY <1>5, <1>8, EndsOf
  <2> HIDE DEF final, w, days
  <2>3. first \in Int /\ first <= final /\ (first = Min(days) \/ first = final - MaxDays + 1)
    BY <1>1, <2>2 DEF Later, final
  <2> HIDE DEF first
  <2>4. columns = first .. final
    BY <1>2, <2>1
  <2>5. IsFiniteSet(columns) /\ Cardinality(columns) = final - first + 1
    <3>1. IsFiniteSet(first .. final)
          /\ Cardinality(first .. final) = IF first > final THEN 0 ELSE final - first + 1
      BY <2>2, <2>3, FS_Interval
    <3> QED BY <2>2, <2>3, <2>4, <3>1
  <2>6. Cardinality(columns) < MaxDays => first = Min(days)
    BY <1>1, <2>2, <2>3, <2>5
  <2>7. Cardinality(columns) < MaxDays => \A y \in days : y \in columns
    BY <1>5, <2>2, <2>4, <2>6
  <2>8. \A p \in points : DayOf(p.at, anchor) \in days
    BY DEF days
  <2>9. columns \subseteq Int
    BY <2>4
  <2> QED BY <1>1, <1>4, <1>8, <2>5, <2>7, <2>8, <2>9 DEF anchor, columns
<1> QED BY <1>6, <1>7, <1>8

\* The leads created in a period, and the days they were created on.
LEMMA PeriodLeads ==
  ASSUME NEW me, NEW q, NEW l
  PROVE  l \in ByStatus(me, Period(q)) <=>
           l \in leads /\ leadScopeWhere(me, l, FALSE) /\ Within(l.createdAt, q.from, q.to)
<1> DEFINE p == Period(q)
<1>1. Complete(p) /\ p.from = q.from /\ p.to = q.to /\ \A f \in QueryNames \ {"from", "to"} : p[f] = Query[f]
  BY PeriodIs
<1>2. /\ p.search = Null /\ p.conditions = {} /\ p.source = {} /\ p.agent = {} /\ p.tag = {}
      /\ p.pipeline = Null /\ ~p.unassigned /\ ~p.todays /\ ~p.overdue /\ ~p.noActivity /\ p.day = Null
      /\ p.status = {} /\ p.team = {} /\ p.dateField = "created"
  BY <1>1, NothingChosen DEF QueryNames
<1> HIDE DEF p
<1>3. Suits(me, l, p) <=> leadScopeWhere(me, l, FALSE)
  BY <1>2 DEF Suits, leadSearchWhere, OneOf, Some
<1>4. l \in ByStatus(me, p) <=> /\ l \in leads /\ Suits(me, l, p) /\ OneOf(p.status, l.status)
                                /\ teamWhere(l, p.team) /\ Timed(l, p)
  BY <1>1, ByStatusIs
<1> QED BY <1>1, <1>2, <1>3, <1>4 DEF p, Timed, OneOf, teamWhere, Some

\* A lead of the period falls on a day of the columns, unless they are cut short.
LEMMA DaysHold ==
  ASSUME table \in Tables, NEW me, NEW q \in Queries, ~q.assigned,
         Cardinality(ColumnsOf(q, Points(me, q))) < MaxDays, NEW l \in ByStatus(me, Period(q))
  PROVE  DayOf(l.createdAt, AnchorOf(q)) \in ColumnsOf(q, Points(me, q))
<1> DEFINE points == Points(me, q)
           x == [at |-> l.createdAt, lead |-> l]
<1>1. IsFiniteSet(points) /\ \A p \in points : p.at \in Nat
  BY PointsAre
<1>2. l \in leads /\ leadScopeWhere(me, l, FALSE) /\ Within(l.createdAt, q.from, q.to)
  BY PeriodLeads
<1>3. x \in points /\ x.at = l.createdAt
  BY <1>2 DEF Points
<1>4. l.createdAt \in Nat
  BY <1>1, <1>3
<1> HIDE DEF points, x
<1>5. CASE ~(q.from # Null /\ q.to # Null)
  BY <1>1, <1>3, <1>5, ColumnsAre DEF points
<1>6. CASE q.from # Null /\ q.to # Null
  <2> DEFINE c == l.createdAt - q.from
             e == q.to - q.from - 1
             ahead == (q.to - q.from + Day - 1) \div Day - 1
  <2>1. q.from \in Nat /\ q.to \in Nat /\ AnchorOf(q) = q.from /\ Day \in Nat \ {0}
    BY <1>6, AskedAssumption, ClockAssumption DEF AnchorOf
  <2>2. c \in Int /\ e \in Int /\ 0 <= c /\ c <= e
    BY <1>2, <1>4, <1>6, <2>1 DEF Within
  <2>3. ColumnsOf(q, points) = 0 .. Later(0, ahead)
    BY <1>1, <1>6, ColumnsAre DEF points
  <2>4. q.to - q.from + Day - 1 = e + Day
    BY <2>1
  <2> HIDE DEF e
  <2>5. ahead = e \div Day
    <3>1. (e + Day) \div Day = (e \div Day) + 1 /\ e \div Day \in Int
      BY <2>1, <2>2, DaysNext, DaysIn
    <3> QED BY <2>4, <3>1
  <2> HIDE DEF ahead
  <2>6. DayOf(l.createdAt, AnchorOf(q)) = c \div Day
    BY <2>1 DEF DayOf
  <2> HIDE DEF c
  <2>7. c \div Day \in Int /\ e \div Day \in Int /\ c \div Day <= e \div Day
    BY <2>1, <2>2, DaysIn, DaysGrow
  <2>8. c \div Day >= 0
    <3>1. c \in Nat
      BY <2>2
    <3> QED BY <2>1, <3>1, DivIs
  <2>9. Later(0, ahead) = e \div Day
    BY <2>5, <2>7, <2>8 DEF Later
  <2> QED BY <2>3, <2>6, <2>7, <2>8, <2>9 DEF points
<1> QED BY <1>5, <1>6

\* A cell counts the leads created on its day, of its source.
LEMMA CellsAre ==
  ASSUME table \in Tables, NEW me, NEW q, NEW anchor, NEW s, NEW d
  PROVE  /\ DailyCell(Points(me, q), anchor, s, d) \in Nat
         /\ ~q.assigned =>
              DailyCell(Points(me, q), anchor, s, d)
                = Cardinality({l \in ByStatus(me, Period(q)) : sourceLabel(l) = s /\ DayOf(l.createdAt, anchor) = d})
<1> DEFINE points == Points(me, q)
           X == {x \in points : sourceLabel(x.lead) = s /\ DayOf(x.at, anchor) = d}
           I == {p.lead.id : p \in X}
           S == {l \in ByStatus(me, Period(q)) : sourceLabel(l) = s /\ DayOf(l.createdAt, anchor) = d}
<1>1. DailyCell(points, anchor, s, d) = Cardinality(I)
  BY DEF DailyCell
<1>2. IsFiniteSet(points)
  BY PointsAre
<1>3. IsFiniteSet(X)
  BY <1>2, FS_Subset
<1>4. IsFiniteSet(I)
  <2>1. [p \in X |-> p.lead.id] \in Surjection(X, I)
    BY DEF Surjection
  <2> HIDE DEF X, I
  <2> QED BY <1>3, <2>1, FS_Surjection
<1>5. Cardinality(I) \in Nat
  <2> HIDE DEF I
  <2> QED BY <1>4, FS_CardinalityType
<1>6. ASSUME ~q.assigned
      PROVE  Cardinality(I) = Cardinality(S)
  <2>1. points = {[at |-> l.createdAt, lead |-> l] : l \in ByStatus(me, Period(q))}
    <3>1. points = {[at |-> l.createdAt, lead |-> l] :
                      l \in {x \in leads : /\ leadScopeWhere(me, x, FALSE)
                                           /\ Within(x.createdAt, q.from, q.to)}}
      BY <1>6 DEF Points
    <3>2. {x \in leads : leadScopeWhere(me, x, FALSE) /\ Within(x.createdAt, q.from, q.to)}
          = ByStatus(me, Period(q))
      <4>1. ByStatus(me, Period(q)) \subseteq leads
        BY PeriodLeads
      <4> QED BY <4>1, PeriodLeads
    <3> HIDE DEF points
    <3> QED BY <3>1, <3>2
  <2>2. S \subseteq leads
    BY PeriodLeads
  <2>3. IsFiniteSet(S)
    BY <2>2, LeadsKeyed, FS_Subset
  <2> HIDE DEF points
  <2>4. I = Ids(S)
    <3>1. \A i \in I : i \in Ids(S)
      BY <2>1 DEF Ids
    <3>2. ASSUME NEW i \in Ids(S) PROVE i \in I
      <4>1. PICK l \in S : i = l.id
        BY DEF Ids
      <4> DEFINE x == [at |-> l.createdAt, lead |-> l]
      <4>2. x \in points /\ x.lead = l /\ x.at = l.createdAt
        BY <2>1
      <4> HIDE DEF x
      <4>3. x \in X
        BY <4>2
      <4> QED BY <4>1, <4>2, <4>3
    <3> HIDE DEF I, S
    <3> QED BY <3>1, <3>2
  <2> HIDE DEF S, I
  <2>5. Cardinality(Ids(S)) = Cardinality(S)
    <3>1. [l \in S |-> l.id] \in Bijection(S, Ids(S))
      BY <2>2, LeadsKeyed DEF Bijection, Injection, Surjection, IsInjective, Ids
    <3>2. ExistsBijection(S, Ids(S))
      BY <3>1 DEF ExistsBijection
    <3> QED BY <2>3, <3>2, FS_Bijection
  <2> QED BY <2>4, <2>5
<1> HIDE DEF I, S, points
<1> QED BY <1>1, <1>5, <1>6 DEF points, S

\* Finitely many sources.
LEMMA SourcesInFinite ==
  ASSUME NEW points, IsFiniteSet(points), NEW anchor, NEW columns
  PROVE  IsFiniteSet(SourcesIn(points, anchor, columns))
<1> DEFINE X == {x \in points : DayOf(x.at, anchor) \in columns}
           K == {sourceLabel(p.lead) : p \in X}
<1>1. IsFiniteSet(X)
  BY FS_Subset
<1>2. [p \in X |-> sourceLabel(p.lead)] \in Surjection(X, K)
  BY DEF Surjection
<1>3. IsFiniteSet(K)
  <2> HIDE DEF X, K
  <2> QED BY <1>1, <1>2, FS_Surjection
<1> QED BY <1>3 DEF SourcesIn

\* The days and the sources add up to the same.
LEMMA DaysMeetSources ==
  ASSUME table \in Tables, NEW me, NEW q \in Queries
  PROVE  LET points == Points(me, q)  columns == ColumnsOf(q, points) IN
         SumFunction(DailyCounts(points, AnchorOf(q), columns)) = SumFunction(SourceCounts(points, AnchorOf(q), columns))
<1> DEFINE points == Points(me, q)
           anchor == AnchorOf(q)
           columns == ColumnsOf(q, points)
           shown == SourcesIn(points, anchor, columns)
           c == [x \in columns \X shown |-> DailyCell(points, anchor, x[2], x[1])]
           row(d) == [s \in shown |-> DailyCell(points, anchor, s, d)]
           col(s) == [d \in columns |-> DailyCell(points, anchor, s, d)]
<1>1. IsFiniteSet(points) /\ \A p \in points : p.at \in Nat
  BY PointsAre
<1>2. IsFiniteSet(columns)
  <2> HIDE DEF points
  <2> QED BY <1>1, ColumnsAre
<1>3. \A s, d : DailyCell(points, anchor, s, d) \in Nat
  BY CellsAre
<1> HIDE DEF points, anchor, columns
<1>4. IsFiniteSet(shown)
  BY <1>1, SourcesInFinite
<1> HIDE DEF shown
<1>5. \A d \in columns, s \in shown : c[<<d, s>>] = DailyCell(points, anchor, s, d) /\ c[<<d, s>>] \in Nat
  BY <1>3
<1>6. \A d \in columns : SumFunction(row(d)) = SumFunctionOnSet([s \in shown |-> c[<<d, s>>]], shown)
  <2> SUFFICES ASSUME NEW d \in columns
               PROVE  SumFunction(row(d)) = SumFunctionOnSet([s \in shown |-> c[<<d, s>>]], shown)
    OBVIOUS
  <2>1. row(d) = [s \in shown |-> c[<<d, s>>]] /\ DOMAIN row(d) = shown
    BY <1>5
  <2> HIDE DEF row, c
  <2> QED BY <2>1 DEF SumFunction
<1>7. \A s \in shown : SumFunction(col(s)) = SumFunctionOnSet([d \in columns |-> c[<<d, s>>]], columns)
  <2> SUFFICES ASSUME NEW s \in shown
               PROVE  SumFunction(col(s)) = SumFunctionOnSet([d \in columns |-> c[<<d, s>>]], columns)
    OBVIOUS
  <2>1. col(s) = [d \in columns |-> c[<<d, s>>]] /\ DOMAIN col(s) = columns
    BY <1>5
  <2> HIDE DEF col, c
  <2> QED BY <2>1 DEF SumFunction
<1> HIDE DEF c
<1>8. SumFunctionOnSet([d \in columns |-> SumFunctionOnSet([s \in shown |-> c[<<d, s>>]], shown)], columns)
      = SumFunctionOnSet([s \in shown |-> SumFunctionOnSet([d \in columns |-> c[<<d, s>>]], columns)], shown)
  BY <1>2, <1>4, <1>5, SumsCross
<1>9. DailyCounts(points, anchor, columns) = [d \in columns |-> SumFunction(row(d))]
  BY DEF DailyCounts, shown
<1>10. SourceCounts(points, anchor, columns) = [s \in shown |-> SumFunction(col(s))]
  BY DEF SourceCounts, shown
<1> HIDE DEF row, col
<1>11. [d \in columns |-> SumFunction(row(d))] = [d \in columns |-> SumFunctionOnSet([s \in shown |-> c[<<d, s>>]], shown)]
  BY <1>6
<1>12. [s \in shown |-> SumFunction(col(s))] = [s \in shown |-> SumFunctionOnSet([d \in columns |-> c[<<d, s>>]], columns)]
  BY <1>7
<1>13. /\ SumFunction([d \in columns |-> SumFunction(row(d))])
            = SumFunctionOnSet([d \in columns |-> SumFunctionOnSet([s \in shown |-> c[<<d, s>>]], shown)], columns)
       /\ SumFunction([s \in shown |-> SumFunction(col(s))])
            = SumFunctionOnSet([s \in shown |-> SumFunctionOnSet([d \in columns |-> c[<<d, s>>]], columns)], shown)
  BY <1>11, <1>12 DEF SumFunction
<1> QED BY <1>8, <1>9, <1>10, <1>13 DEF points, anchor, columns

\* What shows all the leads of the period counts them.
LEMMA DaysCount ==
  ASSUME table \in Tables, NEW me, NEW q \in Queries, ~q.assigned,
         Cardinality(ColumnsOf(q, Points(me, q))) < MaxDays
  PROVE  SumFunction(DailyCounts(Points(me, q), AnchorOf(q), ColumnsOf(q, Points(me, q))))
           = Cardinality(ByStatus(me, Period(q)))
<1> DEFINE points == Points(me, q)
           anchor == AnchorOf(q)
           columns == ColumnsOf(q, points)
           shown == SourcesIn(points, anchor, columns)
           X == ByStatus(me, Period(q))
           G == DailyCounts(points, anchor, columns)
           day == [l \in X |-> DayOf(l.createdAt, anchor)]
<1>1. IsFiniteSet(points) /\ \A p \in points : p.at \in Nat
  BY PointsAre
<1>2. IsFiniteSet(columns)
  <2> HIDE DEF points
  <2> QED BY <1>1, ColumnsAre
<1>3. X \subseteq leads /\ \A l \in X : leadScopeWhere(me, l, FALSE) /\ Within(l.createdAt, q.from, q.to)
  BY PeriodLeads
<1>4. IsFiniteSet(X)
  <2> HIDE DEF X
  <2> QED BY <1>3, LeadsKeyed, FS_Subset
<1>5. \A l \in X : DayOf(l.createdAt, anchor) \in columns
  BY DaysHold
<1>6. \A l \in X : [at |-> l.createdAt, lead |-> l] \in points
  <2> HIDE DEF X
  <2> QED BY <1>3 DEF Points
<1>7. \A s, d : DailyCell(points, anchor, s, d)
                  = Cardinality({l \in X : sourceLabel(l) = s /\ DayOf(l.createdAt, anchor) = d})
  BY CellsAre
<1> HIDE DEF points, anchor, columns, X
<1>8. IsFiniteSet(shown)
  BY <1>1, SourcesInFinite
<1>9. \A l \in X : sourceLabel(l) \in shown
  <2> SUFFICES ASSUME NEW l \in X PROVE sourceLabel(l) \in shown
    OBVIOUS
  <2> DEFINE x == [at |-> l.createdAt, lead |-> l]
  <2>1. x \in points /\ x.lead = l /\ DayOf(x.at, anchor) \in columns
    BY <1>5, <1>6
  <2> HIDE DEF x
  <2> QED BY <2>1 DEF SourcesIn
<1> HIDE DEF shown
<1>10. \A d \in columns : G[d] = Cardinality({l \in X : day[l] = d})
  <2> SUFFICES ASSUME NEW d \in columns PROVE G[d] = Cardinality({l \in X : day[l] = d})
    OBVIOUS
  <2> DEFINE row == [s \in shown |-> DailyCell(points, anchor, s, d)]
             U == {l \in X : day[l] = d}
             lab == [l \in U |-> sourceLabel(l)]
  <2>1. G[d] = SumFunction(row)
    BY DEF DailyCounts, shown
  <2>2. IsFiniteSet(U) /\ U \subseteq X
    BY <1>4, FS_Subset
  <2>3. Labelled(lab, U, shown)
    BY <1>9 DEF Labelled
  <2>4. \A s \in shown : row[s] = Cardinality({l \in U : lab[l] = s})
    <3> SUFFICES ASSUME NEW s \in shown PROVE row[s] = Cardinality({l \in U : lab[l] = s})
      OBVIOUS
    <3>1. {l \in U : lab[l] = s} = {l \in X : sourceLabel(l) = s /\ DayOf(l.createdAt, anchor) = d}
      OBVIOUS
    <3>2. row[s] = DailyCell(points, anchor, s, d)
      OBVIOUS
    <3> HIDE DEF row, U, lab
    <3> QED BY <1>7, <3>1, <3>2
  <2>5. DOMAIN row = shown
    OBVIOUS
  <2> HIDE DEF row, U, lab, G, day
  <2>6. CountsLabels(row, lab, U, shown)
    BY <2>4 DEF CountsLabels
  <2>7. SumFunctionOnSet(row, shown) = Cardinality(U)
    BY <1>8, <2>2, <2>3, <2>6, CountByLabel
  <2> QED BY <2>1, <2>5, <2>7 DEF SumFunction, U
<1>11. DOMAIN G = columns
  BY DEF DailyCounts
<1>12. Labelled(day, X, columns)
  BY <1>5 DEF Labelled
<1> HIDE DEF G, day
<1>13. CountsLabels(G, day, X, columns)
  BY <1>10 DEF CountsLabels
<1>14. SumFunctionOnSet(G, columns) = Cardinality(X)
  BY <1>2, <1>4, <1>12, <1>13, CountByLabel
<1> QED BY <1>11, <1>14 DEF SumFunction, G, X, points, anchor, columns

\* Days and sources add up to the same, and to the leads of the report.
LEMMA SourceDaysAgree ==
  ASSUME table \in Tables, SourceDaysTold, Is("sourceSummary")
  PROVE  LET me == answer.me  q == answer.query IN
         /\ SumFunction(answer.days) = SumFunction(answer.sources)
         /\ ~q.assigned /\ Cardinality(DOMAIN answer.days) < MaxDays =>
              SumFunction(answer.days) = Cardinality(ByStatus(me, Period(q)))
<1> DEFINE me == answer.me
           q == answer.query
           points == Points(me, q)
           columns == ColumnsOf(q, points)
<1>1. /\ q \in Queries
      /\ answer.days = DailyCounts(points, AnchorOf(q), columns)
      /\ answer.sources = SourceCounts(points, AnchorOf(q), columns)
  BY DEF SourceDaysTold
<1> HIDE DEF me, q
<1>2. SumFunction(answer.days) = SumFunction(answer.sources)
  BY <1>1, DaysMeetSources
<1>3. DOMAIN answer.days = columns
  BY <1>1 DEF DailyCounts
<1>4. ~q.assigned /\ Cardinality(columns) < MaxDays => SumFunction(answer.days) = Cardinality(ByStatus(me, Period(q)))
  BY <1>1, DaysCount
<1> HIDE DEF points, columns
<1> QED BY <1>2, <1>3, <1>4 DEF me, q

\* The boards match the reports.
LEMMA BoardsFit ==
  ASSUME table \in Tables, ConversionTold, SourceDaysTold, AttentionTold, FunnelTold, StagesTold
  PROVE  BoardsMatchReports
BY ConversionAgrees, SourceDaysAgree, AttentionAgrees, FunnelAgrees, StagesAgree DEF BoardsMatchReports

-----------------------------------------------------------------------------
(* All of the figures. *)

-----------------------------------------------------------------------------
(* The figures at every answer. *)

FiguresIInv ==
  /\ table \in Tables
  /\ RevenueTold /\ LeaderboardTold
  /\ ConversionTold /\ SourceDaysTold /\ AttentionTold /\ FunnelTold /\ StagesTold
  /\ AnalyticsTold /\ CallRowsTold /\ SummaryTold /\ HistoryTold
  /\ TabsTold /\ TrackerTold /\ CountersTold

\* Every step keeps what the answers say.
LEMMA FiguresStep ==
  ASSUME FiguresIInv, [ReadsNext]_allVars
  PROVE  FiguresIInv'
<1>1. CASE NextReports \/ NextFollowUps \/ NextRevenue \/ NextCalls
  <2>1. table' = table
    BY <1>1, ReadsStep
  <2>2. RevenueTold'
    <3>1. CASE answer'.report = "revenue"
      BY <1>1, <3>1, QuestionOf, RevenueTelling
    <3> QED BY <3>1 DEF RevenueTold, Is
  <2>3. LeaderboardTold'
    <3>1. CASE answer'.report = "leaderboard"
      BY <1>1, <3>1, QuestionOf, LeaderboardTelling
    <3> QED BY <3>1 DEF LeaderboardTold, Is
  <2>4. ConversionTold'
    <3>1. CASE answer'.report = "conversion"
      BY <1>1, <3>1, QuestionOf, ConversionTelling
    <3> QED BY <3>1 DEF ConversionTold, Is
  <2>5. SourceDaysTold'
    <3>1. CASE answer'.report = "sourceSummary"
      BY <1>1, <3>1, QuestionOf, SourceDaysTelling
    <3> QED BY <3>1 DEF SourceDaysTold, Is
  <2>6. AttentionTold'
    <3>1. CASE answer'.report = "attention"
      BY <1>1, <3>1, QuestionOf, AttentionTelling
    <3> QED BY <3>1 DEF AttentionTold, Is
  <2>7. FunnelTold'
    <3>1. CASE answer'.report = "liveFunnel"
      BY <1>1, <3>1, QuestionOf, FunnelTelling
    <3> QED BY <3>1 DEF FunnelTold, Is
  <2>8. StagesTold'
    <3>1. CASE answer'.report = "stages"
      BY <1>1, <3>1, QuestionOf, StagesTelling
    <3> QED BY <3>1 DEF StagesTold, Is
  <2>9. AnalyticsTold'
    <3>1. CASE answer'.report = "analytics"
      BY <1>1, <3>1, QuestionOf, AnalyticsTelling
    <3> QED BY <3>1 DEF AnalyticsTold, Is
  <2>10. CallRowsTold'
    <3>1. CASE answer'.report = "callLeaderboard"
      BY <1>1, <3>1, QuestionOf, CallRowsTelling
    <3> QED BY <3>1 DEF CallRowsTold, Is
  <2>11. SummaryTold'
    <3>1. CASE answer'.report = "callSummary"
      BY <1>1, <3>1, QuestionOf, SummaryTelling
    <3> QED BY <3>1 DEF SummaryTold, Is
  <2>12. HistoryTold'
    <3>1. CASE answer'.report = "history"
      <4>1. PICK me \in Askers : \E number : callHistory(me, number)
        BY <1>1, <3>1, QuestionOf
      <4>2. PICK number : callHistory(me, number)
        BY <4>1
      <4> QED BY <4>2, HistoryTelling
    <3> QED BY <3>1 DEF HistoryTold, Is
  <2>13. TabsTold'
    <3>1. CASE answer'.report = "worklist"
      BY <1>1, <3>1, QuestionOf, TabsTelling
    <3> QED BY <3>1 DEF TabsTold, Is
  <2>14. TrackerTold'
    <3>1. CASE answer'.report = "tracker"
      BY <1>1, <3>1, QuestionOf, TrackerTelling
    <3> QED BY <3>1 DEF TrackerTold, Is
  <2>15. CountersTold'
    <3>1. CASE answer'.report = "kpis"
      BY <1>1, <3>1, QuestionOf, CountersTelling
    <3> QED BY <3>1 DEF CountersTold, Is
  <2> QED BY <2>1, <2>2, <2>3, <2>4, <2>5, <2>6, <2>7, <2>8, <2>9, <2>10, <2>11, <2>12, <2>13, <2>14,
             <2>15 DEF FiguresIInv
<1>2. CASE UNCHANGED readVars
  <2>1. table' = table /\ answer' = answer
    BY <1>2 DEF readVars
  <2>2. RevenueTold'
    BY <2>1 DEF FiguresIInv, RevenueTold, Is, leadsWhere, Base, leads
  <2>3. LeaderboardTold'
    BY <2>1 DEF FiguresIInv, LeaderboardTold, Is, assignedInPeriod, convertedInPeriod, leads
  <2>4. ConversionTold'
    BY <2>1 DEF FiguresIInv, ConversionTold, Is, WonOf, Base, leads
  <2>5. SourceDaysTold'
    BY <2>1 DEF FiguresIInv, SourceDaysTold, Is, Points, assignedInPeriod, leads
  <2>6. AttentionTold'
    BY <2>1 DEF FiguresIInv, AttentionTold, Is, LateOf, QuietOf, LostOf, OverdueReport, Scoped, Pairs, Base, leads
  <2>7. FunnelTold'
    BY <2>1 DEF FiguresIInv, FunnelTold, Is, OfBoard, Base, leads
  <2>8. StagesTold'
    BY <2>1 DEF FiguresIInv, StagesTold, Is, Base, leads
  <2>9. AnalyticsTold'
    BY <2>1 DEF FiguresIInv, AnalyticsTold, Is, OutcomeCounts, CallSources, PeriodCalls,
                CallsIn, CallScope, leads
  <2>10. CallRowsTold'
    BY <2>1 DEF FiguresIInv, CallRowsTold, Is, AgentRows, PeriodCalls, CallsIn, CallScope, leads
  <2>11. SummaryTold'
    BY <2>1 DEF FiguresIInv, SummaryTold, Is, metrics, CallsIn, CallScope, followUpsCompleted, Pairs,
                freshCalls, leads
  <2>12. HistoryTold'
    BY <2>1 DEF FiguresIInv, HistoryTold, Is, leads
  <2>13. TabsTold'
    BY <2>1 DEF FiguresIInv, TabsTold, Is, Tab, Base0, Scoped, Pairs, leads, Keys
  <2>14. TrackerTold'
    BY <2>1 DEF FiguresIInv, TrackerTold, Is, Scoped, Pairs, leads
  <2>15. CountersTold'
    BY <2>1 DEF FiguresIInv, CountersTold, Is, Converted, Lost, ByStatus, Base, OverdueReport, Scoped, Pairs,
                callsWhere, leads
  <2> QED BY <2>1, <2>2, <2>3, <2>4, <2>5, <2>6, <2>7, <2>8, <2>9, <2>10, <2>11, <2>12, <2>13, <2>14,
             <2>15 DEF FiguresIInv
<1> QED BY <1>1, <1>2 DEF ReadsNext, allVars

\* Money, conversions and calls add up to the same totals wherever they are shown, the tabs of the
\* worklist tile the follow-ups, and a counter is the length of its list.
THEOREM FiguresAddUpEverywhere == ReadsSpec => []FiguresAddUp
<1>1. ReadsInit => FiguresIInv
  BY DEF ReadsInit, ReadInit, FiguresIInv, RevenueTold, LeaderboardTold, ConversionTold, SourceDaysTold,
         AttentionTold, FunnelTold, StagesTold, AnalyticsTold, CallRowsTold, SummaryTold, HistoryTold,
         TabsTold, TrackerTold, CountersTold, Is, NoAnswer
<1>2. FiguresIInv /\ [ReadsNext]_allVars => FiguresIInv'
  BY FiguresStep
<1>3. FiguresIInv => FiguresAddUp
  <2> SUFFICES ASSUME FiguresIInv PROVE FiguresAddUp
    OBVIOUS
  <2>1. CountersMatchLists
    <3>1. Is("kpis") => CountersMatchLists
      BY CountersAgree DEF FiguresIInv
    <3> QED BY <3>1 DEF CountersMatchLists
  <2>2. RevenueAddsUp /\ BoardsMatchReports
    BY RevenueFit, BoardsFit DEF FiguresIInv
  <2>3. CallsAddUp /\ TabsTile
    BY CallsFit, TabsFit DEF FiguresIInv
  <2> QED BY <2>1, <2>2, <2>3 DEF FiguresAddUp
<1> QED BY <1>1, <1>2, <1>3, PTL DEF ReadsSpec

==============================================================================
