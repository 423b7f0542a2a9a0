----------------------------- MODULE TreesProofs ------------------------------
(***************************************************************************)
(* Lemmas about the trees of Trees, for rows of every number and shape:    *)
(* what the walk up from a row meets, and what a new row, a new parent and *)
(* a new order of the siblings do to it.                                   *)
(*                                                                         *)
(* The walk is a recursive function of the number of steps.  What it has   *)
(* met after all of them is found by induction over that number, which is  *)
(* taken here from the well-founded order of finite sets: the numbers that *)
(* a claim fails of would have a least one.                                *)
(***************************************************************************)
EXTENDS Trees, Integers, FiniteSetTheorems, WellFoundedInduction, TLAPS

-----------------------------------------------------------------------------
(* Induction up to a number, over the set of numbers it holds of. *)

\* What holds of 0, and of every number after one it holds of, holds up to N.
LEMMA Climb ==
  ASSUME NEW N \in Nat, NEW P, 0 \in P, \A k \in 0..N : k \in P /\ k < N => k + 1 \in P
  PROVE  0..N \subseteq P
<1> DEFINE Missed == (0..N) \ P
           Failing == {0..k : k \in Missed}
<1>1. SUFFICES ASSUME Missed # {} PROVE FALSE
  OBVIOUS
<1>2. IsFiniteSet(0..N)
  BY FS_Interval
<1>3. IsWellFoundedOn(StrictSubsetOrdering(0..N), FiniteSubsetsOf(0..N))
  BY <1>2, FS_StrictSubsetOrderingWellFounded
<1>4. Failing \subseteq FiniteSubsetsOf(0..N)
  <2>1. \A k \in Missed : 0..k \in SUBSET (0..N)
    OBVIOUS
  <2> QED BY <2>1, <1>2, FS_FiniteSubsetsOfFinite
<1>5. Failing # {}
  BY <1>1
<1>6. PICK A \in Failing : \A B \in Failing : <<B, A>> \notin StrictSubsetOrdering(0..N)
  <2> HIDE DEF Failing
  <2> QED BY <1>3, <1>4, <1>5, WFMin
<1>7. PICK k \in Missed : A = 0..k
  BY <1>6
<1>8. k \in 0..N /\ k # 0 /\ k \notin P
  BY <1>7
<1>9. k - 1 \in 0..N /\ k - 1 < N /\ (k - 1) + 1 = k
  BY <1>8
<1>10. k - 1 \notin P
  BY <1>8, <1>9
<1>11. 0..(k - 1) \in Failing
  BY <1>9, <1>10
<1>12. /\ 0..(k - 1) \in SUBSET (0..N) /\ 0..k \in SUBSET (0..N)
       /\ 0..(k - 1) \subseteq 0..k /\ 0..(k - 1) # 0..k
  <2>1. k \in 0..k /\ k \notin 0..(k - 1)
    BY <1>8
  <2> QED BY <1>8, <1>9, <2>1
<1> QED BY <1>6, <1>7, <1>11, <1>12 DEF StrictSubsetOrdering

Iterated(f, N, a, G) == \A k \in 0..N : f[k] = IF k = 0 THEN a ELSE G[f[k - 1]]

\* A function iterated N times has the values its recursive definition gives.
LEMMA Iterates ==
  ASSUME NEW N \in Nat, NEW T, NEW a \in T, NEW G \in [T -> T]
  PROVE  \E f \in [0..N -> T] : Iterated(f, N, a, G)
<1> DEFINE Up(f, j) == f \in [0..j -> T] /\ f[0] = a /\ \A k \in 1..j : f[k] = G[f[k - 1]]
           P == {j \in 0..N : \E h : Up(h, j)}
<1>1. 0 \in P
  <2>1. [k \in 0..0 |-> a] \in [0..0 -> T] /\ [k \in 0..0 |-> a][0] = a /\ 1..0 = {}
    OBVIOUS
  <2>2. Up([k \in 0..0 |-> a], 0)
    BY <2>1
  <2>3. \E h : Up(h, 0)
    <3> HIDE DEF Up
    <3> QED BY <2>2
  <2> QED BY <2>3
<1>2. ASSUME NEW j \in 0..N, j \in P, j < N PROVE j + 1 \in P
  <2>1. PICK f : Up(f, j)
    BY <1>2
  <2> DEFINE g == [k \in 0..(j + 1) |-> IF k = j + 1 THEN G[f[j]] ELSE f[k]]
  <2>2. j \in 0..j /\ f[j] \in T
    BY <2>1
  <2>3. g \in [0..(j + 1) -> T]
    BY <2>1, <2>2
  <2>4. g[0] = a
    BY <2>1
  <2>5. \A k \in 1..(j + 1) : g[k] = G[g[k - 1]]
    BY <2>1
  <2>6. Up(g, j + 1)
    BY <2>3, <2>4, <2>5
  <2>7. \E h : Up(h, j + 1)
    <3> HIDE DEF Up, g
    <3> QED BY <2>6
  <2> QED BY <2>7, <1>2
<1>3. N \in P
  <2> HIDE DEF P
  <2>1. 0..N \subseteq P
    BY <1>1, <1>2, Climb
  <2> QED BY <2>1
<1>4. PICK f : Up(f, N)
  BY <1>3
<1>5. f \in [0..N -> T] /\ \A k \in 0..N : f[k] = IF k = 0 THEN a ELSE G[f[k - 1]]
  BY <1>4
<1> QED BY <1>5 DEF Iterated


\* A finite set of integers has a greatest.
LEMMA MaxOfSet ==
  ASSUME NEW S, IsFiniteSet(S), S \subseteq Int, S # {}
  PROVE  Max(S) \in S /\ \A x \in S : x <= Max(S)
<1> DEFINE Topped(A) == \E m \in A : \A x \in A : m >= x
           Failing == {A \in SUBSET S : A # {} /\ ~Topped(A)}
<1>1. Failing = {}
  <2> SUFFICES ASSUME Failing # {} PROVE FALSE
    OBVIOUS
  <2>1. IsWellFoundedOn(StrictSubsetOrdering(S), FiniteSubsetsOf(S))
    BY FS_StrictSubsetOrderingWellFounded
  <2>2. Failing \subseteq FiniteSubsetsOf(S)
    BY FS_FiniteSubsetsOfFinite
  <2>3. PICK A \in Failing : \A B \in Failing : <<B, A>> \notin StrictSubsetOrdering(S)
    BY <2>1, <2>2, WFMin
  <2>4. PICK a \in A : TRUE
    OBVIOUS
  <2>5. A \ {a} \notin Failing
    BY <2>3, <2>4 DEF StrictSubsetOrdering
  <2>6. CASE A = {a}
    BY <2>4, <2>6
  <2>7. CASE A # {a}
    <3>1. PICK m \in A \ {a} : \A x \in A \ {a} : m >= x
      BY <2>5, <2>7, <2>4
    <3>2. m \in Int /\ a \in Int
      BY <2>4
    <3>3. CASE m >= a
      BY <3>1, <3>2, <3>3
    <3>4. CASE a > m
      <4>1. \A x \in A : a >= x
        BY <3>1, <3>2, <3>4
      <4> QED BY <4>1, <2>4
    <3> QED BY <3>2, <3>3, <3>4
  <2> QED BY <2>6, <2>7
<1>2. \E m \in S : \A x \in S : m >= x
  BY <1>1
<1> QED BY <1>2 DEF Max

-----------------------------------------------------------------------------
(* What is above a row. *)

\* The walk of Above, k parents up.
Walk(rows, n, f) ==
  f = [k \in 0..Cardinality(DOMAIN rows) |->
         IF k = 0 THEN {rows[n].parent}
         ELSE f[k - 1] \cup {rows[m].parent : m \in f[k - 1] \cap DOMAIN rows}]

\* What is above n is met by a walk of as many steps as there are rows.
LEMMA AboveWalks ==
  ASSUME NEW rows, IsFiniteSet(DOMAIN rows), NEW n \in DOMAIN rows
  PROVE  \E f : Walk(rows, n, f) /\ Above(rows, n) = f[Cardinality(DOMAIN rows)] \ {None}
<1> DEFINE N == Cardinality(DOMAIN rows)
           T == SUBSET {rows[m].parent : m \in DOMAIN rows}
           G == [S \in T |-> S \cup {rows[m].parent : m \in S \cap DOMAIN rows}]
           a == {rows[n].parent}
<1>1. N \in Nat
  BY FS_CardinalityType
<1>2. a \in T /\ G \in [T -> T]
  OBVIOUS
<1>3. PICK f \in [0..N -> T] : \A k \in 0..N : f[k] = IF k = 0 THEN a ELSE G[f[k - 1]]
  <2> HIDE DEF N, T, G, a
  <2>1. \E f \in [0..N -> T] : Iterated(f, N, a, G)
    BY <1>1, <1>2, Iterates
  <2> QED BY <2>1 DEF Iterated
<1>4. \A k \in 0..N :
        f[k] = IF k = 0 THEN a
               ELSE f[k - 1] \cup {rows[m].parent : m \in f[k - 1] \cap DOMAIN rows}
  <2> SUFFICES ASSUME NEW k \in 0..N, k # 0
               PROVE  f[k] = f[k - 1] \cup {rows[m].parent : m \in f[k - 1] \cap DOMAIN rows}
    <3> HIDE DEF N, T, G
    <3> QED BY <1>3
  <2>1. f[k] = G[f[k - 1]] /\ k - 1 \in 0..N
    <3> HIDE DEF N, T, G, a
    <3> QED BY <1>1, <1>3
  <2>2. f[k - 1] \in T
    <3> HIDE DEF N, T, G, a
    <3> QED BY <1>3, <2>1
  <2> QED BY <2>1, <2>2
<1>5. Walk(rows, n, f)
  <2> HIDE DEF T, G
  <2> QED BY <1>3, <1>4 DEF Walk
<1>6. Walk(rows, n, CHOOSE g : Walk(rows, n, g))
  BY <1>5
<1> QED
  BY <1>6 DEF Above, Walk

\* Whatever is closed under parents and has n's has all that is above n.
LEMMA AboveLeast ==
  ASSUME NEW rows, IsFiniteSet(DOMAIN rows), NEW n \in DOMAIN rows, NEW X,
         rows[n].parent \in X, \A m \in X \cap DOMAIN rows : rows[m].parent \in X
  PROVE  Above(rows, n) \subseteq X
<1> DEFINE N == Cardinality(DOMAIN rows)
<1>1. N \in Nat
  BY FS_CardinalityType
<1>2. PICK f : Walk(rows, n, f) /\ Above(rows, n) = f[N] \ {None}
  BY AboveWalks
<1> DEFINE P == {k \in 0..N : f[k] \subseteq X}
<1>3. 0 \in P
  BY <1>1, <1>2 DEF Walk
<1>4. ASSUME NEW k \in 0..N, k \in P, k < N PROVE k + 1 \in P
  <2>1. f[k + 1] = f[k] \cup {rows[m].parent : m \in f[k] \cap DOMAIN rows}
    BY <1>1, <1>2, <1>4 DEF Walk
  <2> QED BY <1>1, <1>4, <2>1
<1>5. N \in P
  <2> HIDE DEF P, N
  <2>1. 0..N \subseteq P
    BY <1>1, <1>3, <1>4, Climb
  <2> QED BY <2>1, <1>1
<1> QED BY <1>2, <1>5

\* The walk up meets a row at most once, so it has met everything when it ends.
LEMMA AboveClosed ==
  ASSUME NEW rows, IsFiniteSet(DOMAIN rows), NEW n \in DOMAIN rows, None \notin DOMAIN rows
  PROVE  /\ rows[n].parent \in Above(rows, n) \cup {None}
         /\ \A m \in Above(rows, n) \cap DOMAIN rows : rows[m].parent \in Above(rows, n) \cup {None}
<1> DEFINE N == Cardinality(DOMAIN rows)
<1>1. N \in Nat
  BY FS_CardinalityType
<1>2. PICK f : Walk(rows, n, f) /\ Above(rows, n) = f[N] \ {None}
  BY AboveWalks
<1>3. f[0] = {rows[n].parent}
  BY <1>1, <1>2 DEF Walk
<1>4. \A k \in 0..N : k < N => f[k + 1] = f[k] \cup {rows[m].parent : m \in f[k] \cap DOMAIN rows}
  BY <1>1, <1>2 DEF Walk
<1> DEFINE Open(k) == \E m \in f[k] \cap DOMAIN rows : rows[m].parent \notin f[k]
           P == {k \in 0..N : /\ rows[n].parent \in f[k]
                              /\ Open(k) => Cardinality(f[k] \cap DOMAIN rows) >= k + 1}
<1>5. \A S \in SUBSET DOMAIN rows : IsFiniteSet(S) /\ Cardinality(S) \in Nat /\ Cardinality(S) <= N
  BY FS_Subset, FS_CardinalityType
<1>6. 0 \in P
  <2>1. ASSUME Open(0) PROVE Cardinality(f[0] \cap DOMAIN rows) >= 1
    <3>1. f[0] \cap DOMAIN rows = {rows[n].parent}
      BY <2>1, <1>3
    <3>2. Cardinality({rows[n].parent}) = 1
      BY FS_Singleton
    <3> QED BY <3>1, <3>2
  <2>2. rows[n].parent \in f[0]
    BY <1>3
  <2> QED BY <1>1, <2>1, <2>2
<1>7. ASSUME NEW k \in 0..N, k \in P, k < N PROVE k + 1 \in P
  <2>1. f[k + 1] = f[k] \cup {rows[m].parent : m \in f[k] \cap DOMAIN rows}
    BY <1>4, <1>7
  <2>2. ASSUME Open(k + 1) PROVE Cardinality(f[k + 1] \cap DOMAIN rows) >= k + 2
    <3>1. PICK m \in f[k + 1] \cap DOMAIN rows : rows[m].parent \notin f[k + 1]
      BY <2>2
    <3>2. m \notin f[k]
      BY <2>1, <3>1
    <3>3. PICK x \in f[k] \cap DOMAIN rows : rows[x].parent = m
      BY <2>1, <3>1, <3>2
    <3>4. Open(k)
      BY <3>2, <3>3
    <3>5. Cardinality(f[k] \cap DOMAIN rows) >= k + 1
      BY <1>7, <3>4
    <3> DEFINE A == f[k] \cap DOMAIN rows
               B == f[k + 1] \cap DOMAIN rows
    <3>6. /\ A \in SUBSET DOMAIN rows /\ B \in SUBSET DOMAIN rows
          /\ m \notin A /\ A \cup {m} \subseteq B
      BY <2>1, <3>1, <3>2
    <3>7. IsFiniteSet(A) /\ IsFiniteSet(B) /\ Cardinality(A) \in Nat /\ Cardinality(B) \in Nat
      BY <1>5, <3>6
    <3>8. Cardinality(A \cup {m}) = Cardinality(A) + 1
      <4> HIDE DEF A, B
      <4> QED BY <3>6, <3>7, FS_AddElement
    <3>9. Cardinality(A \cup {m}) <= Cardinality(B)
      <4> HIDE DEF A, B
      <4> QED BY <3>6, <3>7, FS_Subset
    <3> QED BY <3>5, <3>7, <3>8, <3>9
  <2>3. rows[n].parent \in f[k + 1] /\ k + 1 \in 0..N /\ (k + 1) + 1 = k + 2
    BY <1>1, <1>7, <2>1
  <2> QED BY <2>2, <2>3
<1>8. N \in P
  <2> HIDE DEF P, N
  <2>1. 0..N \subseteq P
    BY <1>1, <1>6, <1>7, Climb
  <2> QED BY <2>1, <1>1
<1>9. ~Open(N)
  <2>1. f[N] \cap DOMAIN rows \in SUBSET DOMAIN rows
    OBVIOUS
  <2>2. Cardinality(f[N] \cap DOMAIN rows) \in Nat /\ Cardinality(f[N] \cap DOMAIN rows) <= N
    BY <1>5, <2>1
  <2> QED BY <1>1, <1>8, <2>2
<1> QED BY <1>2, <1>8, <1>9

\* What is above a row is a row, where every parent is there.
LEMMA AboveIsThere ==
  ASSUME NEW rows, IsFiniteSet(DOMAIN rows), NEW n \in DOMAIN rows, Attached(rows)
  PROVE  Above(rows, n) \subseteq DOMAIN rows
<1>1. Above(rows, n) \subseteq DOMAIN rows \cup {None}
  BY AboveLeast DEF Attached
<1>2. None \notin Above(rows, n)
  BY AboveWalks
<1> QED BY <1>1, <1>2

\* What is above a row above n is above n.
LEMMA AboveTransitive ==
  ASSUME NEW rows, IsFiniteSet(DOMAIN rows), None \notin DOMAIN rows,
         NEW n \in DOMAIN rows, NEW m \in DOMAIN rows, m \in Above(rows, n)
  PROVE  Above(rows, m) \subseteq Above(rows, n)
<1> DEFINE X == Above(rows, n) \cup {None}
<1>1. Above(rows, m) \subseteq X
  <2>1. rows[m].parent \in X /\ \A k \in X \cap DOMAIN rows : rows[k].parent \in X
    BY AboveClosed
  <2> HIDE DEF X
  <2> QED BY <2>1, AboveLeast
<1>2. None \notin Above(rows, m)
  BY AboveWalks
<1> QED BY <1>1, <1>2

\* What is above the parent, and the parent, is all there is.
LEMMA AboveParent ==
  ASSUME NEW rows, IsFiniteSet(DOMAIN rows), None \notin DOMAIN rows,
         NEW n \in DOMAIN rows, NEW p, rows[n].parent = p
  PROVE  /\ p = None => Above(rows, n) = {}
         /\ p \in DOMAIN rows => Above(rows, n) = {p} \cup Above(rows, p)
<1>1. ASSUME p = None PROVE Above(rows, n) = {}
  <2> DEFINE X == {None}
  <2>1. Above(rows, n) \subseteq X
    <3>1. rows[n].parent \in X /\ \A m \in X \cap DOMAIN rows : rows[m].parent \in X
      BY <1>1
    <3> HIDE DEF X
    <3> QED BY <3>1, AboveLeast
  <2>2. None \notin Above(rows, n)
    BY AboveWalks
  <2> QED BY <2>1, <2>2
<1>2. ASSUME p \in DOMAIN rows PROVE Above(rows, n) = {p} \cup Above(rows, p)
  <2>1. p \in Above(rows, n)
    BY <1>2, AboveClosed
  <2>2. Above(rows, p) \subseteq Above(rows, n)
    BY <1>2, <2>1, AboveTransitive
  <2>3. Above(rows, n) \subseteq {p} \cup Above(rows, p) \cup {None}
    <3> DEFINE X == {p} \cup Above(rows, p) \cup {None}
    <3>1. rows[p].parent \in X /\ \A m \in X \cap DOMAIN rows : rows[m].parent \in X
      BY <1>2, AboveClosed
    <3> HIDE DEF X
    <3>2. rows[n].parent \in X
      BY DEF X
    <3>3. Above(rows, n) \subseteq X
      BY <3>1, <3>2, AboveLeast
    <3> QED BY <3>3 DEF X
  <2>4. None \notin Above(rows, n)
    BY AboveWalks
  <2> QED BY <2>1, <2>2, <2>3, <2>4
<1> QED BY <1>1, <1>2

\* Rows whose parents are the same have the same above them, as far as there are rows.
LEMMA AboveSame ==
  ASSUME NEW rows, NEW next, IsFiniteSet(DOMAIN rows), IsFiniteSet(DOMAIN next),
         None \notin DOMAIN rows \cup DOMAIN next, NEW n \in DOMAIN rows \cap DOMAIN next,
         \A m \in ({n} \cup Above(rows, n)) \cap DOMAIN next :
           m \in DOMAIN rows /\ next[m].parent = rows[m].parent
  PROVE  Above(next, n) \subseteq Above(rows, n)
<1> DEFINE X == Above(rows, n) \cup {None}
<1>1. rows[n].parent \in X /\ \A m \in X \cap DOMAIN rows : rows[m].parent \in X
  BY AboveClosed
<1>2. next[n].parent \in X /\ \A m \in X \cap DOMAIN next : next[m].parent \in X
  BY <1>1
<1>3. Above(next, n) \subseteq X
  <2> HIDE DEF X
  <2> QED BY <1>2, AboveLeast
<1>4. None \notin Above(next, n)
  BY AboveWalks
<1> QED BY <1>3, <1>4

\* Whatever has the same parent in fewer rows was above as much.
LEMMA FewerAcyclic ==
  ASSUME NEW rows, NEW next, IsFiniteSet(DOMAIN rows), IsFiniteSet(DOMAIN next),
         None \notin DOMAIN rows, DOMAIN next \subseteq DOMAIN rows,
         \A m \in DOMAIN next : next[m].parent = rows[m].parent, Acyclic(rows)
  PROVE  Acyclic(next)
<1> SUFFICES ASSUME NEW n \in DOMAIN next PROVE n \notin Above(next, n)
  BY DEF Acyclic
<1>1. Above(next, n) \subseteq Above(rows, n)
  BY AboveSame
<1> QED BY <1>1 DEF Acyclic

\* A row that is new is above none of the others.
LEMMA NewIsBelow ==
  ASSUME NEW rows, NEW next, IsFiniteSet(DOMAIN rows), IsFiniteSet(DOMAIN next),
         None \notin DOMAIN next, Attached(rows),
         NEW n, n \notin DOMAIN rows, DOMAIN next = DOMAIN rows \cup {n},
         next[n].parent \in DOMAIN rows \cup {None},
         \A m \in DOMAIN rows : next[m].parent = rows[m].parent
  PROVE  /\ \A m \in DOMAIN rows : Above(next, m) \subseteq Above(rows, m)
         /\ Above(next, n) \subseteq DOMAIN rows
         /\ Acyclic(rows) => Acyclic(next)
<1>1. ASSUME NEW m \in DOMAIN rows PROVE Above(next, m) \subseteq Above(rows, m)
  <2>1. Above(rows, m) \subseteq DOMAIN rows
    BY AboveIsThere
  <2> QED BY <2>1, AboveSame
<1>2. Above(next, n) \subseteq DOMAIN rows
  <2>1. ASSUME NEW m \in DOMAIN rows PROVE Above(rows, m) \subseteq DOMAIN rows
    BY AboveIsThere
  <2> QED BY <1>1, <2>1, AboveParent
<1> QED BY <1>1, <1>2 DEF Acyclic

\* A row that goes beneath another, not beneath itself nor beneath what is beneath it, makes no
\* loop: what was beneath it has the same above it up to n, and from there what p has.
THEOREM Reparented ==
  ASSUME NEW rows, NEW next, IsFiniteSet(DOMAIN rows), None \notin DOMAIN rows,
         DOMAIN next = DOMAIN rows, NEW n \in DOMAIN rows, NEW p, next[n].parent = p,
         p = None \/ Beneath(rows, n, p),
         \A m \in DOMAIN rows \ {n} : next[m].parent = rows[m].parent
  PROVE  /\ \A m \in DOMAIN rows : n \notin {m} \cup Above(rows, m) =>
              Above(next, m) \subseteq Above(rows, m)
         /\ p # None => Above(next, n) \subseteq {p} \cup Above(rows, p)
         /\ p = None => Above(next, n) = {}
         /\ Acyclic(rows) => Acyclic(next)
<1>1. ASSUME NEW m \in DOMAIN rows, n \notin {m} \cup Above(rows, m)
      PROVE  Above(next, m) \subseteq Above(rows, m)
  BY <1>1, AboveSame
<1>2. ASSUME p # None PROVE Above(next, n) \subseteq {p} \cup Above(rows, p)
  <2>1. p \in DOMAIN rows /\ n \notin {p} \cup Above(rows, p)
    BY <1>2 DEF Beneath
  <2>2. Above(next, p) \subseteq Above(rows, p)
    BY <2>1, <1>1
  <2> QED BY <2>1, <2>2, AboveParent
<1>3. ASSUME p = None PROVE Above(next, n) = {}
  BY <1>3, AboveParent
<1>4. ASSUME Acyclic(rows), NEW m \in DOMAIN rows, m \in Above(next, m) PROVE FALSE
  <2>1. n \in {m} \cup Above(rows, m)
    BY <1>1, <1>4 DEF Acyclic
  <2> DEFINE X == Above(rows, m) \cup Above(next, n) \cup {None}
  <2>2. m = n => FALSE
    <3>1. CASE p = None
      BY <1>3, <1>4, <3>1
    <3>2. CASE p # None
      <4>1. n \notin {p} \cup Above(rows, p)
        BY <3>2 DEF Beneath
      <4> QED BY <1>2, <1>4, <3>2, <4>1
    <3> QED BY <3>1, <3>2
  <2>3. n \in Above(rows, m)
    BY <2>1, <2>2
  <2>4. Above(next, m) \subseteq X
    <3>1. next[m].parent \in X
      BY <2>2, AboveClosed
    <3>2. ASSUME NEW k \in X \cap DOMAIN next PROVE next[k].parent \in X
      <4>1. CASE k = n
        <5>1. next[n].parent \in Above(next, n) \cup {None}
          BY AboveClosed
        <5> QED BY <4>1, <5>1
      <4>2. CASE k # n /\ k \in Above(rows, m)
        <5>1. rows[k].parent \in Above(rows, m) \cup {None}
          BY <4>2, AboveClosed
        <5> QED BY <4>2, <5>1
      <4>3. CASE k \in Above(next, n)
        <5>1. next[k].parent \in Above(next, n) \cup {None}
          BY <4>3, AboveClosed
        <5> QED BY <5>1
      <4> QED BY <4>1, <4>2, <4>3
    <3> HIDE DEF X
    <3> QED BY <3>1, <3>2, AboveLeast
  <2>5. m \in Above(next, n)
    BY <1>4, <2>4 DEF Acyclic
  <2>6. p # None /\ p \in DOMAIN rows /\ n \notin {p} \cup Above(rows, p)
    BY <1>3, <2>5 DEF Beneath
  <2>7. m \in {p} \cup Above(rows, p)
    BY <1>2, <2>5, <2>6
  <2>8. Above(rows, m) \subseteq Above(rows, p)
    BY <2>6, <2>7, AboveTransitive
  <2> QED BY <2>3, <2>6, <2>8
<1>5. Acyclic(rows) => Acyclic(next)
  BY <1>4 DEF Acyclic
<1> QED BY <1>1, <1>2, <1>3, <1>5

\* A row that becomes a root has nothing above it, and what is beneath it no more than it had.
LEMMA MadeRoot ==
  ASSUME NEW rows, NEW next, IsFiniteSet(DOMAIN rows), None \notin DOMAIN rows,
         DOMAIN next = DOMAIN rows, NEW n \in DOMAIN rows, next[n].parent = None,
         \A m \in DOMAIN rows \ {n} : next[m].parent = rows[m].parent
  PROVE  \A m \in DOMAIN rows : Above(next, m) \subseteq Above(rows, m)
<1> SUFFICES ASSUME NEW m \in DOMAIN rows PROVE Above(next, m) \subseteq Above(rows, m)
  OBVIOUS
<1> DEFINE X == Above(rows, m) \cup {None}
<1>1. rows[m].parent \in X /\ \A k \in X \cap DOMAIN rows : rows[k].parent \in X
  BY AboveClosed
<1>2. next[m].parent \in X /\ \A k \in X \cap DOMAIN next : next[k].parent \in X
  BY <1>1
<1>3. Above(next, m) \subseteq X
  <2> HIDE DEF X
  <2> QED BY <1>2, AboveLeast
<1>4. None \notin Above(next, m)
  BY AboveWalks
<1> QED BY <1>3, <1>4

-----------------------------------------------------------------------------
(* What is beneath a row. *)

\* The walk of Level, k levels down.
Down(rows, n, k, f) ==
  f = [i \in 0..k |-> IF i = 0 THEN {n} ELSE {m \in DOMAIN rows : rows[m].parent \in f[i - 1]}]

LEMMA LevelWalks ==
  ASSUME NEW rows, NEW n, NEW k \in Nat
  PROVE  \E f : Down(rows, n, k, f) /\ Level(rows, n, k) = f[k]
<1> DEFINE T == SUBSET (DOMAIN rows \cup {n})
           G == [S \in T |-> {m \in DOMAIN rows : rows[m].parent \in S}]
           a == {n}
<1>1. a \in T /\ G \in [T -> T]
  OBVIOUS
<1>2. PICK f \in [0..k -> T] : \A i \in 0..k : f[i] = IF i = 0 THEN a ELSE G[f[i - 1]]
  <2> HIDE DEF T, G, a
  <2>1. \E f \in [0..k -> T] : Iterated(f, k, a, G)
    BY <1>1, Iterates
  <2> QED BY <2>1 DEF Iterated
<1>3. \A i \in 0..k :
        f[i] = IF i = 0 THEN {n} ELSE {m \in DOMAIN rows : rows[m].parent \in f[i - 1]}
  <2> SUFFICES ASSUME NEW i \in 0..k, i # 0
               PROVE  f[i] = {m \in DOMAIN rows : rows[m].parent \in f[i - 1]}
    <3> HIDE DEF T, G
    <3> QED BY <1>2
  <2>1. f[i] = G[f[i - 1]] /\ i - 1 \in 0..k
    <3> HIDE DEF T, G, a
    <3> QED BY <1>2
  <2>2. f[i - 1] \in T
    <3> HIDE DEF T, G, a
    <3> QED BY <1>2, <2>1
  <2> QED BY <2>1, <2>2
<1>4. Down(rows, n, k, f)
  <2> HIDE DEF T, G
  <2> QED BY <1>2, <1>3 DEF Down
<1>5. Down(rows, n, k, CHOOSE g : Down(rows, n, k, g))
  BY <1>4
<1> QED BY <1>5 DEF Level, Down

\* Every level holds the rows whose parent is on the level above it.
LEMMA LevelNext ==
  ASSUME NEW rows, NEW n, NEW k \in Nat
  PROVE  /\ Level(rows, n, 0) = {n}
         /\ Level(rows, n, k + 1) = {m \in DOMAIN rows : rows[m].parent \in Level(rows, n, k)}
<1>1. Level(rows, n, 0) = {n}
  <2>1. PICK f : Down(rows, n, 0, f) /\ Level(rows, n, 0) = f[0]
    BY LevelWalks
  <2> QED BY <2>1 DEF Down
<1>2. PICK f : Down(rows, n, k, f) /\ Level(rows, n, k) = f[k]
  BY LevelWalks
<1>3. PICK g : Down(rows, n, k + 1, g) /\ Level(rows, n, k + 1) = g[k + 1]
  BY LevelWalks
<1> DEFINE P == {i \in 0..k : f[i] = g[i]}
<1>4. 0 \in P
  BY <1>2, <1>3 DEF Down
<1>5. ASSUME NEW i \in 0..k, i \in P, i < k PROVE i + 1 \in P
  <2>1. /\ i + 1 \in 0..k /\ i + 1 \in 0..(k + 1) /\ (i + 1) - 1 = i /\ i + 1 # 0
        /\ f[i] = g[i]
    BY <1>5
  <2>2. f[i + 1] = {m \in DOMAIN rows : rows[m].parent \in f[i]}
    BY <1>2, <2>1 DEF Down
  <2>3. g[i + 1] = {m \in DOMAIN rows : rows[m].parent \in g[i]}
    BY <1>3, <2>1 DEF Down
  <2> QED BY <2>1, <2>2, <2>3
<1>6. k \in P
  <2> HIDE DEF P
  <2>1. 0..k \subseteq P
    BY <1>4, <1>5, Climb
  <2> QED BY <2>1
<1>7. g[k + 1] = {m \in DOMAIN rows : rows[m].parent \in g[k]}
  BY <1>3 DEF Down
<1> QED BY <1>1, <1>2, <1>3, <1>6, <1>7

\* The rows between m and n, with n: as many as m is levels beneath n.
Between(rows, n, m) == {j \in Above(rows, m) : j = n \/ n \in Above(rows, j)}

LEMMA BetweenParent ==
  ASSUME NEW rows, IsFiniteSet(DOMAIN rows), None \notin DOMAIN rows, Acyclic(rows),
         Attached(rows), NEW n \in DOMAIN rows
  PROVE  /\ Between(rows, n, n) = {}
         /\ \A m \in DOMAIN rows : n \in Above(rows, m) =>
              /\ rows[m].parent \in DOMAIN rows
              /\ rows[m].parent = n \/ n \in Above(rows, rows[m].parent)
              /\ Between(rows, n, m) = Between(rows, n, rows[m].parent) \cup {rows[m].parent}
              /\ rows[m].parent \notin Between(rows, n, rows[m].parent)
<1>1. Between(rows, n, n) = {}
  <2>1. ASSUME NEW j \in Above(rows, n), n \in Above(rows, j) PROVE FALSE
    <3>1. j \in DOMAIN rows
      BY <2>1, AboveIsThere
    <3>2. Above(rows, j) \subseteq Above(rows, n)
      BY <2>1, <3>1, AboveTransitive
    <3> QED BY <2>1, <3>2 DEF Acyclic
  <2> QED BY <2>1 DEF Between, Acyclic
<1>2. ASSUME NEW m \in DOMAIN rows, n \in Above(rows, m)
      PROVE  /\ rows[m].parent \in DOMAIN rows
             /\ rows[m].parent = n \/ n \in Above(rows, rows[m].parent)
             /\ Between(rows, n, m) = Between(rows, n, rows[m].parent) \cup {rows[m].parent}
             /\ rows[m].parent \notin Between(rows, n, rows[m].parent)
  <2> DEFINE p == rows[m].parent
  <2>1. p \in DOMAIN rows
    BY <1>2, AboveParent DEF Attached
  <2>2. Above(rows, m) = {p} \cup Above(rows, p)
    BY <2>1, AboveParent
  <2> QED BY <1>2, <2>1, <2>2 DEF Between, Acyclic
<1> QED BY <1>1, <1>2

\* A row is on the level that what is between says.
LEMMA OnLevel ==
  ASSUME NEW rows, IsFiniteSet(DOMAIN rows), None \notin DOMAIN rows, Acyclic(rows),
         Attached(rows), NEW n \in DOMAIN rows, NEW m \in DOMAIN rows,
         m = n \/ n \in Above(rows, m)
  PROVE  /\ Cardinality(Between(rows, n, m)) \in 0..Cardinality(DOMAIN rows)
         /\ m \in Level(rows, n, Cardinality(Between(rows, n, m)))
<1> DEFINE N == Cardinality(DOMAIN rows)
           d(x) == Cardinality(Between(rows, n, x))
           Under == {x \in DOMAIN rows : x = n \/ n \in Above(rows, x)}
<1>1. N \in Nat
  BY FS_CardinalityType
<1>2. ASSUME NEW x \in DOMAIN rows
      PROVE  /\ IsFiniteSet(Between(rows, n, x)) /\ d(x) \in 0..N
  <2>1. Between(rows, n, x) \in SUBSET DOMAIN rows
    BY AboveIsThere DEF Between
  <2>2. IsFiniteSet(Between(rows, n, x)) /\ d(x) <= N
    BY <2>1, FS_Subset
  <2> QED BY <1>1, <2>2, FS_CardinalityType
<1> DEFINE P == {k \in 0..N : \A x \in Under : d(x) = k => x \in Level(rows, n, k)}
<1>3. 0 \in P
  <2> SUFFICES ASSUME NEW x \in Under, d(x) = 0 PROVE x \in Level(rows, n, 0)
    BY <1>1
  <2>1. Between(rows, n, x) = {}
    BY <1>2, FS_EmptySet
  <2>2. x = n
    BY <2>1 DEF Between
  <2> QED BY <2>2, LevelNext
<1>4. ASSUME NEW k \in 0..N, k \in P, k < N PROVE k + 1 \in P
  <2> SUFFICES ASSUME NEW x \in Under, d(x) = k + 1 PROVE x \in Level(rows, n, k + 1)
    BY <1>1, <1>4
  <2>1. x # n
    <3>1. Cardinality(Between(rows, n, n)) = 0
      BY BetweenParent, FS_EmptySet
    <3>2. k + 1 # 0
      BY <1>1
    <3> QED BY <3>1, <3>2
  <2> DEFINE p == rows[x].parent
  <2>2. /\ p \in Under /\ Between(rows, n, x) = Between(rows, n, p) \cup {p}
        /\ p \notin Between(rows, n, p)
    BY <2>1, BetweenParent
  <2>3. d(x) = d(p) + 1
    <3> HIDE DEF p
    <3> QED BY <1>2, <2>2, FS_AddElement
  <2>4. d(p) = k
    BY <1>1, <1>2, <2>2, <2>3
  <2>5. p \in Level(rows, n, k)
    BY <1>4, <2>2, <2>4
  <2> QED BY <2>5, <1>1, LevelNext
<1>5. d(m) \in P
  <2>1. d(m) \in 0..N
    BY <1>2
  <2> HIDE DEF P, N, d
  <2>2. 0..N \subseteq P
    BY <1>1, <1>3, <1>4, Climb
  <2> QED BY <2>1, <2>2
<1> QED BY <1>2, <1>5

\* No row is further beneath n than its height says.
LEMMA HeightBounds ==
  ASSUME NEW rows, IsFiniteSet(DOMAIN rows), None \notin DOMAIN rows, Acyclic(rows),
         Attached(rows), NEW n \in DOMAIN rows, NEW m \in DOMAIN rows,
         m = n \/ n \in Above(rows, m)
  PROVE  /\ Height(rows, n) \in Nat
         /\ Cardinality(Between(rows, n, m)) + 1 <= Height(rows, n)
<1> DEFINE N == Cardinality(DOMAIN rows)
           K == Cardinality(Between(rows, n, m))
           S == {k \in 0..N : Level(rows, n, k) # {}}
           P == {i \in 0..K : Level(rows, n, K - i) # {}}
<1>1. N \in Nat
  BY FS_CardinalityType
<1>2. K \in 0..N /\ m \in Level(rows, n, K)
  BY OnLevel
<1>3. 0 \in P
  <2> HIDE DEF K
  <2> QED BY <1>1, <1>2
<1>4. ASSUME NEW i \in 0..K, i \in P, i < K PROVE i + 1 \in P
  <2> HIDE DEF K
  <2>1. /\ i + 1 \in 0..K /\ K - (i + 1) \in Nat /\ (K - (i + 1)) + 1 = K - i
    BY <1>1, <1>2, <1>4
  <2>2. Level(rows, n, K - i) = {x \in DOMAIN rows : rows[x].parent \in Level(rows, n, K - (i + 1))}
    BY <2>1, LevelNext
  <2> QED BY <1>4, <2>1, <2>2
<1>5. 0..K \subseteq P
  <2> HIDE DEF P, K, N
  <2> QED BY <1>1, <1>2, <1>3, <1>4, Climb
<1>6. 0..K \subseteq S
  <2> HIDE DEF K, N
  <2> SUFFICES ASSUME NEW k \in 0..K PROVE k \in S
    OBVIOUS
  <2>1. K - k \in 0..K /\ K - (K - k) = k /\ k \in 0..N
    BY <1>1, <1>2
  <2> QED BY <1>5, <2>1
<1>7. IsFiniteSet(S) /\ Cardinality(S) \in Nat
  <2>1. IsFiniteSet(0..N)
    BY <1>1, FS_Interval
  <2> QED BY <2>1, FS_Subset, FS_CardinalityType
<1>8. Cardinality(0..K) = K + 1
  <2> HIDE DEF K
  <2> QED BY <1>1, <1>2, FS_Interval
<1>9. Cardinality(0..K) <= Cardinality(S)
  <2> HIDE DEF S, K
  <2> QED BY <1>6, <1>7, FS_Subset
<1>10. Height(rows, n) = Cardinality(S)
  BY DEF Height
<1> QED BY <1>7, <1>8, <1>9, <1>10

\* What goes beneath p is as deep as p allows: what is beneath it hangs between them as before.
LEMMA DeeperBy ==
  ASSUME NEW rows, NEW next, IsFiniteSet(DOMAIN rows), None \notin DOMAIN rows,
         DOMAIN next = DOMAIN rows, Acyclic(rows), Attached(rows), NEW n \in DOMAIN rows,
         NEW p, next[n].parent = p, Beneath(rows, n, p),
         \A m \in DOMAIN rows \ {n} : next[m].parent = rows[m].parent,
         NEW m \in DOMAIN rows, m = n \/ n \in Above(rows, m)
  PROVE  Depth(next, m) <= Depth(rows, p) + Height(rows, n)
<1> DEFINE B == Between(rows, n, m)
           U == {p} \cup Above(rows, p)
           X == B \cup U \cup {None}
<1>1. p \in DOMAIN rows /\ n \notin U
  BY DEF Beneath
<1>2. \A k \in U : k \in DOMAIN rows /\ rows[k].parent \in U \cup {None}
  <2>1. U \subseteq DOMAIN rows
    BY <1>1, AboveIsThere
  <2>2. \A k \in U \cap DOMAIN rows : rows[k].parent \in Above(rows, p) \cup {None}
    BY <1>1, AboveClosed
  <2> QED BY <2>1, <2>2
<1>3. \A k \in B : /\ k \in DOMAIN rows /\ n \in Above(rows, m)
                   /\ k # n => rows[k].parent \in B
  <2> SUFFICES ASSUME NEW k \in B
               PROVE  /\ k \in DOMAIN rows /\ n \in Above(rows, m)
                      /\ k # n => rows[k].parent \in B
    OBVIOUS
  <2>1. k \in Above(rows, m) /\ k \in DOMAIN rows
    BY AboveIsThere DEF Between
  <2>2. n \in Above(rows, m)
    BY BetweenParent
  <2>3. ASSUME k # n PROVE rows[k].parent \in B
    <3>1. n \in Above(rows, k)
      BY <2>3 DEF Between
    <3>2. rows[k].parent \in DOMAIN rows
      BY <2>1, <3>1, BetweenParent
    <3>3. rows[k].parent \in Above(rows, m)
      BY <2>1, <3>2, AboveClosed
    <3> QED BY <2>1, <3>1, <3>3, BetweenParent DEF Between
  <2> QED BY <2>1, <2>2, <2>3
<1>4. next[m].parent \in X
  <2>1. CASE m = n
    BY <2>1
  <2>2. CASE m # n
    BY <2>2, BetweenParent
  <2> QED BY <2>1, <2>2
<1>5. \A k \in X \cap DOMAIN next : next[k].parent \in X
  <2> SUFFICES ASSUME NEW k \in DOMAIN rows, k \in B \cup U PROVE next[k].parent \in X
    OBVIOUS
  <2> HIDE DEF B, U
  <2>1. CASE k = n
    BY <2>1 DEF U
  <2>2. CASE k # n
    BY <2>2, <1>2, <1>3
  <2> QED BY <2>1, <2>2
<1>6. Above(next, m) \subseteq B \cup U
  <2>1. Above(next, m) \subseteq X
    <3> HIDE DEF X
    <3> QED BY <1>4, <1>5, AboveLeast
  <2>2. None \notin Above(next, m)
    BY AboveWalks
  <2> QED BY <2>1, <2>2
<1>7. /\ IsFiniteSet(B) /\ IsFiniteSet(Above(rows, p)) /\ Cardinality(B) \in Nat
      /\ Cardinality(Above(rows, p)) \in Nat
  <2>1. B \in SUBSET DOMAIN rows /\ Above(rows, p) \in SUBSET DOMAIN rows
    BY <1>1, <1>3, AboveIsThere
  <2> QED BY <2>1, FS_Subset, FS_CardinalityType
<1>8. IsFiniteSet(U) /\ Cardinality(U) <= Cardinality(Above(rows, p)) + 1 /\ Cardinality(U) \in Nat
  <2>1. U = Above(rows, p) \cup {p}
    OBVIOUS
  <2> QED BY <1>7, <2>1, FS_AddElement, FS_CardinalityType
<1>9. Cardinality(Above(next, m)) <= Cardinality(B) + Cardinality(U)
  <2> HIDE DEF B, U
  <2>1. IsFiniteSet(B \cup U) /\ Cardinality(B \cup U) <= Cardinality(B) + Cardinality(U)
    <3>1. Cardinality(B \cap U) \in Nat
      BY <1>7, <1>8, FS_Intersection, FS_CardinalityType
    <3>2. /\ IsFiniteSet(B \cup U)
          /\ Cardinality(B \cup U) = Cardinality(B) + Cardinality(U) - Cardinality(B \cap U)
      BY <1>7, <1>8, FS_Union
    <3> QED BY <1>7, <1>8, <3>1, <3>2
  <2>2. Cardinality(Above(next, m)) <= Cardinality(B \cup U)
    BY <1>6, <2>1, FS_Subset
  <2>3. Cardinality(Above(next, m)) \in Nat /\ Cardinality(B \cup U) \in Nat
    BY <1>6, <2>1, FS_Subset, FS_CardinalityType
  <2> QED BY <1>7, <1>8, <2>1, <2>2, <2>3
<1>10. Height(rows, n) \in Nat /\ Cardinality(B) + 1 <= Height(rows, n)
  BY HeightBounds
<1>11. Cardinality(Above(next, m)) \in Nat
  BY <1>6, <1>7, <1>8, FS_Union, FS_Subset, FS_CardinalityType
<1> HIDE DEF B, U
<1> QED BY <1>7, <1>8, <1>9, <1>10, <1>11 DEF Depth

-----------------------------------------------------------------------------
(* Places. *)

\* The next place is behind all that are taken.
LEMMA NextPositionFree ==
  ASSUME NEW rows, IsFiniteSet(DOMAIN rows), NEW p,
         \A m \in DOMAIN rows : rows[m].position \in Nat
  PROVE  /\ NextPosition(rows, p) \in Nat
         /\ \A m \in Children(rows, p) : rows[m].position < NextPosition(rows, p)
<1> DEFINE C == Children(rows, p)
           S == {rows[m].position : m \in C}
<1>1. CASE C = {}
  BY <1>1 DEF NextPosition
<1>2. CASE C # {}
  <2>1. IsFiniteSet(C)
    BY FS_Subset DEF Children
  <2>2. IsFiniteSet(S)
    <3>1. [m \in C |-> rows[m].position] \in Surjection(C, S)
      BY DEF Surjection
    <3> HIDE DEF C, S
    <3> QED BY <2>1, <3>1, FS_Surjection
  <2>3. S \subseteq Nat /\ S # {}
    BY <1>2 DEF Children
  <2>4. Max(S) \in S /\ \A x \in S : x <= Max(S)
    <3>1. S \subseteq Int
      BY <2>3
    <3> HIDE DEF S
    <3> QED BY <2>2, <2>3, <3>1, MaxOfSet
  <2>5. NextPosition(rows, p) = Max(S) + 1
    BY <1>2 DEF NextPosition
  <2>6. \A m \in C : rows[m].position \in S
    OBVIOUS
  <2> DEFINE top == Max(S)
  <2>7. /\ top \in Nat /\ NextPosition(rows, p) = top + 1
        /\ \A m \in C : rows[m].position \in Nat /\ rows[m].position <= top
    <3> HIDE DEF S
    <3> QED BY <2>3, <2>4, <2>5, <2>6
  <2> HIDE DEF top
  <2> QED BY <2>7
<1> QED BY <1>1, <1>2

\* An order of a finite set names all of it.
LEMMA SeqsCover ==
  ASSUME NEW S, IsFiniteSet(S), NEW s \in SetToSeqs(S)
  PROVE  s \in Seq(S) /\ ToSet(s) = S
<1> DEFINE D == 1..Cardinality(S)
<1>1. Cardinality(S) \in Nat
  BY FS_CardinalityType
<1>2. s \in [D -> S] /\ \A i, j \in D : i # j => s[i] # s[j]
  BY DEF SetToSeqs
<1>3. s \in Injection(D, S)
  BY <1>2 DEF Injection, IsInjective
<1>4. IsFiniteSet(D) /\ Cardinality(D) = Cardinality(S)
  BY <1>1, FS_Interval
<1>5. s \in Surjection(D, S)
  <2> HIDE DEF D
  <2> QED BY <1>3, <1>4, FS_Injection
<1>6. \A x \in S : \E i \in D : s[i] = x
  BY <1>5 DEF Surjection
<1>7. s \in Seq(S) /\ DOMAIN s = D
  BY <1>1, <1>2
<1>8. \A i \in DOMAIN s : s[i] \in S
  BY <1>2, <1>7
<1> HIDE DEF D
<1> QED BY <1>6, <1>7, <1>8 DEF ToSet

\* Dropping n adds n, whatever the place asked for.
LEMMA DroppedAdds ==
  ASSUME NEW T, NEW s \in Seq(T), NEW n \in T, NEW i \in Nat
  PROVE  Dropped(s, n, i) \in Seq(T) /\ ToSet(Dropped(s, n, i)) = ToSet(s) \cup {n}
<1> DEFINE k == (IF i < Len(s) THEN i ELSE Len(s)) + 1
           a == SubSeq(s, 1, k - 1)
           b == SubSeq(s, k, Len(s))
           d == a \o <<n>> \o b
<1>1. k \in 1..(Len(s) + 1)
  OBVIOUS
<1>2. Dropped(s, n, i) = d
  BY DEF Dropped, InsertAt
<1> HIDE DEF k
<1>3. /\ a \in Seq(T) /\ Len(a) = k - 1 /\ \A j \in 1..(k - 1) : a[j] = s[j]
      /\ b \in Seq(T) /\ Len(b) = Len(s) - k + 1
      /\ \A j \in 1..(Len(s) - k + 1) : b[j] = s[k + j - 1]
  BY <1>1
<1> HIDE DEF a, b
<1>4. d \in Seq(T) /\ Len(d) = Len(s) + 1
  BY <1>1, <1>3
<1>5. \A j \in 1..(Len(s) + 1) : d[j] = IF j < k THEN s[j] ELSE IF j = k THEN n ELSE s[j - 1]
  <2>1. ASSUME NEW j \in 1..(Len(s) + 1)
        PROVE  d[j] = IF j <= k - 1 THEN a[j] ELSE IF j = k THEN n ELSE b[j - k]
    <3> DEFINE h == a \o <<n>>
    <3>1. h \in Seq(T) /\ Len(h) = k /\ \A x \in 1..k : h[x] = IF x <= k - 1 THEN a[x] ELSE n
      BY <1>1, <1>3
    <3> HIDE DEF h
    <3>2. d = h \o b
      BY DEF h
    <3>3. j \in 1..(Len(h) + Len(b)) /\ k \in Nat
      BY <1>1, <1>3, <3>1
    <3>4. (h \o b)[j] = IF j <= Len(h) THEN h[j] ELSE b[j - Len(h)]
      BY <1>3, <3>1, <3>3
    <3> HIDE DEF d
    <3> QED BY <3>1, <3>2, <3>3, <3>4
  <2> HIDE DEF d
  <2>2. ASSUME NEW j \in 1..(Len(s) + 1), j > k PROVE b[j - k] = s[j - 1]
    <3>1. j - k \in 1..(Len(s) - k + 1) /\ k + (j - k) - 1 = j - 1
      BY <1>1, <2>2
    <3> QED BY <1>3, <3>1
  <2>3. ASSUME NEW j \in 1..(Len(s) + 1), j < k PROVE a[j] = s[j]
    <3>1. j \in 1..(k - 1)
      BY <1>1, <2>3
    <3> QED BY <1>3, <3>1
  <2> QED BY <1>1, <2>1, <2>2, <2>3
<1> HIDE DEF d
<1>6. ToSet(d) \subseteq ToSet(s) \cup {n}
  <2>1. ASSUME NEW j \in DOMAIN d PROVE d[j] \in ToSet(s) \cup {n}
    <3>1. j \in 1..Len(d) /\ j \in Int
      BY <1>4
    <3>2. CASE j < k
      <4>1. j \in DOMAIN s /\ d[j] = s[j]
        BY <1>1, <1>5, <3>1, <3>2
      <4> QED BY <4>1 DEF ToSet
    <3>3. CASE j > k
      <4>1. j - 1 \in DOMAIN s /\ d[j] = s[j - 1]
        BY <1>1, <1>4, <1>5, <3>1, <3>3
      <4> QED BY <4>1 DEF ToSet
    <3>4. CASE j = k
      BY <1>1, <1>5, <3>1, <3>4
    <3> QED BY <1>1, <3>1, <3>2, <3>3, <3>4
  <2> QED BY <2>1 DEF ToSet
<1>7. ToSet(s) \cup {n} \subseteq ToSet(d)
  <2>1. n \in ToSet(d)
    BY <1>1, <1>4, <1>5 DEF ToSet
  <2>2. ASSUME NEW j \in DOMAIN s PROVE s[j] \in ToSet(d)
    <3>1. CASE j < k
      BY <1>1, <1>4, <1>5, <3>1 DEF ToSet
    <3>2. CASE j >= k
      <4>1. j + 1 \in 1..Len(d) /\ d[j + 1] = s[j]
        BY <1>1, <1>4, <1>5, <3>2
      <4> QED BY <1>4, <4>1 DEF ToSet
    <3> QED BY <1>1, <3>1, <3>2
  <2> QED BY <2>1, <2>2 DEF ToSet
<1> QED BY <1>2, <1>4, <1>6, <1>7

\* A renumbered sibling has a place of its own.
LEMMA PlaceIsThere ==
  ASSUME NEW T, NEW s \in Seq(T), NEW n \in ToSet(s)
  PROVE  Place(s, n) \in Nat /\ s[Place(s, n) + 1] = n
<1>1. \E i \in DOMAIN s : s[i] = n
  BY DEF ToSet
<1> DEFINE i == CHOOSE i \in DOMAIN s : s[i] = n
<1>2. i \in 1..Len(s) /\ s[i] = n
  BY <1>1
<1>3. Place(s, n) = i - 1
  BY DEF Place
<1> HIDE DEF i
<1> QED BY <1>2, <1>3

\* What is dropped among p's children has them all and itself.
LEMMA DroppedAmong ==
  ASSUME NEW rows, IsFiniteSet(DOMAIN rows), NEW n \in DOMAIN rows, NEW p,
         NEW s \in Siblings(rows, n, p), NEW i \in Nat
  PROVE  /\ Dropped(s, n, i) \in Seq(DOMAIN rows)
         /\ ToSet(Dropped(s, n, i)) = Children(rows, p) \cup {n}
<1> DEFINE S == Children(rows, p) \ {n}
<1>1. S \subseteq DOMAIN rows /\ IsFiniteSet(S)
  BY FS_Subset DEF Children
<1>2. s \in SetToSeqs(S)
  BY DEF Siblings
<1>3. s \in Seq(S) /\ ToSet(s) = S
  <2> HIDE DEF S
  <2> QED BY <1>1, <1>2, SeqsCover
<1>4. s \in Seq(DOMAIN rows)
  <2> HIDE DEF S
  <2> QED BY <1>1, <1>3
<1>5. Dropped(s, n, i) \in Seq(DOMAIN rows) /\ ToSet(Dropped(s, n, i)) = ToSet(s) \cup {n}
  <2> DEFINE T == DOMAIN rows
  <2>1. s \in Seq(T) /\ n \in T
    BY <1>4
  <2> HIDE DEF T, S
  <2>2. Dropped(s, n, i) \in Seq(T) /\ ToSet(Dropped(s, n, i)) = ToSet(s) \cup {n}
    BY <2>1, DroppedAdds, SMTT(60)
  <2> QED BY <2>2 DEF T
<1> QED BY <1>3, <1>5
=============================================================================
