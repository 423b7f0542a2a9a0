-------------------------------- MODULE Trees ---------------------------------
(***************************************************************************)
(* The tree the role hierarchy and the lead categories share: rows that    *)
(* name their parent and their place among its children.  A request reads  *)
(* all rows once and judges depth, cycles and places on what it read; the  *)
(* operators here are over such a reading, a function from ids to rows.    *)
(***************************************************************************)
EXTENDS Naturals, FiniteSets, FiniteSetsExt, Sequences, SequencesExt

CONSTANT None  \* no parent: a root

Children(rows, p) == {n \in DOMAIN rows : rows[n].parent = p}

\* The parents above n.  Each is met once, so a loop among the rows ends the walk; a
\* parent that was not read ends it too.
Above(rows, n) ==
  LET up[k \in 0..Cardinality(DOMAIN rows)] ==
        IF k = 0 THEN {rows[n].parent}
        ELSE up[k - 1] \cup {rows[m].parent : m \in up[k - 1] \cap DOMAIN rows}
  IN up[Cardinality(DOMAIN rows)] \ {None}

Depth(rows, n) == 1 + Cardinality(Above(rows, n))

\* The rows k levels below n.
Level(rows, n, k) ==
  LET down[i \in 0..k] ==
        IF i = 0 THEN {n} ELSE {m \in DOMAIN rows : rows[m].parent \in down[i - 1]}
  IN down[k]

\* The walk down has no such guard: it never returns when n is above itself.
HasHeight(rows, n) == Level(rows, n, Cardinality(DOMAIN rows)) = {}
Height(rows, n) ==
  Cardinality({k \in 0..Cardinality(DOMAIN rows) : Level(rows, n, k) # {}})

\* Mutant: a row may go beneath what is beneath it.
OnlyNotItself(rows, n, p) == p \in DOMAIN rows /\ n # p

\* A row may go beneath p: not beneath itself and not beneath what is beneath it.
Beneath(rows, n, p) == p \in DOMAIN rows /\ n # p /\ n \notin Above(rows, p)

NextPosition(rows, p) ==
  IF Children(rows, p) = {} THEN 0 ELSE Max({rows[n].position : n \in Children(rows, p)}) + 1

\* The orders of p's children without n, by their places; equal places come in any order.
Siblings(rows, n, p) ==
  {s \in SetToSeqs(Children(rows, p) \ {n}) :
     \A i, j \in DOMAIN s : i < j => rows[s[i]].position <= rows[s[j]].position}

\* n is dropped at place i among them, or at the end.
Dropped(s, n, i) == InsertAt(s, (IF i < Len(s) THEN i ELSE Len(s)) + 1, n)

\* Mutant: the renumbering is one short.
OneShort(s, n) == (CHOOSE i \in DOMAIN s : s[i] = n) - 2

\* The siblings are renumbered from 0.
Place(s, n) == (CHOOSE i \in DOMAIN s : s[i] = n) - 1

-----------------------------------------------------------------------------
Acyclic(rows) == \A n \in DOMAIN rows : n \notin Above(rows, n)
Attached(rows) == \A n \in DOMAIN rows : rows[n].parent \in DOMAIN rows \cup {None}
InOrder(rows) ==
  \A n, m \in DOMAIN rows :
    n # m /\ rows[n].parent = rows[m].parent => rows[n].position # rows[m].position
==============================================================================
