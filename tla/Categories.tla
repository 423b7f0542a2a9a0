------------------------------ MODULE Categories ------------------------------
(***************************************************************************)
(* The enquiry categories, a tree without a depth limit, and the leads     *)
(* that carry their names.  Unlike a role a category is deleted for good,  *)
(* and its foreign keys hold whatever a request read; what a lead carries  *)
(* is text nobody checks, which a rename takes along.                      *)
(***************************************************************************)
EXTENDS Trees

CONSTANTS Categories, Names, Leads, Requests

VARIABLES category,  \* the categories rows, None: no row
          carries,   \* leads.category of the leads
          change     \* the requests past their first reads

vars == <<category, carries, change>>

CategoryRow == [name: Names, parent: Categories \cup {None}, position: Nat]

\* A request past its first reads: what it is to write, and what it read for it.
Call == [step: {"create", "update", "move", "count", "remove"},
         category: Categories \cup {None}, parent: Categories \cup {None},
         name: Names \cup {None}, position: Nat \cup {None}, order: Seq(Categories),
         was: Names \cup {None}, fresh: BOOLEAN]

NoneIsNoRow == None \notin Categories \cup Names \cup Nat \cup CategoryRow \cup Call
FiniteCategories == IsFiniteSet(Categories)

Existing == {n \in Categories : category[n] # None}

\* The rows hold what their columns can hold, and no two categories have one name.
TypeOK ==
  /\ category \in [Categories -> CategoryRow \cup {None}]
  /\ carries \in [Leads -> Names]
  /\ \A n, m \in Existing : n # m => category[n].name # category[m].name

Init ==
  /\ category = [n \in Categories |-> None]
  /\ carries \in [Leads -> Names]
  /\ change = [r \in Requests |-> None]

-----------------------------------------------------------------------------
\* loadGraph.
Graph == [n \in Existing |-> category[n]]

At(r, step) == change[r] # None /\ change[r].step = step
Done(r) == change' = [change EXCEPT ![r] = None]

\* Done, and the rows that others have read are no longer those that are there.
Wrote(r) ==
  change' = [q \in Requests |-> IF q = r \/ change[q] = None THEN None
                                ELSE [change[q] EXCEPT !.fresh = FALSE]]

\* name: what the category is to be called, None to keep its name.
\* fresh: no category was written since the request read them (history).
Started(step, n, p, name) ==
  [step |-> step, category |-> n, parent |-> p, name |-> name, position |-> None,
   order |-> <<>>, was |-> None, fresh |-> TRUE]

\* The name is free when it is checked; the unique index has the last word.
NameFree(name, n) == \A m \in Existing \ {n} : category[m].name # name
ParentExists(p) == p \in Existing \cup {None}
ReparentAllowed(n, p) == p = None \/ Beneath(Graph, n, p)

CheckCreate(r, name, p) ==
  /\ change[r] = None
  /\ NameFree(name, None) /\ ParentExists(p)
  /\ change' = [change EXCEPT ![r] = [Started("create", None, p, name) EXCEPT
                                        !.position = NextPosition(Graph, p)]]
  /\ UNCHANGED <<category, carries>>

Create(r, n) ==
  LET c == change[r]
  IN /\ At(r, "create")
     /\ category[n] = None
     /\ NameFree(c.name, None) /\ ParentExists(c.parent)
     /\ category' = [category EXCEPT ![n] = [name |-> c.name, parent |-> c.parent,
                                             position |-> c.position]]
     /\ Wrote(r)
     /\ UNCHANGED carries

\* An edit that names a parent and perhaps a name; the parent it has changes no place.
CheckUpdate(r, n, name, p) ==
  /\ change[r] = None
  /\ n \in Existing
  /\ ReparentAllowed(n, p)
  /\ name # None => NameFree(name, n)
  /\ change' = [change EXCEPT ![r] =
                  [Started("update", n, p, IF name = category[n].name THEN None ELSE name)
                     EXCEPT !.position = IF p = category[n].parent THEN None
                                         ELSE NextPosition(Graph, p),
                            !.was = category[n].name]]
  /\ UNCHANGED <<category, carries>>

\* Mutant: the leads that carry the name that was read are relabelled.
RelabelsRead(before, read) == read

\* The leads relabelled are those of the name the locked row has.
OldName(before, read) == before

Update(r) ==
  LET c == change[r]
      n == c.category
  IN /\ At(r, "update")
     /\ category[n] # None /\ ParentExists(c.parent)
     /\ c.name # None => NameFree(c.name, n)
     /\ category' = [category EXCEPT ![n] =
                       [name |-> IF c.name = None THEN @.name ELSE c.name,
                        parent |-> c.parent,
                        position |-> IF c.position = None THEN @.position ELSE c.position]]
     /\ carries' = [l \in Leads |->
                      IF c.name # None /\ carries[l] = OldName(category[n].name, c.was)
                      THEN c.name ELSE carries[l]]
     /\ Wrote(r)

CheckMove(r, n, p, i) ==
  /\ change[r] = None
  /\ n \in Existing /\ ReparentAllowed(n, p)
  /\ \E s \in Siblings(Graph, n, p) :
       change' = [change EXCEPT ![r] = [Started("move", n, p, None) EXCEPT
                                          !.order = Dropped(s, n, i)]]
  /\ UNCHANGED <<category, carries>>

\* Every sibling that was read is written, its parent too; if one is gone, none is.
Move(r) ==
  LET s == change[r].order
      p == change[r].parent
  IN /\ At(r, "move")
     /\ ToSet(s) \subseteq Existing /\ ParentExists(p)
     /\ category' = [n \in Categories |->
                       IF n \in ToSet(s)
                       THEN [category[n] EXCEPT !.parent = p, !.position = Place(s, n)]
                       ELSE category[n]]
     /\ Wrote(r)
     /\ UNCHANGED carries

CheckRemove(r, n) ==
  /\ change[r] = None
  /\ n \in Existing /\ Children(Graph, n) = {}
  /\ change' = [change EXCEPT ![r] = [Started("count", n, None, None) EXCEPT
                                        !.was = category[n].name]]
  /\ UNCHANGED <<category, carries>>

\* A category whose name a lead carries is refused; the name is the one that was read.
CountLeads(r) ==
  /\ At(r, "count")
  /\ IF \E l \in Leads : carries[l] = change[r].was
     THEN Done(r) ELSE change' = [change EXCEPT ![r].step = "remove"]
  /\ UNCHANGED <<category, carries>>

\* Mutant: the foreign key of the parent does not restrict the delete.
Cascades(n) == TRUE

Childless(n) == Children(Graph, n) = {}

RemoveCategory(r) ==
  LET n == change[r].category
  IN /\ At(r, "remove")
     /\ category[n] # None /\ Childless(n)
     /\ category' = [category EXCEPT ![n] = None]
     /\ Wrote(r)
     /\ UNCHANGED carries

\* A lead is saved with a category: any text, no category need have that name.
Label(l, name) ==
  /\ carries' = [carries EXCEPT ![l] = name]
  /\ UNCHANGED <<category, change>>

Fail(r) == change[r] # None /\ Done(r) /\ UNCHANGED <<category, carries>>

Next ==
  \/ \E r \in Requests :
       \/ \E p \in Categories \cup {None}, name \in Names : CheckCreate(r, name, p)
       \/ \E n \in Categories :
            \/ Create(r, n) \/ CheckRemove(r, n)
            \/ \E p \in Categories \cup {None} :
                 \/ \E name \in Names \cup {None} : CheckUpdate(r, n, name, p)
                 \/ \E i \in 0..Cardinality(Categories) : CheckMove(r, n, p, i)
       \/ Update(r) \/ Move(r) \/ CountLeads(r) \/ RemoveCategory(r) \/ Fail(r)
  \/ \E l \in Leads, name \in Names : Label(l, name)

Spec == Init /\ [][Next]_vars

-----------------------------------------------------------------------------
(* What the catalogue must keep. *)

\* Every parent is there: what is deleted meanwhile takes no branch along.
ParentsExist == Attached(Graph)

Sound(rows) == Acyclic(rows) /\ InOrder(rows)

\* A change that finds the tree as it read it keeps it sound: no category above itself,
\* no two in one place.
TreeKept ==
  [][\A r \in Requests :
       change[r] # None /\ change'[r] = None /\ change[r].fresh /\ Sound(Graph)
       => Sound(Graph')]_vars

\* A rename takes along exactly the leads that carry the name the category had, whatever
\* name the request had read.
RenameCarriesLeads ==
  [][\A n \in Categories :
       /\ category[n] # None /\ category'[n] # None
       /\ category[n].name # category'[n].name
       => \A l \in Leads :
            carries'[l] = IF carries[l] = category[n].name THEN category'[n].name
                          ELSE carries[l]]_vars
==============================================================================
