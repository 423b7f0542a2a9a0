-------------------------------- MODULE Roles ---------------------------------
(***************************************************************************)
(* The role hierarchy and the members who hold its roles.  Every request   *)
(* reads the live roles and checks its change against that reading; the    *)
(* transaction that writes it locks at most the row it changes, so another *)
(* request may have changed the tree in between.                           *)
(***************************************************************************)
EXTENDS Trees

CONSTANTS Roles, Members, Requests,
          Removed,  \* a row that is soft-deleted: nothing reads its place
          MaxDepth  \* the deepest level a role may sit at

DepthIsPositive == MaxDepth \in Nat \ {0}

VARIABLES role,    \* the roles rows, None: no row yet
          holds,   \* users.role_id, with whether it was overtaken (history)
          change   \* the requests past their first read

vars == <<role, holds, change>>

RoleRow == [parent: Roles \cup {None}, position: Nat]
Steps == {"create", "update", "move", "count", "remove", "assign"}

\* What a request asks, once it is past its first read, and what it has read.  fresh: nothing
\* was written since (history).
Call == [step: Steps, role: Roles \cup {None}, parent: Roles \cup {None},
         position: Nat \cup {None}, order: Seq(Roles), member: Members \cup {None},
         fresh: BOOLEAN]

NoneIsNoRow ==
  /\ None # Removed /\ {None, Removed} \cap (Roles \cup RoleRow) = {}
  /\ None \notin Nat \cup Call
FiniteRoles == IsFiniteSet(Roles)

\* The rows hold what their columns can hold.
TypeOK ==
  /\ role \in [Roles -> RoleRow \cup {None, Removed}]
  /\ holds \in [Members -> [role: Roles \cup {None}, late: BOOLEAN]]
  /\ \A r \in Requests : change[r] # None => change[r].step \in Steps

Init ==
  /\ role = [n \in Roles |-> None]
  /\ holds = [u \in Members |-> [role |-> None, late |-> FALSE]]
  /\ change = [r \in Requests |-> None]

-----------------------------------------------------------------------------
Live == {n \in Roles : role[n] \notin {None, Removed}}

\* loadGraph.
Graph == [n \in Live |-> role[n]]

At(r, step) == change[r] # None /\ change[r].step = step
Done(r) == change' = [change EXCEPT ![r] = None]

\* Done, and what the others have read is no longer what is there.
Wrote(r) ==
  change' = [q \in Requests |-> IF q = r \/ change[q] = None THEN None
                                ELSE [change[q] EXCEPT !.fresh = FALSE]]

Started(step, n, p) ==
  [step |-> step, role |-> n, parent |-> p, position |-> None, order |-> <<>>,
   member |-> None, fresh |-> TRUE]

\* Mutant: the depth of the parent alone is checked.
ParentFits(rows, n, p) == p = None \/ (Beneath(rows, n, p) /\ Depth(rows, p) + 1 <= MaxDepth)

\* Any role may become a root; the depth of a role above itself cannot be told.
ReparentAllowed(rows, n, p) ==
  p = None \/ (/\ Beneath(rows, n, p)
               /\ HasHeight(rows, n)
               /\ Depth(rows, p) + Height(rows, n) <= MaxDepth)

-----------------------------------------------------------------------------
CheckCreate(r, p) ==
  /\ change[r] = None
  /\ p # None => p \in Live /\ Depth(Graph, p) + 1 <= MaxDepth
  /\ change' = [change EXCEPT ![r] = [Started("create", None, p) EXCEPT
                                        !.position = NextPosition(Graph, p)]]
  /\ UNCHANGED <<role, holds>>

\* The name, unique among all rows, is what a second create may fail on; the parent is
\* only required to have a row.
Create(r, n) ==
  /\ At(r, "create")
  /\ role[n] = None
  /\ role' = [role EXCEPT ![n] = [parent |-> change[r].parent, position |-> change[r].position]]
  /\ Wrote(r)
  /\ UNCHANGED holds

\* An edit that names a parent; without one it changes nothing of the tree.
CheckUpdate(r, n, p) ==
  /\ change[r] = None
  /\ n \in Live /\ ReparentAllowed(Graph, n, p)
  /\ change' = [change EXCEPT ![r] =
                  [Started("update", n, p) EXCEPT
                     !.position = IF p = role[n].parent THEN None
                                  ELSE NextPosition(Graph, p)]]
  /\ UNCHANGED <<role, holds>>

\* The place is written only with a new parent.
Update(r) ==
  LET n == change[r].role
      c == change[r]
  IN /\ At(r, "update")
     /\ role' = [role EXCEPT ![n] =
                   IF @ = Removed THEN Removed
                   ELSE [parent |-> c.parent,
                         position |-> IF c.position = None THEN @.position ELSE c.position]]
     /\ Wrote(r)
     /\ UNCHANGED holds

\* Mutant: the siblings are those the role leaves.
OldSiblings(rows, n, p) == Siblings(rows, n, rows[n].parent)

NewSiblings(rows, n, p) == Siblings(rows, n, p)

CheckMove(r, n, p, i) ==
  /\ change[r] = None
  /\ n \in Live /\ ReparentAllowed(Graph, n, p)
  /\ \E s \in NewSiblings(Graph, n, p) :
       change' = [change EXCEPT ![r] = [Started("move", n, p) EXCEPT
                                          !.order = Dropped(s, n, i)]]
  /\ UNCHANGED <<role, holds>>

\* Every sibling that was read is written, its parent too.
Move(r) ==
  LET s == change[r].order
  IN /\ At(r, "move")
     /\ role' = [n \in Roles |->
                   IF n \in ToSet(s) /\ role[n] # Removed
                   THEN [parent |-> change[r].parent, position |-> Place(s, n)]
                   ELSE role[n]]
     /\ Wrote(r)
     /\ UNCHANGED holds

CheckRemove(r, n) ==
  /\ change[r] = None
  /\ n \in Live /\ Children(Graph, n) = {}
  /\ change' = [change EXCEPT ![r] = Started("count", n, None)]
  /\ UNCHANGED <<role, holds>>

Holders(n) == {u \in Members : holds[u].role = n}

\* Mutant: the members are not counted.
Uncounted(r) == TRUE

NobodyHolds(r) == Holders(change[r].role) = {}

\* A role that is assigned is refused.
CountHolders(r) ==
  /\ At(r, "count")
  /\ IF NobodyHolds(r) THEN change' = [change EXCEPT ![r].step = "remove"] ELSE Done(r)
  /\ UNCHANGED <<role, holds>>

\* Soft, and conditional on the row being live still.
RemoveRole(r) ==
  LET n == change[r].role
  IN /\ At(r, "remove")
     /\ role[n] # Removed
     /\ role' = [role EXCEPT ![n] = Removed]
     /\ Wrote(r)
     /\ UNCHANGED holds

\* A member is saved with a role: it is read, and written with the member.
CheckAssign(r, u, n) ==
  /\ change[r] = None
  /\ n \in Live
  /\ change' = [change EXCEPT ![r] = [Started("assign", n, None) EXCEPT !.member = u]]
  /\ UNCHANGED <<role, holds>>

Assign(r) ==
  LET n == change[r].role
  IN /\ At(r, "assign")
     /\ holds' = [holds EXCEPT ![change[r].member] =
                    [role |-> n,
                     late |-> \/ role[n] = Removed
                              \/ \E q \in Requests : At(q, "remove") /\ change[q].role = n]]
     /\ Done(r)
     /\ UNCHANGED role

Fail(r) == change[r] # None /\ Done(r) /\ UNCHANGED <<role, holds>>

Next ==
  \E r \in Requests :
    \/ \E p \in Roles \cup {None} :
         \/ CheckCreate(r, p)
         \/ \E n \in Roles :
              \/ CheckUpdate(r, n, p)
              \/ \E i \in 0..Cardinality(Roles) : CheckMove(r, n, p, i)
    \/ \E n \in Roles :
         \/ Create(r, n) \/ CheckRemove(r, n)
         \/ \E u \in Members : CheckAssign(r, u, n)
    \/ Update(r) \/ Move(r) \/ CountHolders(r) \/ RemoveRole(r) \/ Assign(r) \/ Fail(r)

Spec == Init /\ [][Next]_vars

-----------------------------------------------------------------------------
(* What the hierarchy must keep. *)

Sound(rows) ==
  /\ Acyclic(rows) /\ Attached(rows) /\ InOrder(rows)
  /\ \A n \in DOMAIN rows : Depth(rows, n) <= MaxDepth

Writes(r) == change[r] # None /\ change[r].step \in {"create", "update", "move"}

\* A change that finds the tree as it read it keeps it sound: no role above itself, none
\* deeper than the limit or beneath a removed one, and no two in one place.
SoundKept ==
  [][\A r \in Requests :
       Writes(r) /\ change'[r] = None /\ change[r].fresh /\ Sound(Graph)
       => Sound(Graph')]_vars

\* A move puts nothing but the dragged role beneath another parent, provided the tree is
\* as it was read.
OnlyDraggedMoves ==
  [][\A r \in Requests :
       At(r, "move") /\ change'[r] = None /\ change[r].fresh
       => \A n \in Live \ {change[r].role} : role'[n].parent = role[n].parent]_vars

\* Nobody holds a removed role, unless it was assigned between the count and the removal
\* or removed between the check and the assignment.
RemovedIsUnheld ==
  \A u \in Members :
    LET n == holds[u].role IN n # None /\ role[n] = Removed => holds[u].late

\* No role is beneath itself: the move that would cause it is refused.
NoLoop == Acyclic(Graph)
==============================================================================
