----------------------------- MODULE Permissions ------------------------------
(***************************************************************************)
(* What decides what a member may do: teams with the tag policies (Teams), *)
(* and the role hierarchy (Roles).  They share no row (a member's role and *)
(* his team are columns no request writes together), so a behaviour is of  *)
(* one part, chosen at its start.                                          *)
(*                                                                         *)
(* A behaviour of the whole is therefore one of each part's specification, *)
(* and what is proved of a part, for every number of roles, members,       *)
(* labels, tags and requests, holds of the whole.                          *)
(***************************************************************************)
EXTENDS Roles, TreesProofs

CONSTANTS Parts,                          \* the parts to explore
          Users, Teams, Tags, Sellers, Overridable, Fold  \* teams

VARIABLES part, team, gone, policy, tag, teamChange

teamVars == <<team, gone, policy, tag, teamChange>>
allVars == <<part, vars, teamVars>>

T == INSTANCE Teams WITH change <- teamChange

ASSUME RolesAssumptions == DepthIsPositive /\ NoneIsNoRow /\ FiniteRoles
ASSUME TeamsAssumptions == T!NoneIsNothing /\ T!TeamsAreNoUsers

MembersInit == part \in Parts /\ Init /\ T!Init

MembersNext ==
  \/ part = "teams" /\ T!Next /\ UNCHANGED <<part, vars>>
  \/ part = "roles" /\ Next /\ UNCHANGED <<part, teamVars>>

MembersSpec == MembersInit /\ [][MembersNext]_allVars

-----------------------------------------------------------------------------
(* What the parts keep, as they state it. *)

\* Members, policies and tags are well-formed and no team has two spellings; nobody holds a
\* removed role unless the assignment and the removal overlapped.
MembersSound == /\ part = "teams" => T!TypeOK /\ T!OneSpelling
                /\ part = "roles" => TypeOK /\ RemovedIsUnheld

\* A rename of a team costs nobody his access unless the team's first policy is saved meanwhile,
\* and whoever creates a tag may use it unless another list governs him by then; a change that
\* finds the role hierarchy as it read it keeps it sound and puts only the dragged role elsewhere.
MembersKept == /\ T!RenameKeepsAccess /\ T!CreatorMayUse
               /\ SoundKept /\ OnlyDraggedMoves

-----------------------------------------------------------------------------
(***************************************************************************)
(* Roles.  A request writes on what its check read, so the check has to be *)
(* part of the invariant: Placed says what is still true of it, and what   *)
(* is true of it while no other request has written.                       *)
(***************************************************************************)

CallsTyped == change \in [Requests -> Call \cup {None}]

\* What a request read of the tree, while it is true.
Read(c) ==
  /\ c.step = "create" =>
       /\ c.position = NextPosition(Graph, c.parent)
       /\ c.parent # None => c.parent \in Live /\ Depth(Graph, c.parent) + 1 <= MaxDepth
  /\ c.step \in {"update", "move"} => c.role \in Live /\ ReparentAllowed(Graph, c.role, c.parent)
  /\ c.step = "update" =>
       c.position = IF c.parent = role[c.role].parent THEN None ELSE NextPosition(Graph, c.parent)
  /\ c.step = "move" => ToSet(c.order) = Children(Graph, c.parent) \cup {c.role}

Placed(c) ==
  /\ c.step = "create" => c.position \in Nat
  /\ c.step # "create" => c.role \in Roles /\ role[c.role] # None
  /\ c.step = "assign" => c.member \in Members
  /\ c.step = "remove" => \A u \in Members : holds[u].role = c.role => holds[u].late
  /\ c.fresh => Read(c)

CallsPlaced == \A r \in Requests : change[r] # None => Placed(change[r])

IInv == TypeOK /\ RemovedIsUnheld /\ CallsTyped /\ CallsPlaced

-----------------------------------------------------------------------------
(* The rows. *)

LEMMA GraphRows ==
  ASSUME NoneIsNoRow, FiniteRoles, TypeOK
  PROVE  /\ DOMAIN Graph = Live /\ IsFiniteSet(Live) /\ Live \subseteq Roles
         /\ None \notin Live
         /\ \A n \in Live : Graph[n] = role[n] /\ role[n] \in RoleRow
         /\ \A n \in Live : role[n].parent \in Roles \cup {None} /\ role[n].position \in Nat
<1>1. IsFiniteSet(Live)
  BY FS_Subset DEF Live, FiniteRoles
<1>2. \A n \in Live : role[n] \in RoleRow
  BY DEF Live, TypeOK
<1> QED BY <1>1, <1>2 DEF Graph, Live, NoneIsNoRow, RoleRow

LEMMA NextRows ==
  ASSUME NoneIsNoRow, FiniteRoles, role' \in [Roles -> RoleRow \cup {None, Removed}]
  PROVE  /\ DOMAIN Graph' = Live' /\ IsFiniteSet(Live') /\ None \notin Live'
         /\ \A n \in Roles : n \in Live' <=> role'[n] \in RoleRow
         /\ \A n \in Live' : Graph'[n] = role'[n] /\ role'[n] \in RoleRow
<1>1. IsFiniteSet(Live')
  BY FS_Subset DEF Live, FiniteRoles
<1> QED BY <1>1 DEF Graph, Live, NoneIsNoRow

LEMMA CallIsNotNone ==
  ASSUME NoneIsNoRow
  PROVE  \A c \in Call : c # None
BY DEF NoneIsNoRow

LEMMA RowIsNotNone ==
  ASSUME NoneIsNoRow
  PROVE  \A row \in RoleRow : row # None /\ row # Removed
BY DEF NoneIsNoRow

\* A request that does not write leaves the rows, and what others read of them.
LEMMA ReaderKeeps ==
  ASSUME NoneIsNoRow, IInv, UNCHANGED <<role, holds>>, NEW r \in Requests, NEW c,
         c \in Call \cup {None}, change' = [change EXCEPT ![r] = c],
         c # None => Placed(c)
  PROVE  IInv'
<1>1. Graph' = Graph /\ Live' = Live
  BY DEF Graph, Live
<1>2. CallsTyped'
  BY DEF IInv, CallsTyped
<1>3. \A d : Placed(d)' <=> Placed(d)
  BY <1>1 DEF Placed, Read, ReparentAllowed
<1>4. \A q \in Requests : change'[q] = IF q = r THEN c ELSE change[q]
  BY DEF IInv, CallsTyped
<1>5. CallsPlaced'
  <2>1. \A q \in Requests : change'[q] # None => Placed(change'[q])
    BY <1>4 DEF IInv, CallsPlaced
  <2>2. \A q \in Requests : change'[q] # None => \A d : d = change'[q] => Placed(d)'
    BY <2>1, <1>3
  <2> QED BY <2>2 DEF CallsPlaced
<1>6. TypeOK'
  <2>1. \A q \in Requests : change'[q] # None => change'[q].step \in Steps
    BY <1>2 DEF CallsTyped, Call
  <2> QED BY <2>1 DEF IInv, TypeOK
<1>7. RemovedIsUnheld'
  BY DEF IInv, RemovedIsUnheld
<1> QED BY <1>2, <1>5, <1>6, <1>7 DEF IInv

\* A request that writes leaves nobody who read the rows as they are.
LEMMA WriterDone ==
  ASSUME NoneIsNoRow, IInv, NEW r \in Requests, Wrote(r), UNCHANGED holds,
         \A n \in Roles : role[n] # None => role'[n] # None
  PROVE  /\ CallsTyped' /\ CallsPlaced'
         /\ \A q \in Requests : change'[q] # None => change'[q].step \in Steps
         /\ \A q \in Requests : change[q] # None /\ change'[q] = None => q = r
<1>1. ASSUME NEW q \in Requests, q # r, change[q] # None
      PROVE  /\ change'[q] \in Call /\ ~change'[q].fresh
             /\ change'[q].step = change[q].step /\ change'[q].role = change[q].role
             /\ change'[q].member = change[q].member /\ change'[q].position = change[q].position
  <2>1. change[q] \in Call
    BY <1>1 DEF IInv, CallsTyped
  <2>2. change'[q] = [change[q] EXCEPT !.fresh = FALSE]
    BY <1>1 DEF Wrote
  <2> QED BY <2>1, <2>2 DEF Call
<1>2. \A q \in Requests : q = r \/ change[q] = None => change'[q] = None
  BY DEF Wrote
<1>3. CallsTyped'
  <2>1. change' = [q \in Requests |-> change'[q]]
    BY DEF Wrote
  <2> QED BY <1>1, <1>2, <2>1 DEF CallsTyped
<1>4. CallsPlaced'
  <2> SUFFICES ASSUME NEW q \in Requests, q # r, change[q] # None
               PROVE  \A d : d = change'[q] => Placed(d)'
    BY <1>2 DEF CallsPlaced
  <2>1. Placed(change[q])
    BY DEF IInv, CallsPlaced
  <2> QED BY <1>1, <2>1 DEF Placed
<1>5. \A q \in Requests : change'[q] # None => change'[q].step \in Steps
  BY <1>3 DEF CallsTyped, Call
<1> QED BY <1>1, <1>2, <1>3, <1>4, <1>5, CallIsNotNone

-----------------------------------------------------------------------------
(* The checks. *)

LEMMA StartedCall ==
  ASSUME NEW step \in Steps, NEW n \in Roles \cup {None}, NEW p \in Roles \cup {None}
  PROVE  LET c == Started(step, n, p)
         IN  c \in Call /\ c.step = step /\ c.role = n /\ c.parent = p
<1>1. <<>> \in Seq(Roles)
  OBVIOUS
<1> QED BY <1>1 DEF Started, Call

LEMMA CheckCreateKeeps ==
  ASSUME NoneIsNoRow, FiniteRoles, IInv, NEW r \in Requests, NEW p \in Roles \cup {None},
         CheckCreate(r, p)
  PROVE  IInv'
<1> DEFINE b == Started("create", None, p)
           c == [b EXCEPT !.position = NextPosition(Graph, p)]
<1>1. NextPosition(Graph, p) \in Nat
  BY GraphRows, NextPositionFree DEF IInv
<1>2. b \in Call /\ b.step = "create" /\ b.parent = p
  BY StartedCall DEF Steps
<1>3. c \in Call /\ c.step = "create" /\ c.parent = p /\ c.position = NextPosition(Graph, p)
  <2> HIDE DEF b
  <2> QED BY <1>1, <1>2 DEF Call
<1>4. /\ change' = [change EXCEPT ![r] = c] /\ UNCHANGED <<role, holds>>
      /\ p # None => p \in Live /\ Depth(Graph, p) + 1 <= MaxDepth
  BY DEF CheckCreate
<1> HIDE DEF c
<1>5. Placed(c)
  BY <1>1, <1>3, <1>4 DEF Placed, Read
<1> QED BY <1>3, <1>4, <1>5, ReaderKeeps

LEMMA CheckUpdateKeeps ==
  ASSUME NoneIsNoRow, FiniteRoles, IInv, NEW r \in Requests, NEW n \in Roles,
         NEW p \in Roles \cup {None}, CheckUpdate(r, n, p)
  PROVE  IInv'
<1> DEFINE position == IF p = role[n].parent THEN None ELSE NextPosition(Graph, p)
           b == Started("update", n, p)
           c == [b EXCEPT !.position = position]
<1>1. position \in Nat \cup {None}
  BY GraphRows, NextPositionFree DEF IInv
<1>2. b \in Call /\ b.step = "update" /\ b.role = n /\ b.parent = p
  BY StartedCall DEF Steps
<1>3. /\ c \in Call /\ c.step = "update" /\ c.role = n /\ c.parent = p /\ c.position = position
  <2> HIDE DEF b, position
  <2> QED BY <1>1, <1>2 DEF Call
<1>4. /\ change' = [change EXCEPT ![r] = c] /\ UNCHANGED <<role, holds>>
      /\ n \in Live /\ ReparentAllowed(Graph, n, p) /\ role[n] # None
  BY DEF CheckUpdate, Live
<1>5. Placed(c)
  <2> HIDE DEF c
  <2> QED BY <1>3, <1>4 DEF Placed, Read
<1> HIDE DEF c
<1> QED BY <1>3, <1>4, <1>5, ReaderKeeps

LEMMA CheckMoveKeeps ==
  ASSUME NoneIsNoRow, FiniteRoles, IInv, NEW r \in Requests, NEW n \in Roles,
         NEW p \in Roles \cup {None}, NEW i \in 0..Cardinality(Roles), CheckMove(r, n, p, i)
  PROVE  IInv'
<1>1. n \in Live /\ ReparentAllowed(Graph, n, p) /\ role[n] # None
  BY DEF CheckMove, Live
<1>2. PICK s \in Siblings(Graph, n, p) :
        change' = [change EXCEPT ![r] = [Started("move", n, p) EXCEPT !.order = Dropped(s, n, i)]]
  BY DEF CheckMove, NewSiblings
<1> DEFINE order == Dropped(s, n, i)
           b == Started("move", n, p)
           c == [b EXCEPT !.order = order]
<1>3. i \in Nat
  BY FS_CardinalityType DEF FiniteRoles
<1>4. order \in Seq(Live) /\ ToSet(order) = Children(Graph, p) \cup {n}
  BY <1>1, <1>3, GraphRows, DroppedAmong DEF IInv
<1>5. change' = [change EXCEPT ![r] = c] /\ UNCHANGED <<role, holds>>
  BY <1>2 DEF CheckMove
<1> HIDE DEF order
<1>6. order \in Seq(Roles)
  BY <1>4, GraphRows DEF IInv
<1>7. b \in Call /\ b.step = "move" /\ b.role = n /\ b.parent = p
  BY StartedCall DEF Steps
<1>8. c \in Call /\ c.step = "move" /\ c.role = n /\ c.parent = p /\ c.order = order
  <2> HIDE DEF b
  <2> QED BY <1>6, <1>7 DEF Call
<1> HIDE DEF c
<1>9. Placed(c)
  BY <1>1, <1>4, <1>8 DEF Placed, Read
<1> QED BY <1>5, <1>8, <1>9, ReaderKeeps

LEMMA CheckRemoveKeeps ==
  ASSUME NoneIsNoRow, FiniteRoles, IInv, NEW r \in Requests, NEW n \in Roles, CheckRemove(r, n)
  PROVE  IInv'
<1> DEFINE c == Started("count", n, None)
<1>1. c \in Call /\ c.step = "count" /\ c.role = n
  BY StartedCall DEF Steps
<1>2. change' = [change EXCEPT ![r] = c] /\ UNCHANGED <<role, holds>> /\ role[n] # None
  BY DEF CheckRemove, Live
<1> HIDE DEF c
<1>3. Placed(c)
  BY <1>1, <1>2 DEF Placed, Read
<1> QED BY <1>1, <1>2, <1>3, ReaderKeeps

LEMMA CountHoldersKeeps ==
  ASSUME NoneIsNoRow, FiniteRoles, IInv, NEW r \in Requests, CountHolders(r)
  PROVE  IInv'
<1> DEFINE c == [change[r] EXCEPT !.step = "remove"]
<1>1. change[r] \in Call /\ Placed(change[r]) /\ change[r].step = "count"
  BY DEF IInv, CallsTyped, CallsPlaced, CountHolders, At
<1>2. /\ c \in Call /\ c.step = "remove" /\ c.role = change[r].role
  BY <1>1 DEF Call, Steps
<1>3. /\ UNCHANGED <<role, holds>>
      /\ \/ change' = [change EXCEPT ![r] = None]
         \/ change' = [change EXCEPT ![r] = c] /\ Holders(change[r].role) = {}
  BY DEF CountHolders, Done, NobodyHolds, IInv, CallsTyped
<1> HIDE DEF c
<1>4. Holders(change[r].role) = {} => Placed(c)
  BY <1>1, <1>2 DEF Placed, Read, Holders
<1> QED BY <1>2, <1>3, <1>4, ReaderKeeps

LEMMA CheckAssignKeeps ==
  ASSUME NoneIsNoRow, FiniteRoles, IInv, NEW r \in Requests, NEW u \in Members, NEW n \in Roles,
         CheckAssign(r, u, n)
  PROVE  IInv'
<1> DEFINE b == Started("assign", n, None)
           c == [b EXCEPT !.member = u]
<1>1. b \in Call /\ b.step = "assign" /\ b.role = n
  BY StartedCall DEF Steps
<1>2. c \in Call /\ c.step = "assign" /\ c.role = n /\ c.member = u
  <2> HIDE DEF b
  <2> QED BY <1>1 DEF Call
<1>3. change' = [change EXCEPT ![r] = c] /\ UNCHANGED <<role, holds>> /\ role[n] # None
  BY DEF CheckAssign, Live
<1> HIDE DEF c
<1>4. Placed(c)
  BY <1>2, <1>3 DEF Placed, Read
<1> QED BY <1>2, <1>3, <1>4, ReaderKeeps

\* Whoever is given a role that is about to be removed, or is, is late.
LEMMA AssignKeeps ==
  ASSUME NoneIsNoRow, FiniteRoles, IInv, NEW r \in Requests, Assign(r)
  PROVE  IInv'
<1> DEFINE c == change[r]
           n == c.role
           u == c.member
           late == role[n] = Removed \/ \E q \in Requests : At(q, "remove") /\ change[q].role = n
<1>1. /\ c \in Call /\ Placed(c) /\ c.step = "assign"
      /\ UNCHANGED role /\ change' = [change EXCEPT ![r] = None]
      /\ holds' = [holds EXCEPT ![u] = [role |-> n, late |-> late]]
  BY DEF IInv, CallsTyped, CallsPlaced, Assign, At, Done
<1>2. n \in Roles /\ u \in Members /\ late \in BOOLEAN
  BY <1>1 DEF Placed
<1>3. /\ role[n] = Removed => late
      /\ \A q \in Requests : change[q] # None /\ change[q].step = "remove" /\ change[q].role = n
           => late
  BY DEF At
<1> HIDE DEF late, n, u, c
<1>4. /\ holds' \in [Members -> [role: Roles \cup {None}, late: BOOLEAN]]
      /\ \A v \in Members : v # u => holds'[v] = holds[v]
      /\ holds'[u].role = n /\ holds'[u].late = late
  BY <1>1, <1>2 DEF IInv, TypeOK
<1>5. /\ CallsTyped'
      /\ \A q \in Requests : change'[q] # None => q # r /\ change'[q] = change[q]
  BY <1>1 DEF IInv, CallsTyped
<1>6. TypeOK'
  BY <1>1, <1>4, <1>5 DEF IInv, TypeOK
<1>7. RemovedIsUnheld'
  BY <1>1, <1>2, <1>3, <1>4 DEF IInv, RemovedIsUnheld
<1>8. CallsPlaced'
  <2> SUFFICES ASSUME NEW q \in Requests, change'[q] # None
               PROVE  \A d : d = change[q] => Placed(d)'
    BY <1>5 DEF CallsPlaced
  <2>1. Graph' = Graph /\ Live' = Live
    BY <1>1 DEF Graph, Live
  <2>2. Placed(change[q]) /\ change[q] # None
    BY <1>5 DEF IInv, CallsPlaced
  <2>3. change[q].step = "remove" =>
          \A v \in Members : holds'[v].role = change[q].role => holds'[v].late
    BY <1>3, <1>4, <2>2 DEF Placed
  <2> QED BY <1>1, <2>1, <2>2, <2>3 DEF Placed, Read, ReparentAllowed
<1> QED BY <1>5, <1>6, <1>7, <1>8 DEF IInv

LEMMA FailKeeps ==
  ASSUME NoneIsNoRow, IInv, NEW r \in Requests, Fail(r)
  PROVE  IInv'
<1>1. UNCHANGED <<role, holds>> /\ change' = [change EXCEPT ![r] = None]
  BY DEF Fail, Done
<1> QED BY <1>1, ReaderKeeps
-----------------------------------------------------------------------------
(* The writes. *)

LEMMA Asked ==
  ASSUME IInv, NEW r \in Requests, change[r] # None
  PROVE  /\ change[r] \in Call /\ Placed(change[r])
         /\ change[r].role \in Roles \cup {None}
         /\ change[r].parent \in Roles \cup {None}
         /\ change[r].position \in Nat \cup {None}
         /\ change[r].order \in Seq(Roles)
<1>1. change[r] \in Call
  BY DEF IInv, CallsTyped
<1> QED BY <1>1 DEF Call, IInv, CallsPlaced

\* Fewer rows above is less deep.
LEMMA LessAbove ==
  ASSUME NEW rows, NEW next, IsFiniteSet(DOMAIN rows), NEW m \in DOMAIN rows, Attached(rows),
         Above(next, m) \subseteq Above(rows, m)
  PROVE  Depth(next, m) <= Depth(rows, m) /\ Depth(next, m) \in Nat /\ Depth(rows, m) \in Nat
<1>1. IsFiniteSet(Above(rows, m))
  BY AboveIsThere, FS_Subset
<1>2. /\ IsFiniteSet(Above(next, m))
      /\ Cardinality(Above(next, m)) <= Cardinality(Above(rows, m))
  BY <1>1, FS_Subset
<1>3. Cardinality(Above(next, m)) \in Nat /\ Cardinality(Above(rows, m)) \in Nat
  BY <1>1, <1>2, FS_CardinalityType
<1> QED BY <1>2, <1>3 DEF Depth

\* A tree in which one role went where it may go is as sound as it was, but for the places.
LEMMA ReparentedSound ==
  ASSUME DepthIsPositive, NEW g, NEW h, IsFiniteSet(DOMAIN g), None \notin DOMAIN g, Sound(g),
         DOMAIN h = DOMAIN g, NEW n \in DOMAIN g, NEW p, h[n].parent = p,
         ReparentAllowed(g, n, p), \A m \in DOMAIN g \ {n} : h[m].parent = g[m].parent
  PROVE  Acyclic(h) /\ Attached(h) /\ \A m \in DOMAIN h : Depth(h, m) <= MaxDepth
<1>1. /\ Acyclic(g) /\ Attached(g) /\ \A m \in DOMAIN g : Depth(g, m) <= MaxDepth
      /\ p = None \/ (Beneath(g, n, p) /\ Depth(g, p) + Height(g, n) <= MaxDepth)
      /\ MaxDepth \in Nat
  BY DEF Sound, ReparentAllowed, DepthIsPositive
<1>2. /\ Acyclic(h)
      /\ \A m \in DOMAIN g : n \notin {m} \cup Above(g, m) => Above(h, m) \subseteq Above(g, m)
  <2>1. p = None \/ Beneath(g, n, p)
    BY <1>1
  <2> QED BY <1>1, <2>1, Reparented
<1>3. Attached(h)
  BY <1>1 DEF Attached, Beneath
<1>4. ASSUME NEW m \in DOMAIN g, Above(h, m) \subseteq Above(g, m) PROVE Depth(h, m) <= MaxDepth
  BY <1>1, <1>4, LessAbove
<1>5. ASSUME NEW m \in DOMAIN g PROVE Depth(h, m) <= MaxDepth
  <2>1. CASE p = None
    <3>1. \A k \in DOMAIN g : Above(h, k) \subseteq Above(g, k)
      BY <2>1, MadeRoot
    <3> QED BY <3>1, <1>4
  <2>2. CASE p # None /\ n \notin {m} \cup Above(g, m)
    BY <2>2, <1>2, <1>4
  <2>3. CASE p # None /\ n \in {m} \cup Above(g, m)
    <3>1. Depth(h, m) <= Depth(g, p) + Height(g, n)
      BY <1>1, <2>3, DeeperBy
    <3>2. Depth(h, m) \in Nat
      <4>1. Above(h, m) \subseteq DOMAIN h
        BY <1>3, AboveIsThere
      <4>2. Cardinality(Above(h, m)) \in Nat
        BY <4>1, FS_Subset, FS_CardinalityType
      <4> QED BY <4>2 DEF Depth
    <3>3. Depth(g, p) \in Nat /\ Height(g, n) \in Nat
      <4>1. p \in DOMAIN g
        BY <1>1, <2>3 DEF Beneath
      <4>2. Above(g, p) \subseteq DOMAIN g
        BY <1>1, <4>1, AboveIsThere
      <4>3. Cardinality(Above(g, p)) \in Nat
        BY <4>2, FS_Subset, FS_CardinalityType
      <4> QED BY <1>1, <4>3, HeightBounds DEF Depth
    <3> QED BY <1>1, <2>3, <3>1, <3>2, <3>3
  <2> QED BY <2>1, <2>2, <2>3
<1> QED BY <1>2, <1>3, <1>5

\* A new leaf beneath p is one deeper than p.
LEMMA LeafSound ==
  ASSUME DepthIsPositive, NEW g, NEW h, IsFiniteSet(DOMAIN g), IsFiniteSet(DOMAIN h),
         None \notin DOMAIN h, Sound(g), NEW n, n \notin DOMAIN g, DOMAIN h = DOMAIN g \cup {n},
         NEW p, h[n].parent = p, p # None => p \in DOMAIN g /\ Depth(g, p) + 1 <= MaxDepth,
         \A m \in DOMAIN g : h[m].parent = g[m].parent
  PROVE  Acyclic(h) /\ Attached(h) /\ \A m \in DOMAIN h : Depth(h, m) <= MaxDepth
<1>1. /\ Acyclic(g) /\ Attached(g) /\ \A m \in DOMAIN g : Depth(g, m) <= MaxDepth
      /\ MaxDepth \in Nat /\ MaxDepth >= 1
  BY DEF Sound, DepthIsPositive
<1>2. Acyclic(h) /\ \A m \in DOMAIN g : Above(h, m) \subseteq Above(g, m)
  <2>1. h[n].parent \in DOMAIN g \cup {None}
    OBVIOUS
  <2> QED BY <1>1, <2>1, NewIsBelow
<1>3. Attached(h)
  BY <1>1 DEF Attached
<1>4. ASSUME NEW m \in DOMAIN g PROVE Depth(h, m) <= MaxDepth
  BY <1>1, <1>2, LessAbove
<1>5. Depth(h, n) <= MaxDepth
  <2>1. CASE p = None
    <3>1. Above(h, n) = {}
      BY <2>1, AboveParent
    <3> QED BY <1>1, <3>1, FS_EmptySet DEF Depth
  <2>2. CASE p # None
    <3>1. Above(h, n) = Above(h, p) \cup {p}
      BY <2>2, AboveParent
    <3>2. Depth(h, p) <= Depth(g, p) /\ Depth(h, p) \in Nat /\ Depth(g, p) \in Nat
      BY <1>1, <1>2, <2>2, LessAbove
    <3>3. IsFiniteSet(Above(h, p)) /\ Cardinality(Above(h, p)) \in Nat
      BY <1>3, <2>2, AboveIsThere, FS_Subset, FS_CardinalityType
    <3>4. p \notin Above(h, p)
      BY <1>2, <2>2 DEF Acyclic
    <3>5. Cardinality(Above(h, n)) = Cardinality(Above(h, p)) + 1
      <4>1. Cardinality(Above(h, p) \cup {p}) = Cardinality(Above(h, p)) + 1
        <5> DEFINE A == Above(h, p)
        <5> HIDE DEF A
        <5> QED BY <3>3, <3>4, FS_AddElement DEF A
      <4> QED BY <3>1, <4>1, Zenon
    <3>6. Depth(h, n) = Depth(h, p) + 1
      BY <3>3, <3>5 DEF Depth
    <3> QED BY <1>1, <2>2, <3>2, <3>6
  <2> QED BY <2>1, <2>2
<1> QED BY <1>2, <1>3, <1>4, <1>5

LEMMA CreateKeeps ==
  ASSUME NoneIsNoRow, FiniteRoles, DepthIsPositive, IInv, NEW r \in Requests, NEW n \in Roles,
         Create(r, n)
  PROVE  IInv' /\ (change[r].fresh /\ Sound(Graph) => Sound(Graph'))
<1> DEFINE c == change[r]
           p == c.parent
           row == [parent |-> p, position |-> c.position]
<1>1. /\ c.step = "create" /\ Placed(c) /\ p \in Roles \cup {None} /\ c.position \in Nat
  BY Asked DEF Create, At, Placed
<1>2. row \in RoleRow /\ row.parent = p /\ row.position = c.position
  BY <1>1 DEF RoleRow
<1>3. /\ role[n] = None /\ role' = [role EXCEPT ![n] = row] /\ UNCHANGED holds /\ Wrote(r)
  BY DEF Create
<1>4. c.fresh => /\ c.position = NextPosition(Graph, p)
                 /\ p # None => p \in Live /\ Depth(Graph, p) + 1 <= MaxDepth
  BY <1>1 DEF Placed, Read
<1> HIDE DEF c, row, p
<1>5. /\ role' \in [Roles -> RoleRow \cup {None, Removed}]
      /\ \A m \in Roles : role'[m] = IF m = n THEN row ELSE role[m]
  BY <1>2, <1>3 DEF IInv, TypeOK
<1>6. Live' = Live \cup {n} /\ n \notin Live
  BY <1>2, <1>3, <1>5, RowIsNotNone DEF Live
<1>7. /\ DOMAIN Graph = Live /\ IsFiniteSet(Live) /\ None \notin Live /\ Live \subseteq Roles
      /\ \A m \in Live : Graph[m] = role[m] /\ role[m].position \in Nat
  BY GraphRows DEF IInv
<1>8. /\ DOMAIN Graph' = Live \cup {n} /\ IsFiniteSet(Live \cup {n}) /\ None \notin Live \cup {n}
      /\ Graph'[n] = row /\ \A m \in Live : Graph'[m] = Graph[m]
  BY <1>5, <1>6, <1>7, NextRows
<1>9. \A m \in Roles : role[m] # None => role'[m] # None
  BY <1>3, <1>5
<1>10. TypeOK'
  BY <1>3, <1>5, <1>9, WriterDone DEF IInv, TypeOK
<1>11. RemovedIsUnheld'
  <2>1. row # Removed
    BY <1>2, RowIsNotNone
  <2>2. \A u \in Members : holds[u].role \in Roles \cup {None}
    BY DEF IInv, TypeOK
  <2> QED BY <1>3, <1>5, <2>1, <2>2 DEF IInv, RemovedIsUnheld
<1>12. IInv'
  BY <1>3, <1>9, <1>10, <1>11, WriterDone DEF IInv
<1>13. ASSUME c.fresh, Sound(Graph) PROVE Sound(Graph')
  <2>1. Acyclic(Graph') /\ Attached(Graph') /\ \A m \in DOMAIN Graph' : Depth(Graph', m) <= MaxDepth
    <3> DEFINE g == Graph
               h == Graph'
    <3>1. /\ IsFiniteSet(DOMAIN g) /\ IsFiniteSet(DOMAIN h) /\ None \notin DOMAIN h /\ Sound(g)
          /\ n \notin DOMAIN g /\ DOMAIN h = DOMAIN g \cup {n} /\ h[n].parent = p
          /\ p # None => p \in DOMAIN g /\ Depth(g, p) + 1 <= MaxDepth
          /\ \A m \in DOMAIN g : h[m].parent = g[m].parent
      BY <1>2, <1>4, <1>6, <1>7, <1>8, <1>13
    <3> HIDE DEF g, h
    <3>2. Acyclic(h) /\ Attached(h) /\ \A m \in DOMAIN h : Depth(h, m) <= MaxDepth
      BY <3>1, LeafSound
    <3> QED BY <3>2 DEF h
  <2>2. \A m \in Children(Graph, p) : Graph[m].position < NextPosition(Graph, p)
    BY <1>7, NextPositionFree
  <2>3. InOrder(Graph')
    <3> SUFFICES ASSUME NEW a \in Live \cup {n}, NEW b \in Live \cup {n}, a # b,
                        Graph'[a].parent = Graph'[b].parent
                 PROVE  Graph'[a].position # Graph'[b].position
      BY <1>8 DEF InOrder
    <3>1. CASE a # n /\ b # n
      BY <3>1, <1>7, <1>8, <1>13 DEF Sound, InOrder
    <3>2. ASSUME NEW m \in Live, Graph[m].parent = p PROVE Graph[m].position # c.position
      <4>1. Graph[m].position < c.position
        BY <1>4, <1>7, <1>13, <2>2, <3>2 DEF Children
      <4> QED BY <1>1, <1>7, <4>1
    <3> QED BY <3>1, <3>2, <1>2, <1>8
  <2> QED BY <2>1, <2>3 DEF Sound
<1> QED BY <1>12, <1>13 DEF c

LEMMA UpdateKeeps ==
  ASSUME NoneIsNoRow, FiniteRoles, DepthIsPositive, IInv, NEW r \in Requests, Update(r)
  PROVE  IInv' /\ (change[r].fresh /\ Sound(Graph) => Sound(Graph'))
<1> DEFINE c == change[r]
           n == c.role
           p == c.parent
           position == IF c.position = None THEN role[n].position ELSE c.position
           row == [parent |-> p, position |-> position]
<1>1. /\ c.step = "update" /\ Placed(c) /\ p \in Roles \cup {None} /\ n \in Roles
      /\ c.position \in Nat \cup {None} /\ role[n] # None
  BY Asked DEF Update, At, Placed
<1>2. /\ role' = [role EXCEPT ![n] = IF @ = Removed THEN Removed ELSE row]
      /\ UNCHANGED holds /\ Wrote(r)
  BY <1>1 DEF Update, IInv, TypeOK
<1>3. c.fresh => /\ n \in Live /\ ReparentAllowed(Graph, n, p)
                 /\ c.position = IF p = role[n].parent THEN None ELSE NextPosition(Graph, p)
  BY <1>1 DEF Placed, Read
<1>4. role[n] # Removed => /\ n \in Live /\ row \in RoleRow /\ row.parent = p
                           /\ row.position = position /\ position \in Nat
  BY <1>1, GraphRows DEF RoleRow, Live, IInv
<1>5. /\ DOMAIN Graph = Live /\ IsFiniteSet(Live) /\ None \notin Live /\ Live \subseteq Roles
      /\ \A m \in Live : /\ Graph[m] = role[m] /\ role[m].position \in Nat
                         /\ role[m] \in RoleRow
  BY GraphRows DEF IInv
<1>6. c.fresh => position = IF p = role[n].parent THEN role[n].position ELSE NextPosition(Graph, p)
  BY <1>1, <1>3, <1>5, NextPositionFree DEF NoneIsNoRow
<1> HIDE DEF c, n, p, position, row
<1>7. /\ role' \in [Roles -> RoleRow \cup {None, Removed}]
      /\ \A m \in Roles : role'[m] = IF m = n /\ role[n] # Removed THEN row ELSE role[m]
  BY <1>1, <1>2, <1>4 DEF IInv, TypeOK
<1>8. \A m \in Roles : /\ role[m] # None => role'[m] # None
                       /\ role'[m] = Removed => role[m] = Removed
  BY <1>4, <1>7, RowIsNotNone
<1>9. TypeOK'
  BY <1>2, <1>7, <1>8, WriterDone DEF IInv, TypeOK
<1>10. RemovedIsUnheld'
  <2>1. \A u \in Members : holds[u].role \in Roles \cup {None}
    BY DEF IInv, TypeOK
  <2> QED BY <1>2, <1>8, <2>1 DEF IInv, RemovedIsUnheld
<1>11. IInv'
  BY <1>2, <1>8, <1>9, <1>10, WriterDone DEF IInv
<1>12. ASSUME c.fresh, Sound(Graph) PROVE Sound(Graph')
  <2>1. n \in Live /\ role[n] # Removed
    BY <1>3, <1>12 DEF Live
  <2>2. Live' = Live
    BY <1>4, <1>5, <1>7, <2>1, RowIsNotNone DEF Live
  <2>3. /\ DOMAIN Graph' = Live /\ Graph'[n] = row
        /\ \A m \in Live : m # n => Graph'[m] = Graph[m]
    BY <1>5, <1>7, <2>1, <2>2, NextRows
  <2>4. Acyclic(Graph') /\ Attached(Graph') /\ \A m \in DOMAIN Graph' : Depth(Graph', m) <= MaxDepth
    <3> DEFINE g == Graph
               h == Graph'
    <3>1. /\ IsFiniteSet(DOMAIN g) /\ None \notin DOMAIN g /\ Sound(g) /\ DOMAIN h = DOMAIN g
          /\ n \in DOMAIN g /\ h[n].parent = p /\ ReparentAllowed(g, n, p)
          /\ \A m \in DOMAIN g \ {n} : h[m].parent = g[m].parent
      BY <1>3, <1>4, <1>5, <1>12, <2>1, <2>3
    <3> HIDE DEF g, h
    <3>2. Acyclic(h) /\ Attached(h) /\ \A m \in DOMAIN h : Depth(h, m) <= MaxDepth
      BY <3>1, ReparentedSound
    <3> QED BY <3>2 DEF h
  <2>5. /\ NextPosition(Graph, p) \in Nat
        /\ \A m \in Children(Graph, p) : Graph[m].position < NextPosition(Graph, p)
    BY <1>5, NextPositionFree
  <2>6. ASSUME NEW a \in Live, a # n, Graph[a].parent = p PROVE Graph[a].position # position
    <3>1. CASE p = role[n].parent
      BY <1>5, <1>6, <1>12, <2>1, <2>6, <3>1 DEF Sound, InOrder
    <3>2. CASE p # role[n].parent
      <4>1. Graph[a].position < position
        BY <1>5, <1>6, <1>12, <2>5, <2>6, <3>2 DEF Children
      <4> QED BY <1>4, <1>5, <2>1, <4>1
    <3> QED BY <3>1, <3>2
  <2>7. InOrder(Graph')
    <3> SUFFICES ASSUME NEW a \in Live, NEW b \in Live, a # b,
                        Graph'[a].parent = Graph'[b].parent
                 PROVE  Graph'[a].position # Graph'[b].position
      BY <2>3 DEF InOrder
    <3>1. CASE a # n /\ b # n
      BY <3>1, <1>5, <2>3, <1>12 DEF Sound, InOrder
    <3>2. CASE a = n
      BY <3>2, <1>4, <2>1, <2>3, <2>6
    <3>3. CASE b = n
      BY <3>3, <1>4, <2>1, <2>3, <2>6
    <3> QED BY <3>1, <3>2, <3>3
  <2> QED BY <2>4, <2>7 DEF Sound
<1> QED BY <1>11, <1>12 DEF c

LEMMA MoveKeeps ==
  ASSUME NoneIsNoRow, FiniteRoles, DepthIsPositive, IInv, NEW r \in Requests, Move(r)
  PROVE  /\ IInv' /\ (change[r].fresh /\ Sound(Graph) => Sound(Graph'))
         /\ change[r].fresh =>
              \A m \in Live \ {change[r].role} : role'[m].parent = role[m].parent
<1> DEFINE c == change[r]
           s == c.order
           p == c.parent
           n == c.role
           Row(m) == [parent |-> p, position |-> Place(s, m)]
<1>1. /\ c.step = "move" /\ Placed(c) /\ p \in Roles \cup {None} /\ s \in Seq(Roles) /\ n \in Roles
  BY Asked DEF Move, At, Placed
<1>2. /\ UNCHANGED holds /\ Wrote(r)
      /\ role' = [m \in Roles |-> IF m \in ToSet(s) /\ role[m] # Removed THEN Row(m) ELSE role[m]]
  BY DEF Move
<1>3. c.fresh => /\ n \in Live /\ ReparentAllowed(Graph, n, p)
                 /\ ToSet(s) = Children(Graph, p) \cup {n}
  BY <1>1 DEF Placed, Read
<1>4. /\ DOMAIN Graph = Live /\ IsFiniteSet(Live) /\ None \notin Live /\ Live \subseteq Roles
      /\ \A m \in Live : Graph[m] = role[m] /\ role[m] \in RoleRow /\ role[m] # Removed
  BY GraphRows, RowIsNotNone DEF IInv
<1> HIDE DEF c, s, p, n
<1>5. ASSUME NEW m \in ToSet(s)
      PROVE  /\ Row(m) \in RoleRow /\ Row(m).parent = p
             /\ Row(m).position = Place(s, m) /\ Place(s, m) \in Nat
  <2>1. Place(s, m) \in Nat
    BY <1>1, PlaceIsThere
  <2> QED BY <2>1, <1>1 DEF RoleRow
<1>6. \A m \in Roles : role'[m] = IF m \in ToSet(s) /\ role[m] # Removed THEN Row(m) ELSE role[m]
  BY <1>2
<1> HIDE DEF Row
<1>7. role' \in [Roles -> RoleRow \cup {None, Removed}]
  <2>1. \A m \in Roles : role'[m] \in RoleRow \cup {None, Removed}
    BY <1>5, <1>6 DEF IInv, TypeOK
  <2> QED BY <1>2, <2>1
<1>8. \A m \in Roles : /\ role[m] # None => role'[m] # None
                       /\ role'[m] = Removed => role[m] = Removed
  BY <1>5, <1>6, RowIsNotNone
<1>9. TypeOK'
  BY <1>2, <1>7, <1>8, WriterDone DEF IInv, TypeOK
<1>10. RemovedIsUnheld'
  <2>1. \A u \in Members : holds[u].role \in Roles \cup {None}
    BY DEF IInv, TypeOK
  <2> QED BY <1>2, <1>8, <2>1 DEF IInv, RemovedIsUnheld
<1>11. IInv'
  BY <1>2, <1>8, <1>9, <1>10, WriterDone DEF IInv
<1>12. ASSUME c.fresh
       PROVE  /\ ToSet(s) \subseteq Live /\ n \in ToSet(s) /\ n \in Live /\ Live' = Live
              /\ \A m \in Live : role'[m] = IF m \in ToSet(s) THEN Row(m) ELSE role[m]
              /\ \A m \in Live \ {n} : role'[m].parent = role[m].parent
  <2>1. ToSet(s) \subseteq Live /\ n \in ToSet(s) /\ n \in Live
    BY <1>3, <1>4, <1>12 DEF Children
  <2>2. \A m \in Live : role'[m] = IF m \in ToSet(s) THEN Row(m) ELSE role[m]
    BY <1>4, <1>6
  <2>3. Live' = Live
    BY <1>4, <1>5, <1>6, <2>1, <2>2, RowIsNotNone DEF Live
  <2>4. \A m \in Live \ {n} : role'[m].parent = role[m].parent
    BY <1>3, <1>4, <1>5, <1>12, <2>2 DEF Children
  <2> QED BY <2>1, <2>2, <2>3, <2>4
<1>13. ASSUME c.fresh, Sound(Graph) PROVE Sound(Graph')
  <2>1. /\ DOMAIN Graph' = Live
        /\ \A m \in Live : Graph'[m] = IF m \in ToSet(s) THEN Row(m) ELSE Graph[m]
    BY <1>4, <1>7, <1>12, <1>13, NextRows
  <2>2. Acyclic(Graph') /\ Attached(Graph') /\ \A m \in DOMAIN Graph' : Depth(Graph', m) <= MaxDepth
    <3> DEFINE g == Graph
               h == Graph'
    <3>1. \A m \in Live \ {n} : Graph'[m].parent = Graph[m].parent
      BY <1>3, <1>4, <1>5, <1>13, <2>1 DEF Children
    <3>2. /\ IsFiniteSet(DOMAIN g) /\ None \notin DOMAIN g /\ Sound(g) /\ DOMAIN h = DOMAIN g
          /\ n \in DOMAIN g /\ h[n].parent = p /\ ReparentAllowed(g, n, p)
          /\ \A m \in DOMAIN g \ {n} : h[m].parent = g[m].parent
      BY <1>3, <1>4, <1>5, <1>12, <1>13, <2>1, <3>1
    <3> HIDE DEF g, h
    <3>3. Acyclic(h) /\ Attached(h) /\ \A m \in DOMAIN h : Depth(h, m) <= MaxDepth
      BY <3>2, ReparentedSound
    <3> QED BY <3>3 DEF h
  <2>3. InOrder(Graph')
    <3> SUFFICES ASSUME NEW a \in Live, NEW b \in Live, a # b,
                        Graph'[a].parent = Graph'[b].parent
                 PROVE  Graph'[a].position # Graph'[b].position
      BY <2>1 DEF InOrder
    <3>1. CASE a \in ToSet(s) /\ b \in ToSet(s)
      <4>1. s[Place(s, a) + 1] = a /\ s[Place(s, b) + 1] = b
        BY <1>1, <3>1, PlaceIsThere
      <4> QED BY <3>1, <4>1, <1>5, <2>1
    <3>2. CASE a \notin ToSet(s) /\ b \notin ToSet(s)
      BY <3>2, <1>4, <2>1, <1>13 DEF Sound, InOrder
    <3>3. CASE a \in ToSet(s) /\ b \notin ToSet(s)
      BY <3>3, <1>3, <1>4, <1>5, <2>1, <1>13 DEF Children
    <3>4. CASE a \notin ToSet(s) /\ b \in ToSet(s)
      BY <3>4, <1>3, <1>4, <1>5, <2>1, <1>13 DEF Children
    <3> QED BY <3>1, <3>2, <3>3, <3>4
  <2> QED BY <2>2, <2>3 DEF Sound
<1> QED BY <1>11, <1>12, <1>13 DEF c, n

LEMMA RemoveRoleKeeps ==
  ASSUME NoneIsNoRow, FiniteRoles, IInv, NEW r \in Requests, RemoveRole(r)
  PROVE  IInv'
<1> DEFINE n == change[r].role
<1>1. n \in Roles /\ \A u \in Members : holds[u].role = n => holds[u].late
  BY Asked DEF RemoveRole, At, Placed
<1>2. role' = [role EXCEPT ![n] = Removed] /\ UNCHANGED holds /\ Wrote(r)
  BY DEF RemoveRole
<1> HIDE DEF n
<1>3. /\ role' \in [Roles -> RoleRow \cup {None, Removed}]
      /\ \A m \in Roles : role'[m] = IF m = n THEN Removed ELSE role[m]
  BY <1>1, <1>2 DEF IInv, TypeOK
<1>4. \A m \in Roles : role[m] # None => role'[m] # None
  BY <1>3 DEF NoneIsNoRow
<1>5. TypeOK'
  BY <1>2, <1>3, <1>4, WriterDone DEF IInv, TypeOK
<1>6. RemovedIsUnheld'
  <2>1. \A u \in Members : holds[u].role \in Roles \cup {None}
    BY DEF IInv, TypeOK
  <2> QED BY <1>1, <1>2, <1>3, <2>1 DEF IInv, RemovedIsUnheld
<1> QED BY <1>2, <1>4, <1>5, <1>6, WriterDone DEF IInv

-----------------------------------------------------------------------------
(* The theorems. *)

LEMMA InitIInv ==
  ASSUME NoneIsNoRow
  PROVE  Init => IInv
BY DEF Init, IInv, TypeOK, RemovedIsUnheld, CallsTyped, CallsPlaced

LEMMA NextIInv ==
  ASSUME NoneIsNoRow, FiniteRoles, DepthIsPositive
  PROVE  IInv /\ [Next]_vars => IInv'
<1> SUFFICES ASSUME IInv, [Next]_vars PROVE IInv'
  OBVIOUS
<1>1. ASSUME NEW r \in Requests, NEW p \in Roles \cup {None},
             \/ CheckCreate(r, p)
             \/ \E n \in Roles : \/ CheckUpdate(r, n, p)
                                 \/ \E i \in 0..Cardinality(Roles) : CheckMove(r, n, p, i)
      PROVE  IInv'
  BY <1>1, CheckCreateKeeps, CheckUpdateKeeps, CheckMoveKeeps
<1>2. ASSUME NEW r \in Requests, NEW n \in Roles,
             Create(r, n) \/ CheckRemove(r, n) \/ \E u \in Members : CheckAssign(r, u, n)
      PROVE  IInv'
  BY <1>2, CreateKeeps, CheckRemoveKeeps, CheckAssignKeeps
<1>3. ASSUME NEW r \in Requests,
             Update(r) \/ Move(r) \/ CountHolders(r) \/ RemoveRole(r) \/ Assign(r) \/ Fail(r)
      PROVE  IInv'
  BY <1>3, UpdateKeeps, MoveKeeps, CountHoldersKeeps, RemoveRoleKeeps, AssignKeeps, FailKeeps
<1>4. CASE UNCHANGED vars
  <2>1. UNCHANGED <<role, holds, change>>
    BY <1>4 DEF vars
  <2>2. Graph' = Graph /\ Live' = Live
    BY <2>1 DEF Graph, Live
  <2> QED BY <2>1, <2>2 DEF IInv, TypeOK, RemovedIsUnheld, CallsTyped, CallsPlaced, Placed, Read,
                            ReparentAllowed
<1> QED BY <1>1, <1>2, <1>3, <1>4 DEF Next

\* However roles are assigned and removed meanwhile: whoever holds a removed role was given it
\* while it was being removed.
THEOREM RolesSound ==
  ASSUME NoneIsNoRow, FiniteRoles, DepthIsPositive
  PROVE  Spec => [](TypeOK /\ RemovedIsUnheld)
<1>1. IInv => TypeOK /\ RemovedIsUnheld
  BY DEF IInv
<1> QED BY InitIInv, NextIInv, <1>1, PTL DEF Spec

\* Only a request that has finished, or failed, is done.
LEMMA Ends ==
  ASSUME NoneIsNoRow, IInv, [Next]_vars, NEW r \in Requests, Writes(r), change'[r] = None
  PROVE  Fail(r) \/ Update(r) \/ Move(r) \/ \E n \in Roles : Create(r, n)
<1>1. change[r] # None /\ change[r].step \notin {"count", "remove", "assign"}
  BY DEF Writes
<1>2. change \in [Requests -> Call \cup {None}] /\ change[r] \in Call
  BY <1>1 DEF IInv, CallsTyped
<1>3. [change[r] EXCEPT !.fresh = FALSE] # None
  <2>1. [change[r] EXCEPT !.fresh = FALSE] \in Call
    BY <1>2 DEF Call
  <2> QED BY <2>1, CallIsNotNone
<1>4. ASSUME NEW q \in Requests, q # r, Wrote(q) PROVE FALSE
  BY <1>1, <1>3, <1>4 DEF Wrote
<1>5. ASSUME NEW q \in Requests, q # r, NEW c, change' = [change EXCEPT ![q] = c] PROVE FALSE
  BY <1>1, <1>2, <1>5
<1>6. \/ UNCHANGED change
      \/ \E q \in Requests :
           \/ change[q] = None /\ \E c : change' = [change EXCEPT ![q] = c]
           \/ CountHolders(q) \/ RemoveRole(q) \/ Assign(q)
           \/ Fail(q) \/ Update(q) \/ Move(q) \/ \E n \in Roles : Create(q, n)
  BY DEF Next, vars, CheckCreate, CheckUpdate, CheckMove, CheckRemove, CheckAssign
<1>7. ASSUME NEW q \in Requests, CountHolders(q) \/ RemoveRole(q) \/ Assign(q) PROVE FALSE
  <2>1. q # r
    BY <1>1, <1>7 DEF CountHolders, RemoveRole, Assign, At
  <2>2. Wrote(q) \/ \E c : change' = [change EXCEPT ![q] = c]
    BY <1>7, <1>2 DEF CountHolders, RemoveRole, Assign, Done
  <2> QED BY <2>1, <2>2, <1>4, <1>5
<1>8. ASSUME NEW q \in Requests, q # r,
             Fail(q) \/ Update(q) \/ Move(q) \/ \E n \in Roles : Create(q, n)
      PROVE  FALSE
  BY <1>4, <1>5, <1>8 DEF Fail, Update, Move, Create, Done
<1>9. ASSUME NEW q \in Requests, change[q] = None, NEW c, change' = [change EXCEPT ![q] = c]
      PROVE  FALSE
  BY <1>1, <1>5, <1>9
<1> QED BY <1>1, <1>6, <1>7, <1>8, <1>9

\* However many roles there are and however deep the limit: a change that finds the hierarchy as
\* it read it leaves it sound.
THEOREM HierarchyStays ==
  ASSUME NoneIsNoRow, FiniteRoles, DepthIsPositive
  PROVE  Spec => SoundKept
<1> DEFINE Step == \A r \in Requests :
                     Writes(r) /\ change'[r] = None /\ change[r].fresh /\ Sound(Graph)
                     => Sound(Graph')
<1>1. ASSUME IInv, [Next]_vars, NEW r \in Requests, Writes(r), change'[r] = None,
             change[r].fresh, Sound(Graph)
      PROVE  Sound(Graph')
  <2>1. ASSUME Fail(r) PROVE Sound(Graph')
    <3>1. Graph' = Graph
      BY <2>1 DEF Fail, Graph, Live
    <3> QED BY <1>1, <3>1
  <2> QED BY <1>1, <2>1, Ends, CreateKeeps, UpdateKeeps, MoveKeeps
<1>2. IInv /\ [Next]_vars => [Step]_vars
  BY <1>1
<1> QED BY InitIInv, NextIInv, <1>2, PTL DEF Spec, SoundKept

\* A move that finds the hierarchy as it read it gives no role but the dragged one another parent.
THEOREM DraggedAlone ==
  ASSUME NoneIsNoRow, FiniteRoles, DepthIsPositive
  PROVE  Spec => OnlyDraggedMoves
<1> DEFINE Step == \A r \in Requests :
                     At(r, "move") /\ change'[r] = None /\ change[r].fresh
                     => \A n \in Live \ {change[r].role} : role'[n].parent = role[n].parent
<1>1. ASSUME IInv, [Next]_vars, NEW r \in Requests, At(r, "move"), change'[r] = None,
             change[r].fresh, NEW n \in Live \ {change[r].role}
      PROVE  role'[n].parent = role[n].parent
  <2>1. Fail(r) \/ Move(r)
    BY <1>1, Ends DEF Writes, At, Update, Create
  <2>2. ASSUME Fail(r) PROVE role' = role
    BY <2>2 DEF Fail
  <2> QED BY <1>1, <2>1, <2>2, MoveKeeps
<1>2. IInv /\ [Next]_vars => [Step]_vars
  BY <1>1
<1> QED BY InitIInv, NextIInv, <1>2, PTL DEF Spec, OnlyDraggedMoves
-----------------------------------------------------------------------------
(***************************************************************************)
(* Teams.  Labels are written by one request at a time, so what it read of *)
(* the spellings stays true; a policy may be written meanwhile, but one    *)
(* that a rename carries or a grant waits for is not gone.                 *)
(***************************************************************************)

TeamCallsTyped == teamChange \in [Requests -> T!Call \cup {None}]

\* Labels are written by one request at a time.
OneRelabel ==
  \A q, r \in Requests : /\ teamChange[q] # None /\ teamChange[q].step \in T!Relabels
                         /\ teamChange[r] # None /\ teamChange[r].step \in T!Relabels
                         => q = r

\* The list that is to get what u creates.
ListOf(u) ==
  IF T!Governing(u) # None /\ policy[T!Governing(u)].access = "LISTED" THEN T!Governing(u) ELSE None

\* What a request read of labels and policies and still relies on.
TeamPlaced(c) ==
  /\ c.step = "move" /\ c.label # None => T!Spellings(c.label) \subseteq {c.label}
  /\ c.step = "rename" => /\ T!Spellings(c.label) \subseteq {c.from}
                          /\ c.carries => policy[c.from] # None
                          /\ c.fresh => /\ c.carries <=> policy[c.from] # None
                                        /\ policy[c.label] = None
  /\ c.step = "policy" => T!SaysEnough(c.of, c.policy)
  /\ c.step = "grant" => /\ c.policy # None => policy[c.policy] # None
                         /\ c.fresh => c.policy = ListOf(c.user)

TeamCallsPlaced == \A r \in Requests : teamChange[r] # None => TeamPlaced(teamChange[r])

TeamsIInv == T!TypeOK /\ T!OneSpelling /\ TeamCallsTyped /\ OneRelabel /\ TeamCallsPlaced

-----------------------------------------------------------------------------
(* Calls. *)

LEMMA CallIsSomething ==
  ASSUME T!NoneIsNothing
  PROVE  \A c \in T!Call : c # None
BY DEF T!NoneIsNothing

\* What a call holds, by its step.
LEMMA CallFields ==
  ASSUME NEW c \in T!Call
  PROVE  /\ c.step = "move" => c \in T!MoveCall
         /\ c.step = "rename" => c \in T!RenameCall
         /\ c.step = "policy" => c \in T!PolicyCall
         /\ c.step \in {"createTag", "grant", "failing"} => c \in T!TagCall
         /\ c.fresh \in BOOLEAN
BY DEF T!Call, T!MoveCall, T!RenameCall, T!PolicyCall, T!TagCall

\* A call whose reading is out of date is the same but for that.
LEMMA Outdated ==
  ASSUME NEW c \in T!Call, NEW d, d = [c EXCEPT !.fresh = FALSE]
  PROVE  /\ d \in T!Call /\ d.step = c.step /\ ~d.fresh
         /\ c.step = "move" => d.label = c.label
         /\ c.step = "rename" => d.from = c.from /\ d.label = c.label /\ d.carries = c.carries
         /\ c.step = "policy" => d.of = c.of /\ d.policy = c.policy
         /\ c.step \in {"createTag", "grant", "failing"} => d.policy = c.policy /\ d.user = c.user
<1>1. CASE c \in T!MoveCall
  BY <1>1 DEF T!Call, T!MoveCall
<1>2. CASE c \in T!RenameCall
  BY <1>2 DEF T!Call, T!RenameCall
<1>3. CASE c \in T!PolicyCall
  BY <1>3 DEF T!Call, T!PolicyCall
<1>4. CASE c \in T!TagCall
  BY <1>4 DEF T!Call, T!TagCall
<1> QED BY <1>1, <1>2, <1>3, <1>4 DEF T!Call

LEMMA AskedCall ==
  ASSUME TeamsIInv, NEW r \in Requests, teamChange[r] # None
  PROVE  teamChange[r] \in T!Call /\ TeamPlaced(teamChange[r])
BY DEF TeamsIInv, TeamCallsTyped, TeamCallsPlaced

-----------------------------------------------------------------------------
(* Steps that write neither labels nor policies. *)

\* A removed member takes his label out of sight, or leaves it.
LEMMA FewerSpellings ==
  ASSUME UNCHANGED team, gone \subseteq gone'
  PROVE  \A t : (T!Spellings(t))' \subseteq T!Spellings(t)
BY DEF T!Spellings, T!Labels, T!Live

LEMMA TeamReaderKeeps ==
  ASSUME T!NoneIsNothing, TeamsIInv, UNCHANGED <<team, policy>>,
         gone \subseteq gone', gone' \in SUBSET Users,
         tag' \in [Tags -> {"none", "live", "retired"}],
         NEW r, teamChange' \in [Requests -> T!Call \cup {None}],
         \A q \in Requests : q # r => teamChange'[q] = teamChange[q],
         r \in Requests /\ teamChange'[r] # None =>
           TeamPlaced(teamChange'[r]) /\ (teamChange'[r].step \in T!Relabels => T!LockTeams(r))
  PROVE  TeamsIInv'
<1>1. T!TypeOK' /\ TeamCallsTyped'
  BY DEF TeamsIInv, T!TypeOK, TeamCallsTyped
<1>2. T!OneSpelling'
  BY DEF TeamsIInv, T!OneSpelling, T!Live
<1>3. OneRelabel'
  BY DEF TeamsIInv, OneRelabel, T!LockTeams
<1>4. \A c : TeamPlaced(c) => TeamPlaced(c)'
  <2>1. \A t : (T!Spellings(t))' \subseteq T!Spellings(t)
    BY FewerSpellings
  <2>2. \A u : ListOf(u)' = ListOf(u)
    BY DEF ListOf, T!Governing
  <2> QED BY <2>1, <2>2 DEF TeamPlaced
<1>5. TeamCallsPlaced'
  <2>1. \A q \in Requests : teamChange'[q] # None => TeamPlaced(teamChange'[q])
    BY DEF TeamsIInv, TeamCallsPlaced
  <2>2. \A q \in Requests : teamChange'[q] # None => \A d : d = teamChange'[q] => TeamPlaced(d)'
    BY <2>1, <1>4
  <2> QED BY <2>2 DEF TeamCallsPlaced
<1> QED BY <1>1, <1>2, <1>3, <1>5 DEF TeamsIInv

\* A check that leaves a call behind.
LEMMA BegunKeeps ==
  ASSUME T!NoneIsNothing, TeamsIInv, UNCHANGED <<team, gone, policy, tag>>, NEW r \in Requests,
         NEW c \in T!Call \cup {None}, teamChange' = [teamChange EXCEPT ![r] = c],
         c # None => TeamPlaced(c) /\ (c.step \in T!Relabels => T!LockTeams(r))
  PROVE  TeamsIInv'
<1>1. /\ teamChange' \in [Requests -> T!Call \cup {None}] /\ teamChange'[r] = c
      /\ \A q \in Requests : q # r => teamChange'[q] = teamChange[q]
  BY DEF TeamsIInv, TeamCallsTyped
<1>2. gone' \in SUBSET Users /\ tag' \in [Tags -> {"none", "live", "retired"}]
  BY DEF TeamsIInv, T!TypeOK
<1> QED BY <1>1, <1>2, TeamReaderKeeps

\* One label has one spelling, however it is asked for.
LEMMA SpelledOnce ==
  ASSUME TeamsIInv, NEW t, NEW l \in T!Spellings(t)
  PROVE  T!Spellings(l) \subseteq {l} /\ l \in Teams
<1>1. l \in Teams
  BY DEF T!Spellings, T!Labels, T!Live, TeamsIInv, T!TypeOK
<1> QED BY <1>1 DEF T!Spellings, T!Labels, TeamsIInv, T!OneSpelling

LEMMA MovesKeeps ==
  ASSUME T!NoneIsNothing, TeamsIInv, UNCHANGED <<team, gone, policy, tag>>, NEW r \in Requests,
         T!LockTeams(r), NEW us \in SUBSET Users, NEW l \in Teams \cup {None},
         teamChange' = [teamChange EXCEPT ![r] = T!Moves(us, l)],
         l # None => T!Spellings(l) \subseteq {l}
  PROVE  TeamsIInv'
<1> DEFINE c == T!Moves(us, l)
<1>1. c \in T!Call /\ c.step = "move" /\ c.label = l
  BY DEF T!Moves, T!Call, T!MoveCall
<1> HIDE DEF c
<1>2. TeamPlaced(c)
  BY <1>1 DEF TeamPlaced
<1>3. teamChange' = [teamChange EXCEPT ![r] = c]
  BY DEF c
<1> QED BY <1>1, <1>2, <1>3, BegunKeeps

LEMMA CheckCreateTeamKeeps ==
  ASSUME T!NoneIsNothing, TeamsIInv, NEW r \in Requests, NEW t \in Teams, NEW us \in SUBSET Users,
         T!CheckCreateTeam(r, t, us)
  PROVE  TeamsIInv'
BY MovesKeeps DEF T!CheckCreateTeam

LEMMA TeamCheckAssignKeeps ==
  ASSUME T!NoneIsNothing, TeamsIInv, NEW r \in Requests, NEW t \in Teams \cup {None},
         NEW us \in SUBSET Users, T!CheckAssign(r, t, us)
  PROVE  TeamsIInv'
<1>1. CASE t = None
  BY <1>1, MovesKeeps DEF T!CheckAssign
<1>2. CASE t # None
  <2>1. PICK l \in T!Spellings(t) : teamChange' = [teamChange EXCEPT ![r] = T!Moves(us, l)]
    BY <1>2 DEF T!CheckAssign
  <2> QED BY <2>1, SpelledOnce, MovesKeeps DEF T!CheckAssign
<1> QED BY <1>1, <1>2

LEMMA CheckEditMemberKeeps ==
  ASSUME T!NoneIsNothing, TeamsIInv, NEW r \in Requests, NEW u \in Users, NEW t \in Teams,
         T!CheckEditMember(r, u, t)
  PROVE  TeamsIInv'
<1>1. PICK l \in T!TeamFor(t) : teamChange' = [teamChange EXCEPT ![r] = T!Moves({u}, l)]
  BY DEF T!CheckEditMember
<1>2. l \in Teams /\ T!Spellings(l) \subseteq {l}
  BY SpelledOnce DEF T!TeamFor
<1> QED BY <1>1, <1>2, MovesKeeps DEF T!CheckEditMember

LEMMA CheckRenameKeeps ==
  ASSUME T!NoneIsNothing, TeamsIInv, NEW r \in Requests, NEW t \in Teams, NEW new \in Teams,
         T!CheckRename(r, t, new)
  PROVE  TeamsIInv'
<1>1. PICK l \in T!Spellings(t) :
        /\ T!Spellings(new) \subseteq {l} /\ policy[new] = None
        /\ teamChange' = [teamChange EXCEPT ![r] = [step |-> "rename", from |-> l, label |-> new,
                                            carries |-> policy[l] # None, fresh |-> TRUE]]
  BY DEF T!CheckRename
<1> DEFINE c == [step |-> "rename", from |-> l, label |-> new, carries |-> policy[l] # None,
                 fresh |-> TRUE]
<1>2. /\ c \in T!Call /\ c.step = "rename" /\ c.from = l /\ c.label = new
      /\ c.carries <=> policy[l] # None
  BY SpelledOnce DEF T!Call, T!RenameCall
<1> HIDE DEF c
<1>3. TeamPlaced(c)
  BY <1>1, <1>2 DEF TeamPlaced
<1>4. /\ teamChange' = [teamChange EXCEPT ![r] = c] /\ T!LockTeams(r)
      /\ UNCHANGED <<team, gone, policy, tag>>
  BY <1>1 DEF c, T!CheckRename
<1> QED BY <1>2, <1>3, <1>4, BegunKeeps

LEMMA CheckPolicyKeeps ==
  ASSUME T!NoneIsNothing, TeamsIInv, NEW r \in Requests, NEW k \in Teams \cup Users,
         NEW p \in T!Policy,
         T!CheckPolicy(r, k, p)
  PROVE  TeamsIInv'
<1> DEFINE c == [step |-> "policy", of |-> k, policy |-> p, fresh |-> TRUE]
<1>1. c \in T!Call /\ c.step = "policy" /\ c.of = k /\ c.policy = p
  BY DEF T!Call, T!PolicyCall
<1> HIDE DEF c
<1>2. /\ T!SaysEnough(k, p) /\ teamChange' = [teamChange EXCEPT ![r] = c]
      /\ UNCHANGED <<team, gone, policy, tag>>
  BY DEF c, T!CheckPolicy
<1>3. TeamPlaced(c)
  BY <1>1, <1>2 DEF TeamPlaced
<1>4. c.step \notin T!Relabels
  BY <1>1 DEF T!Relabels
<1> QED BY <1>1, <1>2, <1>3, <1>4, BegunKeeps

LEMMA CheckCreateTagKeeps ==
  ASSUME T!NoneIsNothing, TeamsIInv, NEW r \in Requests, NEW u \in Users, T!CheckCreateTag(r, u)
  PROVE  TeamsIInv'
<1> DEFINE c == [step |-> "createTag", user |-> u, policy |-> None, fresh |-> TRUE]
<1>1. c \in T!Call /\ c.step = "createTag"
  BY DEF T!Call, T!TagCall
<1>2. teamChange' = [teamChange EXCEPT ![r] = c] /\ UNCHANGED <<team, gone, policy, tag>>
  BY DEF T!CheckCreateTag
<1> HIDE DEF c
<1>3. TeamPlaced(c) /\ c.step \notin T!Relabels
  BY <1>1 DEF TeamPlaced, T!Relabels
<1> QED BY <1>1, <1>2, <1>3, BegunKeeps

LEMMA GoverningTyped ==
  ASSUME T!NoneIsNothing, T!TypeOK, NEW u \in Users
  PROVE  /\ T!Governing(u) \in Teams \cup Users \cup {None}
         /\ T!Governing(u) # None => policy[T!Governing(u)] # None
BY DEF T!Governing, T!TypeOK

LEMMA LoadPolicyKeeps ==
  ASSUME T!NoneIsNothing, TeamsIInv, NEW r \in Requests, T!LoadPolicy(r)
  PROVE  TeamsIInv'
<1> DEFINE b == teamChange[r]
           list == ListOf(b.user)
           c == [b EXCEPT !.step = "grant", !.fresh = TRUE, !.policy = list]
<1>1. b \in T!TagCall
  BY AskedCall, CallFields DEF T!LoadPolicy, T!At
<1>2. list \in Teams \cup Users \cup {None} /\ (list # None => policy[list] # None)
  <2>1. b.user \in Users
    BY <1>1 DEF T!TagCall
  <2> QED BY <2>1, GoverningTyped DEF ListOf, TeamsIInv
<1>3. teamChange' = [teamChange EXCEPT ![r] = c] /\ UNCHANGED <<team, gone, policy, tag>>
  <2>1. teamChange \in [Requests -> T!Call \cup {None}]
    BY DEF TeamsIInv, TeamCallsTyped
  <2> QED BY <1>1, <2>1 DEF T!LoadPolicy, T!GrantedTo, ListOf, T!TagCall
<1>4. c \in T!Call /\ c.step = "grant" /\ c.policy = list /\ c.user = b.user
  <2> HIDE DEF list, b
  <2> QED BY <1>1, <1>2 DEF T!Call, T!TagCall
<1>5. TeamPlaced(c) /\ c.step \notin T!Relabels
  <2>1. list = ListOf(b.user)
    OBVIOUS
  <2> HIDE DEF c, list, b
  <2> QED BY <1>2, <1>4, <2>1 DEF TeamPlaced, T!Relabels
<1> HIDE DEF c
<1> QED BY <1>3, <1>4, <1>5, BegunKeeps

LEMMA TeamFailKeeps ==
  ASSUME T!NoneIsNothing, TeamsIInv, NEW r \in Requests, T!Fail(r)
  PROVE  TeamsIInv'
BY BegunKeeps DEF T!Fail, T!Done

\* Members are removed and tags come and go without any request.
LEMMA AsideKeeps ==
  ASSUME T!NoneIsNothing, TeamsIInv,
         \/ \E u \in Users : T!RemoveUser(u)
         \/ \E t \in Tags : T!AdminTag(t) \/ T!RetireTag(t)
  PROVE  TeamsIInv'
<1>1. /\ UNCHANGED <<team, policy, teamChange>> /\ gone \subseteq gone' /\ gone' \in SUBSET Users
      /\ tag' \in [Tags -> {"none", "live", "retired"}]
  BY DEF T!RemoveUser, T!AdminTag, T!RetireTag, TeamsIInv, T!TypeOK
<1>2. teamChange' \in [Requests -> T!Call \cup {None}]
  BY <1>1 DEF TeamsIInv, TeamCallsTyped
<1>3. \A r \in Requests : teamChange'[r] # None =>
        TeamPlaced(teamChange'[r]) /\ (teamChange'[r].step \in T!Relabels => T!LockTeams(r))
  BY <1>1 DEF TeamsIInv, TeamCallsPlaced, OneRelabel, T!LockTeams
<1> QED BY <1>1, <1>2, <1>3, TeamReaderKeeps
-----------------------------------------------------------------------------
(* Steps that write labels or policies: nobody's reading is up to date after them. *)

\* r is done, and what q read is out of date, or q was not under way.
Overtaken(r, q) ==
  IF q = r \/ teamChange[q] = None THEN teamChange'[q] = None
  ELSE teamChange'[q] = [teamChange[q] EXCEPT !.fresh = FALSE]

LEMMA WriterKeeps ==
  ASSUME T!NoneIsNothing, TeamsIInv, NEW r, T!TypeOK', T!OneSpelling',
         teamChange' = [q \in Requests |-> teamChange'[q]], \A q \in Requests : Overtaken(r, q),
         \A q \in Requests \ {r} : teamChange[q] # None /\ teamChange[q].step \in T!Relabels =>
           \A t : (T!Spellings(t))' \subseteq T!Spellings(t),
         \A k : policy[k] # None => policy'[k] # None
  PROVE  TeamsIInv'
<1>1. ASSUME NEW q \in Requests, teamChange'[q] # None
      PROVE  /\ q # r /\ teamChange[q] \in T!Call /\ TeamPlaced(teamChange[q])
             /\ teamChange'[q] = [teamChange[q] EXCEPT !.fresh = FALSE]
             /\ teamChange'[q] \in T!Call /\ teamChange'[q].step = teamChange[q].step
  <2>1. /\ q # r /\ teamChange[q] # None /\ teamChange'[q] = [teamChange[q] EXCEPT !.fresh = FALSE]
    BY <1>1 DEF Overtaken
  <2>2. teamChange[q] \in T!Call /\ TeamPlaced(teamChange[q])
    BY <2>1, AskedCall
  <2> QED BY <2>1, <2>2, Outdated
<1>2. TeamCallsTyped'
  <2>1. \A q \in Requests : teamChange'[q] \in T!Call \cup {None}
    BY <1>1
  <2> QED BY <2>1 DEF TeamCallsTyped
<1>3. OneRelabel'
  <2>1. \A q \in Requests : teamChange'[q] # None =>
          teamChange[q] # None /\ teamChange'[q].step = teamChange[q].step
    BY <1>1, CallIsSomething
  <2> QED BY <2>1 DEF TeamsIInv, OneRelabel
<1>4. ASSUME NEW q \in Requests, teamChange'[q] # None, NEW d, d = teamChange'[q]
      PROVE  TeamPlaced(d)'
  <2>1. /\ teamChange[q] \in T!Call /\ TeamPlaced(teamChange[q])
        /\ d = [teamChange[q] EXCEPT !.fresh = FALSE]
        /\ q # r /\ teamChange[q] # None
    BY <1>1, <1>4, CallIsSomething
  <2> DEFINE c == teamChange[q]
  <2>2. /\ d.step = c.step /\ ~d.fresh
        /\ c.step = "move" => d.label = c.label
        /\ c.step = "rename" => d.from = c.from /\ d.label = c.label /\ d.carries = c.carries
        /\ c.step = "policy" => d.of = c.of /\ d.policy = c.policy
        /\ c.step \in {"createTag", "grant", "failing"} => d.policy = c.policy /\ d.user = c.user
    BY <2>1, Outdated
  <2>3. c.step \in T!Relabels => \A t : (T!Spellings(t))' \subseteq T!Spellings(t)
    BY <2>1
  <2> QED BY <2>1, <2>2, <2>3 DEF TeamPlaced, T!Relabels
<1>5. TeamCallsPlaced'
  BY <1>4 DEF TeamCallsPlaced
<1> QED BY <1>2, <1>3, <1>5 DEF TeamsIInv

LEMMA WroteOvertakes ==
  ASSUME NEW r \in Requests, T!Wrote(r)
  PROVE  /\ teamChange' = [q \in Requests |-> teamChange'[q]]
         /\ \A q \in Requests : Overtaken(r, q)
BY DEF T!Wrote, Overtaken

LEMMA TeamMoveKeeps ==
  ASSUME T!NoneIsNothing, TeamsIInv, NEW r \in Requests, T!Move(r)
  PROVE  TeamsIInv'
<1> DEFINE c == teamChange[r]
           l == c.label
           us == c.users
<1>1. /\ teamChange[r] # None /\ c.step = "move" /\ T!Wrote(r) /\ UNCHANGED <<gone, policy, tag>>
      /\ team' = [u \in Users |-> IF u \in us THEN l ELSE team[u]]
  BY DEF T!Move, T!At
<1>2. l \in Teams \cup {None} /\ (l # None => T!Spellings(l) \subseteq {l})
  <2>1. c \in T!MoveCall /\ TeamPlaced(c)
    BY <1>1, AskedCall, CallFields
  <2> QED BY <1>1, <2>1 DEF T!MoveCall, TeamPlaced
<1>3. \A q \in Requests \ {r} : teamChange[q] # None => teamChange[q].step \notin T!Relabels
  BY <1>1 DEF TeamsIInv, OneRelabel, T!Relabels
<1> HIDE DEF l, us
<1>4. T!TypeOK'
  BY <1>1, <1>2 DEF TeamsIInv, T!TypeOK
<1>5. T!OneSpelling'
  <2> SUFFICES ASSUME NEW u \in T!Live, NEW v \in T!Live, team'[u] # None, team'[v] # None,
                      Fold[team'[u]] = Fold[team'[v]]
               PROVE  team'[u] = team'[v]
    BY <1>1 DEF T!OneSpelling, T!Live
  <2>1. u \in Users /\ v \in Users
    BY DEF T!Live
  <2>2. ASSUME NEW w \in T!Live, w \notin us, team[w] # None, l # None, Fold[team[w]] = Fold[l]
        PROVE  team[w] = l
    BY <2>2, <1>2 DEF T!Spellings, T!Labels
  <2> QED BY <1>1, <2>1, <2>2 DEF TeamsIInv, T!OneSpelling
<1> QED BY <1>1, <1>3, <1>4, <1>5, WroteOvertakes, WriterKeeps

LEMMA SavePolicyKeeps ==
  ASSUME T!NoneIsNothing, TeamsIInv, NEW r \in Requests, T!SavePolicy(r)
  PROVE  TeamsIInv'
<1> DEFINE c == teamChange[r]
           k == c.of
           p == c.policy
<1>1. /\ c # None /\ c.step = "policy" /\ T!Wrote(r) /\ UNCHANGED <<team, gone, tag>>
      /\ policy' = [policy EXCEPT ![k] = p]
  BY DEF T!SavePolicy, T!At
<1>2. k \in Teams \cup Users /\ p \in T!Policy /\ T!SaysEnough(k, p)
  <2>1. c \in T!PolicyCall /\ TeamPlaced(c)
    BY <1>1, AskedCall, CallFields
  <2> QED BY <1>1, <2>1 DEF T!PolicyCall, TeamPlaced
<1> HIDE DEF k, p
<1>3. \A t : (T!Spellings(t))' \subseteq T!Spellings(t)
  BY <1>1, FewerSpellings
<1>4. /\ policy' \in [Teams \cup Users -> T!Policy \cup {None}]
      /\ \A t \in Teams \cup Users : policy'[t] = IF t = k THEN p ELSE policy[t]
  BY <1>1, <1>2 DEF TeamsIInv, T!TypeOK
<1>5. T!TypeOK'
  BY <1>1, <1>2, <1>4 DEF TeamsIInv, T!TypeOK, T!SaysEnough
<1>6. T!OneSpelling'
  BY <1>1 DEF TeamsIInv, T!OneSpelling, T!Live
<1>7. \A j : policy[j] # None => policy'[j] # None
  <2>1. p # None
    BY <1>2 DEF T!NoneIsNothing
  <2>2. DOMAIN policy = Teams \cup Users
    BY DEF TeamsIInv, T!TypeOK
  <2> QED BY <1>1, <2>1, <2>2
<1> QED BY <1>1, <1>3, <1>5, <1>6, <1>7, WroteOvertakes, WriterKeeps

LEMMA LeaveTeamKeeps ==
  ASSUME T!NoneIsNothing, TeamsIInv, NEW u \in Users, T!LeaveTeam(u)
  PROVE  TeamsIInv'
<1>1. /\ team' = [team EXCEPT ![u] = None] /\ UNCHANGED <<gone, policy, tag>>
      /\ teamChange' = [q \in Requests |-> IF teamChange[q] = None THEN None
                                       ELSE [teamChange[q] EXCEPT !.fresh = FALSE]]
  BY DEF T!LeaveTeam
<1>2. /\ team' \in [Users -> Teams \cup {None}]
      /\ \A v \in Users : team'[v] = IF v = u THEN None ELSE team[v]
  BY <1>1 DEF TeamsIInv, T!TypeOK
<1>3. T!TypeOK'
  BY <1>1, <1>2 DEF TeamsIInv, T!TypeOK
<1>4. T!OneSpelling'
  BY <1>1, <1>2 DEF TeamsIInv, T!OneSpelling, T!Live
<1>5. \A t : (T!Spellings(t))' \subseteq T!Spellings(t)
  BY <1>1, <1>2 DEF T!Spellings, T!Labels, T!Live
<1>6. PICK none : none \notin Requests
  BY NoSetContainsEverything
<1>7. teamChange' = [q \in Requests |-> teamChange'[q]] /\ \A q \in Requests : Overtaken(none, q)
  BY <1>1, <1>6 DEF Overtaken
<1> QED BY <1>1, <1>3, <1>4, <1>5, <1>7, WriterKeeps

LEMMA CreateTagKeeps ==
  ASSUME T!NoneIsNothing, TeamsIInv, NEW r \in Requests, NEW t \in Tags, T!CreateTag(r, t)
  PROVE  TeamsIInv'
<1> DEFINE k == teamChange[r].policy
<1>1. /\ T!At(r, "grant") /\ tag' = [tag EXCEPT ![t] = "live"] /\ UNCHANGED <<team, gone>>
  BY DEF T!CreateTag
<1>2. /\ tag' \in [Tags -> {"none", "live", "retired"}]
      /\ gone \subseteq gone' /\ gone' \in SUBSET Users
  BY <1>1 DEF TeamsIInv, T!TypeOK
<1>3. CASE k = None
  <2>1. UNCHANGED policy /\ teamChange' = [teamChange EXCEPT ![r] = None]
    BY <1>3 DEF T!CreateTag, T!Done
  <2>2. /\ teamChange' \in [Requests -> T!Call \cup {None}] /\ teamChange'[r] = None
        /\ \A q \in Requests : q # r => teamChange'[q] = teamChange[q]
    BY <2>1 DEF TeamsIInv, TeamCallsTyped
  <2> QED BY <1>1, <1>2, <2>1, <2>2, TeamReaderKeeps
<1>4. CASE k # None
  <2>1. policy' = [policy EXCEPT ![k].tags = @ \cup {t}] /\ T!Wrote(r)
    BY <1>4 DEF T!CreateTag
  <2>2. k \in Teams \cup Users /\ policy[k] # None
    <3>1. teamChange[r] \in T!TagCall /\ TeamPlaced(teamChange[r]) /\ teamChange[r].step = "grant"
      BY <1>1, AskedCall, CallFields DEF T!At
    <3> QED BY <1>4, <3>1 DEF T!TagCall, TeamPlaced
  <2> HIDE DEF k
  <2>3. policy[k] \in T!Policy
    BY <2>2 DEF TeamsIInv, T!TypeOK
  <2> DEFINE p == [policy[k] EXCEPT !.tags = @ \cup {t}]
  <2>4. p \in T!Policy /\ p.create = policy[k].create /\ p.access = policy[k].access
    BY <2>3 DEF T!Policy
  <2>5. policy' = [policy EXCEPT ![k] = p] /\ p # None
    BY <2>1, <2>4 DEF T!NoneIsNothing
  <2> HIDE DEF p
  <2>6. /\ policy' \in [Teams \cup Users -> T!Policy \cup {None}]
        /\ DOMAIN policy = Teams \cup Users
        /\ \A j \in Teams \cup Users : policy'[j] = IF j = k THEN p ELSE policy[j]
    BY <2>2, <2>4, <2>5 DEF TeamsIInv, T!TypeOK
  <2>7. T!TypeOK'
    BY <1>1, <1>2, <2>2, <2>4, <2>6 DEF TeamsIInv, T!TypeOK
  <2>8. T!OneSpelling'
    BY <1>1 DEF TeamsIInv, T!OneSpelling, T!Live
  <2>9. \A l : (T!Spellings(l))' \subseteq T!Spellings(l)
    BY <1>1, FewerSpellings
  <2>10. \A j : policy[j] # None => policy'[j] # None
    BY <2>5, <2>6
  <2> QED BY <2>1, <2>7, <2>8, <2>9, <2>10, WroteOvertakes, WriterKeeps
<1> QED BY <1>3, <1>4

LEMMA ResetPolicyKeeps ==
  ASSUME T!NoneIsNothing, TeamsIInv, NEW k \in Teams \cup Users, T!ResetPolicy(k)
  PROVE  TeamsIInv'
<1>1. /\ policy' = [policy EXCEPT ![k] = None] /\ ~T!Held(k) /\ UNCHANGED <<team, gone, tag>>
      /\ teamChange' = [q \in Requests |->
                      IF teamChange[q] = None THEN None
                      ELSE IF T!At(q, "grant") /\ teamChange[q].policy = k
                      THEN [teamChange[q] EXCEPT !.step = "failing"]
                      ELSE [teamChange[q] EXCEPT !.fresh = FALSE]]
  BY DEF T!ResetPolicy
<1>2. /\ policy' \in [Teams \cup Users -> T!Policy \cup {None}]
      /\ \A j \in Teams \cup Users : policy'[j] = IF j = k THEN None ELSE policy[j]
  BY <1>1 DEF TeamsIInv, T!TypeOK
<1>3. T!TypeOK' /\ T!OneSpelling'
  BY <1>1, <1>2 DEF TeamsIInv, T!TypeOK, T!OneSpelling, T!Live
<1>4. \A t : (T!Spellings(t))' = T!Spellings(t)
  BY <1>1 DEF T!Spellings, T!Labels, T!Live
<1>5. ASSUME NEW q \in Requests, teamChange'[q] # None
      PROVE  /\ teamChange'[q] \in T!Call /\ teamChange[q] # None
             /\ \A e : e = teamChange'[q] => TeamPlaced(e)'
             /\ teamChange'[q].step \in T!Relabels => teamChange'[q].step = teamChange[q].step
  <2> DEFINE c == teamChange[q]
             d == teamChange'[q]
  <2>1. c \in T!Call /\ TeamPlaced(c) /\ c # None
    BY <1>1, <1>5, AskedCall
  <2>2. CASE T!At(q, "grant") /\ c.policy = k
    <3>1. d = [c EXCEPT !.step = "failing"] /\ c.step = "grant"
      BY <1>1, <2>1, <2>2 DEF T!At
    <3>2. c \in T!TagCall
      BY <2>1, <3>1, CallFields
    <3>3. d \in T!Call /\ d.step = "failing"
      <4> HIDE DEF c, d
      <4> QED BY <3>1, <3>2 DEF T!TagCall, T!Call
    <3>4. \A e : e = d => TeamPlaced(e)'
      BY <3>3 DEF TeamPlaced
    <3> QED BY <2>1, <3>3, <3>4 DEF T!Relabels
  <2>3. CASE ~(T!At(q, "grant") /\ c.policy = k)
    <3>1. d = [c EXCEPT !.fresh = FALSE]
      BY <1>1, <2>1, <2>3
    <3>2. /\ d \in T!Call /\ d.step = c.step /\ ~d.fresh
          /\ c.step = "move" => d.label = c.label
          /\ c.step = "rename" => d.from = c.from /\ d.label = c.label /\ d.carries = c.carries
          /\ c.step = "policy" => d.of = c.of /\ d.policy = c.policy
          /\ c.step = "grant" => d.policy = c.policy
      BY <2>1, <3>1, Outdated
    <3>3. c.step = "rename" /\ c.carries => c.from # k
      BY <1>1, <2>1 DEF T!Held, T!At
    <3>4. c.step = "rename" => c.from \in Teams \cup Users
      BY <2>1, CallFields DEF T!RenameCall
    <3>5. c.step = "grant" => c.policy \in Teams \cup Users \cup {None} /\ c.policy # k
      BY <2>1, <2>3, CallFields DEF T!TagCall, T!At
    <3>6. \A e : e = d => TeamPlaced(e)'
      <4> HIDE DEF c, d
      <4> QED BY <1>2, <1>4, <2>1, <3>2, <3>3, <3>4, <3>5 DEF TeamPlaced
    <3> QED BY <2>1, <3>2, <3>6
  <2> QED BY <2>2, <2>3
<1>6. TeamCallsTyped'
  BY <1>1, <1>5 DEF TeamCallsTyped
<1>7. OneRelabel'
  BY <1>5 DEF TeamsIInv, OneRelabel
<1>8. TeamCallsPlaced'
  BY <1>5 DEF TeamCallsPlaced
<1> QED BY <1>3, <1>6, <1>7, <1>8 DEF TeamsIInv

\* The policy goes with the name, and so do the grants that wait for it.
LEMMA RenameKeeps ==
  ASSUME T!NoneIsNothing, TeamsIInv, NEW r \in Requests, T!Rename(r)
  PROVE  TeamsIInv'
<1> DEFINE c == teamChange[r]
           from == c.from
           new == c.label
           carries == c.carries
<1>1. /\ c # None /\ c.step = "rename" /\ UNCHANGED <<gone, tag>>
      /\ team' = [u \in Users |-> IF team[u] = from THEN new ELSE team[u]]
      /\ carries => policy[new] = None /\ policy' = T!Carried(from, new)
      /\ ~carries => UNCHANGED policy
      /\ teamChange' = [q \in Requests |->
                      IF q = r \/ teamChange[q] = None THEN None
                      ELSE IF T!At(q, "grant") /\ teamChange[q].policy = from /\ carries
                      THEN [teamChange[q] EXCEPT !.fresh = FALSE, !.policy = new]
                      ELSE [teamChange[q] EXCEPT !.fresh = FALSE]]
  BY DEF T!Rename, T!At
<1>2. /\ from \in Teams /\ new \in Teams /\ T!Spellings(new) \subseteq {from}
      /\ carries => policy[from] # None
  <2>1. c \in T!RenameCall /\ TeamPlaced(c)
    BY <1>1, AskedCall, CallFields
  <2> QED BY <1>1, <2>1 DEF T!RenameCall, TeamPlaced
<1>3. \A q \in Requests \ {r} : teamChange[q] # None => teamChange[q].step \notin T!Relabels
  BY <1>1 DEF TeamsIInv, OneRelabel, T!Relabels
<1> HIDE DEF c, from, new, carries
<1>4. /\ policy' \in [Teams \cup Users -> T!Policy \cup {None}]
      /\ carries => from # new /\ policy[from] \in T!Policy
      /\ \A k \in Teams \cup Users :
           policy'[k] = IF carries /\ k = new THEN policy[from]
                        ELSE IF carries /\ k = from THEN None ELSE policy[k]
  BY <1>1, <1>2 DEF TeamsIInv, T!TypeOK, T!Carried
<1>5. T!TypeOK'
  <2>1. team' \in [Users -> Teams \cup {None}]
    BY <1>1, <1>2 DEF TeamsIInv, T!TypeOK
  <2> QED BY <1>1, <1>2, <1>4, <2>1 DEF TeamsIInv, T!TypeOK
<1>6. T!OneSpelling'
  <2> SUFFICES ASSUME NEW u \in T!Live, NEW v \in T!Live, team'[u] # None, team'[v] # None,
                      Fold[team'[u]] = Fold[team'[v]]
               PROVE  team'[u] = team'[v]
    BY <1>1 DEF T!OneSpelling, T!Live
  <2>1. u \in Users /\ v \in Users
    BY DEF T!Live
  <2>2. ASSUME NEW w \in T!Live, team[w] # None, Fold[team[w]] = Fold[new] PROVE team[w] = from
    BY <2>2, <1>2 DEF T!Spellings, T!Labels
  <2> QED BY <1>1, <2>1, <2>2 DEF TeamsIInv, T!OneSpelling
<1>7. ASSUME NEW q \in Requests, teamChange'[q] # None
      PROVE  /\ teamChange'[q] \in T!Call /\ teamChange'[q].step \notin T!Relabels
             /\ \A e : e = teamChange'[q] => TeamPlaced(e)'
  <2> DEFINE b == teamChange[q]
             d == teamChange'[q]
  <2>1. /\ b \in T!Call /\ TeamPlaced(b) /\ b # None /\ q # r /\ b.step \notin T!Relabels
    BY <1>1, <1>3, <1>7, AskedCall
  <2>2. CASE T!At(q, "grant") /\ b.policy = from /\ carries
    <3>1. d = [b EXCEPT !.fresh = FALSE, !.policy = new] /\ b.step = "grant"
      BY <1>1, <2>1, <2>2 DEF T!At
    <3>2. b \in T!TagCall
      BY <2>1, <3>1, CallFields
    <3>3. d \in T!Call /\ d.step = "grant" /\ d.policy = new /\ ~d.fresh
      <4> HIDE DEF b, d
      <4> QED BY <1>2, <3>1, <3>2 DEF T!TagCall, T!Call
    <3>4. policy'[new] # None
      BY <1>2, <1>4, <2>2
    <3>5. \A e : e = d => TeamPlaced(e)'
      <4> HIDE DEF d
      <4> QED BY <3>3, <3>4 DEF TeamPlaced
    <3> QED BY <3>3, <3>5 DEF T!Relabels
  <2>3. CASE ~(T!At(q, "grant") /\ b.policy = from /\ carries)
    <3>1. d = [b EXCEPT !.fresh = FALSE]
      BY <1>1, <2>1, <2>3
    <3>2. /\ d \in T!Call /\ d.step = b.step /\ ~d.fresh
          /\ b.step = "policy" => d.of = b.of /\ d.policy = b.policy
          /\ b.step = "grant" => d.policy = b.policy
      BY <2>1, <3>1, Outdated
    <3>3. b.step = "grant" => /\ b.policy \in Teams \cup Users \cup {None}
                              /\ carries => b.policy # from
      BY <2>1, <2>3, CallFields DEF T!TagCall, T!At
    <3>4. \A e : e = d => TeamPlaced(e)'
      <4> HIDE DEF b, d
      <4> QED BY <1>2, <1>4, <2>1, <3>2, <3>3 DEF TeamPlaced, T!Relabels
    <3> QED BY <2>1, <3>2, <3>4
  <2> QED BY <2>2, <2>3
<1>8. TeamCallsTyped'
  BY <1>1, <1>7 DEF TeamCallsTyped
<1>9. OneRelabel'
  BY <1>7 DEF OneRelabel
<1>10. TeamCallsPlaced'
  BY <1>7 DEF TeamCallsPlaced
<1> QED BY <1>5, <1>6, <1>8, <1>9, <1>10 DEF TeamsIInv

-----------------------------------------------------------------------------
(* The theorems. *)

LEMMA InitTeams ==
  ASSUME T!NoneIsNothing
  PROVE  T!Init => TeamsIInv
BY
DEF T!Init, TeamsIInv, T!TypeOK, T!OneSpelling, TeamCallsTyped, OneRelabel, TeamCallsPlaced,
    T!Live

LEMMA NextTeams ==
  ASSUME T!NoneIsNothing
  PROVE  TeamsIInv /\ [T!Next]_(T!vars) => TeamsIInv'
<1> SUFFICES ASSUME TeamsIInv, [T!Next]_(T!vars) PROVE TeamsIInv'
  OBVIOUS
<1>1. ASSUME NEW r \in Requests,
             \/ \E t \in Teams, us \in SUBSET Users : T!CheckCreateTeam(r, t, us)
             \/ \E t \in Teams \cup {None}, us \in SUBSET Users : T!CheckAssign(r, t, us)
             \/ \E t \in Teams : \/ \E u \in Users : T!CheckEditMember(r, u, t)
                                 \/ \E new \in Teams : T!CheckRename(r, t, new)
      PROVE  TeamsIInv'
  BY <1>1, CheckCreateTeamKeeps, TeamCheckAssignKeeps, CheckEditMemberKeeps, CheckRenameKeeps
<1>2. ASSUME NEW r \in Requests,
             \/ \E k \in Teams \cup Users, p \in T!Policy : T!CheckPolicy(r, k, p)
             \/ \E u \in Users : T!CheckCreateTag(r, u)
             \/ \E t \in Tags : T!CreateTag(r, t)
      PROVE  TeamsIInv'
  BY <1>2, CheckPolicyKeeps, CheckCreateTagKeeps, CreateTagKeeps
<1>3. ASSUME NEW r \in Requests,
             T!Move(r) \/ T!Rename(r) \/ T!SavePolicy(r) \/ T!LoadPolicy(r) \/ T!Fail(r)
      PROVE  TeamsIInv'
  BY <1>3, TeamMoveKeeps, RenameKeeps, SavePolicyKeeps, LoadPolicyKeeps, TeamFailKeeps
<1>4. ASSUME \/ \E u \in Users : T!LeaveTeam(u) \/ T!RemoveUser(u)
             \/ \E k \in Teams \cup Users : T!ResetPolicy(k)
             \/ \E t \in Tags : T!AdminTag(t) \/ T!RetireTag(t)
      PROVE  TeamsIInv'
  BY <1>4, LeaveTeamKeeps, ResetPolicyKeeps, AsideKeeps
<1>5. CASE UNCHANGED T!vars
  BY <1>5
  DEF T!vars, TeamsIInv, T!TypeOK, T!OneSpelling, TeamCallsTyped, OneRelabel, TeamCallsPlaced,
      TeamPlaced,
              T!Spellings, T!Labels, T!Live, ListOf, T!Governing
<1> QED BY <1>1, <1>2, <1>3, <1>4, <1>5 DEF T!Next

\* Whoever creates, renames, joins, leaves or edits a team meanwhile: no team is two by the case
\* of a letter, and a team's policy leaves nothing open.
THEOREM TeamsSound ==
  ASSUME T!NoneIsNothing
  PROVE  T!Spec => [](T!TypeOK /\ T!OneSpelling)
<1>1. TeamsIInv => T!TypeOK /\ T!OneSpelling
  BY DEF TeamsIInv
<1> QED BY InitTeams, NextTeams, <1>1, PTL DEF T!Spec

\* Only its own last step, or its failure, ends a request.
LEMMA TeamCallEnds ==
  ASSUME T!NoneIsNothing, TeamsIInv, [T!Next]_(T!vars), NEW r \in Requests,
         teamChange[r] # None, teamChange'[r] = None
  PROVE  \/ T!Fail(r) \/ T!Move(r) \/ T!Rename(r) \/ T!SavePolicy(r)
         \/ \E t \in Tags : T!CreateTag(r, t)
<1>1. teamChange[r] \in T!Call
  BY AskedCall
<1>2. /\ [teamChange[r] EXCEPT !.fresh = FALSE] \in T!Call
      /\ teamChange[r].step = "grant" =>
           /\ [teamChange[r] EXCEPT !.step = "failing"] # None
           /\ \A new \in Teams : [teamChange[r] EXCEPT !.fresh = FALSE, !.policy = new] # None
  <2>1. ASSUME teamChange[r].step = "grant"
        PROVE  /\ [teamChange[r] EXCEPT !.step = "failing"] \in T!Call
               /\ \A new \in Teams :
                    [teamChange[r] EXCEPT !.fresh = FALSE, !.policy = new] \in T!Call
    <3>1. teamChange[r] \in T!TagCall
      BY <1>1, <2>1, CallFields
    <3> QED BY <3>1 DEF T!Call, T!TagCall
  <2> QED BY <1>1, <2>1, Outdated, CallIsSomething
<1>3. [teamChange[r] EXCEPT !.fresh = FALSE] # None
  BY <1>2, CallIsSomething
<1>4. ASSUME NEW q \in Requests, T!Rename(q), q # r PROVE FALSE
  <2>1. teamChange[q] \in T!RenameCall
    BY <1>4, AskedCall, CallFields DEF T!Rename, T!At
  <2>2. teamChange[q].label \in Teams
    BY <2>1 DEF T!RenameCall
  <2> QED BY <1>2, <1>3, <1>4, <2>2 DEF T!Rename, T!At
<1>5. ASSUME NEW q \in Requests, q # r, T!Wrote(q) PROVE FALSE
  BY <1>3, <1>5 DEF T!Wrote
<1>6. ASSUME NEW q \in Requests, q # r, NEW c, teamChange' = [teamChange EXCEPT ![q] = c]
      PROVE  FALSE
  BY <1>6 DEF TeamsIInv, TeamCallsTyped
<1>7. ASSUME NEW k \in Teams \cup Users, T!ResetPolicy(k) PROVE FALSE
  BY <1>2, <1>3, <1>7 DEF T!ResetPolicy, T!At
<1>8. ASSUME NEW u \in Users, T!LeaveTeam(u) PROVE FALSE
  BY <1>3, <1>8 DEF T!LeaveTeam
<1>9. ASSUME T!LoadPolicy(r) PROVE FALSE
  <2> DEFINE g == T!GrantedTo(teamChange[r].user)
             k == IF g # None /\ policy[g].access = "LISTED" THEN g ELSE None
  <2>1. teamChange[r] \in T!TagCall
    BY <1>1, <1>9, CallFields DEF T!LoadPolicy, T!At
  <2>2. g = T!Governing(teamChange[r].user) /\ teamChange[r].user \in Users
    BY <2>1 DEF T!GrantedTo, T!TagCall
  <2>3. k \in Teams \cup Users \cup {None}
    <3>1. g \in Teams \cup Users \cup {None}
      BY <2>2, GoverningTyped DEF TeamsIInv
    <3> HIDE DEF g
    <3> QED BY <3>1
  <2>4. teamChange'[r] = [teamChange[r] EXCEPT !.step = "grant", !.fresh = TRUE, !.policy = k]
    BY <1>9 DEF T!LoadPolicy, TeamsIInv, TeamCallsTyped
  <2> HIDE DEF g, k
  <2>5. teamChange'[r] \in T!TagCall
    BY <2>1, <2>3, <2>4 DEF T!TagCall
  <2> QED BY <2>5, CallIsSomething DEF T!Call
<1>10. ASSUME NEW q \in Requests, q # r, T!LoadPolicy(q) PROVE FALSE
  BY <1>10 DEF T!LoadPolicy, TeamsIInv, TeamCallsTyped
<1>11. \/ UNCHANGED teamChange
       \/ \E k \in Teams \cup Users : T!ResetPolicy(k)
       \/ \E u \in Users : T!LeaveTeam(u)
       \/ \E q \in Requests :
            \/ teamChange[q] = None /\ \E c : teamChange' = [teamChange EXCEPT ![q] = c]
            \/ T!LoadPolicy(q)
            \/ T!Fail(q) \/ T!Move(q) \/ T!Rename(q) \/ T!SavePolicy(q)
            \/ \E t \in Tags : T!CreateTag(q, t)
  BY
  DEF T!Next, T!vars, T!CheckCreateTeam, T!CheckAssign, T!CheckEditMember, T!CheckRename,
      T!CheckPolicy,
         T!CheckCreateTag, T!RemoveUser, T!AdminTag, T!RetireTag
<1>12. ASSUME NEW q \in Requests, q # r, T!Fail(q) \/ T!Move(q) \/ T!SavePolicy(q) PROVE FALSE
  BY <1>5, <1>6, <1>12 DEF T!Fail, T!Move, T!SavePolicy, T!Done
<1>13. ASSUME NEW q \in Requests, NEW t \in Tags, q # r, T!CreateTag(q, t) PROVE FALSE
  BY <1>5, <1>6, <1>13 DEF T!CreateTag, T!Done
<1>14. ASSUME NEW q \in Requests, teamChange[q] = None, NEW c,
              teamChange' = [teamChange EXCEPT ![q] = c]
       PROVE  FALSE
  BY <1>6, <1>14
<1> QED BY <1>4, <1>7, <1>8, <1>9, <1>10, <1>11, <1>12, <1>13, <1>14

\* A rename leaves everybody his access, but for a first policy saved meanwhile.
LEMMA RenameStep ==
  ASSUME T!NoneIsNothing, T!TeamsAreNoUsers, TeamsIInv, NEW r \in Requests, T!Rename(r),
         T!NoFirstPolicy(r),
         NEW u \in T!Live
  PROVE  T!Access(u)' = T!Access(u)
<1> DEFINE c == teamChange[r]
           from == c.from
           new == c.label
<1>1. /\ from \in Teams /\ new \in Teams /\ T!Spellings(new) \subseteq {from}
      /\ c.carries <=> policy[from] # None
      /\ policy[new] = None
  <2>1. c \in T!RenameCall /\ TeamPlaced(c) /\ c.step = "rename"
    BY AskedCall, CallFields DEF T!Rename, T!At
  <2>2. /\ c.carries => policy[new] = None
        /\ ~c.carries => policy[from] = None /\ policy[new] = None
    BY DEF T!Rename, T!NoFirstPolicy
  <2> QED BY <2>1, <2>2 DEF T!RenameCall, TeamPlaced
<1>2. /\ team' = [v \in Users |-> IF team[v] = from THEN new ELSE team[v]]
      /\ c.carries => policy' = T!Carried(from, new)
      /\ ~c.carries => UNCHANGED policy
      /\ UNCHANGED tag
  BY DEF T!Rename
<1> HIDE DEF from, new, c
<1>3. u \in Users /\ team[u] \in Teams \cup {None} /\ u \notin Teams
  BY DEF T!Live, TeamsIInv, T!TypeOK, T!TeamsAreNoUsers
<1>4. /\ policy \in [Teams \cup Users -> T!Policy \cup {None}]
      /\ policy[from] # None => from # new
  BY <1>1 DEF TeamsIInv, T!TypeOK
<1>5. \A k \in Teams \cup Users :
        policy'[k] = IF k = new THEN policy[from] ELSE IF k = from THEN None ELSE policy[k]
  <2>1. CASE c.carries
    BY <1>1, <1>2, <1>4, <2>1 DEF T!Carried
  <2>2. CASE ~c.carries
    BY <1>1, <1>2, <1>4, <2>2
  <2> QED BY <2>1, <2>2
<1>6. policy'[u] = policy[u]
  BY <1>1, <1>3, <1>5
<1>7. /\ team'[u] # None <=> team[u] # None
      /\ team[u] # None => policy'[team'[u]] = policy[team[u]]
  <2>1. team'[u] = IF team[u] = from THEN new ELSE team[u]
    BY <1>2, <1>3
  <2>2. team[u] # None /\ team[u] # from => team[u] # new
    BY <1>1 DEF T!Spellings, T!Labels
  <2>3. None \notin Teams
    BY DEF T!NoneIsNothing
  <2> QED BY <1>1, <1>3, <1>5, <2>1, <2>2, <2>3
<1>8. T!MayCreate(u)' = T!MayCreate(u)
  BY <1>6, <1>7 DEF T!MayCreate
<1>9. T!Allowed(u)' = T!Allowed(u)
  <2> DEFINE own == policy[u] # None /\ policy[u].access # None
             his == team[u] # None /\ policy[team[u]] # None
  <2>1. T!Governing(u) = IF own THEN u ELSE IF his THEN team[u] ELSE None
    BY DEF T!Governing
  <2>2. T!Governing(u)' = IF own THEN u ELSE IF his THEN team'[u] ELSE None
    BY <1>6, <1>7 DEF T!Governing
  <2>3. own => T!Governing(u) = u /\ T!Governing(u)' = u
    BY <2>1, <2>2
  <2>4. ~own /\ his => T!Governing(u) = team[u] /\ T!Governing(u)' = team'[u]
    BY <2>1, <2>2
  <2>5. ~own /\ ~his => T!Governing(u) = None /\ T!Governing(u)' = None
    BY <2>1, <2>2
  <2>6. T!Governing(u)' # None <=> T!Governing(u) # None
    BY <1>3, <1>7, <2>1, <2>2
  <2>7. T!Governing(u) # None => policy'[T!Governing(u)'] = policy[T!Governing(u)]
    <3> HIDE DEF own
    <3> QED BY <1>6, <1>7, <2>3, <2>4, <2>5
  <2> HIDE DEF own, his
  <2> QED BY <2>6, <2>7 DEF T!Allowed
<1> QED BY <1>8, <1>9 DEF T!Access

\* However often teams are renamed and policies saved: a rename changes nobody's access, unless
\* a team that had no policy gets one while it is renamed.
THEOREM RenamesKeepAccess ==
  ASSUME T!NoneIsNothing, T!TeamsAreNoUsers
  PROVE  T!Spec => T!RenameKeepsAccess
<1> DEFINE Step == \A r \in Requests :
                     T!At(r, "rename") /\ teamChange'[r] = None /\ T!NoFirstPolicy(r)
                     => \A u \in T!Live : T!Access(u)' = T!Access(u)
<1>1. ASSUME TeamsIInv, [T!Next]_(T!vars), NEW r \in Requests, T!At(r, "rename"),
             T!NoFirstPolicy(r), teamChange'[r] = None, NEW u \in T!Live
      PROVE  T!Access(u)' = T!Access(u)
  <2>1. T!Fail(r) \/ T!Rename(r)
    BY <1>1, TeamCallEnds DEF T!At, T!Move, T!SavePolicy, T!CreateTag
  <2>2. ASSUME T!Fail(r) PROVE T!Access(u)' = T!Access(u)
    BY <2>2 DEF T!Fail, T!Access, T!MayCreate, T!Allowed, T!Governing
  <2> QED BY <1>1, <2>1, <2>2, RenameStep
<1>2. TeamsIInv /\ [T!Next]_(T!vars) => [Step]_(T!vars)
  BY <1>1
<1> QED BY InitTeams, NextTeams, <1>2, PTL DEF T!Spec, T!RenameKeepsAccess

\* The list that governs the creator has his tag.
LEMMA CreateStep ==
  ASSUME T!NoneIsNothing, TeamsIInv, NEW r \in Requests, NEW t \in Tags, T!CreateTag(r, t),
         NEW u \in Users, teamChange[r].user = u,
         teamChange[r].fresh \/ teamChange[r].policy = T!ListFor(u)
  PROVE  t \in (T!Allowed(u))'
<1> DEFINE k == teamChange[r].policy
<1>1. k = ListOf(u) /\ (k # None => policy[k] # None)
  BY AskedCall DEF T!CreateTag, T!At, TeamPlaced, ListOf, T!ListFor
<1>2. /\ UNCHANGED team
      /\ k = None => UNCHANGED policy
      /\ k # None => policy' = [policy EXCEPT ![k].tags = @ \cup {t}]
  BY DEF T!CreateTag
<1> HIDE DEF k
<1>3. CASE k = None
  BY <1>1, <1>2, <1>3 DEF ListOf, T!Allowed, T!Governing
<1>4. CASE k # None
  <2>1. k = T!Governing(u) /\ policy[k].access = "LISTED"
    BY <1>1, <1>4 DEF ListOf
  <2>2. k \in Teams \cup Users /\ policy[k] \in T!Policy
    BY <1>1, <1>4, <2>1, GoverningTyped DEF TeamsIInv, T!TypeOK
  <2>3. DOMAIN policy = Teams \cup Users
    BY DEF TeamsIInv, T!TypeOK
  <2>4. /\ policy'[k] = [policy[k] EXCEPT !.tags = @ \cup {t}]
        /\ \A j \in Teams \cup Users : j # k => policy'[j] = policy[j]
    BY <1>2, <1>4, <2>2, <2>3
  <2>5. /\ policy'[k] \in T!Policy /\ policy'[k].access = "LISTED" /\ t \in policy'[k].tags
    BY <2>1, <2>2, <2>4 DEF T!Policy
  <2>6. policy'[k] # None
    BY <2>5 DEF T!NoneIsNothing
  <2>7. (T!Governing(u))' = k
    <3>1. team[u] \in Teams \cup {None} /\ u \in Teams \cup Users
      BY DEF TeamsIInv, T!TypeOK
    <3>2. \A j \in Teams \cup Users : /\ policy'[j] # None <=> policy[j] # None
                                      /\ policy'[j].access = policy[j].access
      BY <1>1, <1>4, <2>1, <2>4, <2>5, <2>6
    <3> QED BY <1>2, <2>1, <3>1, <3>2 DEF T!Governing
  <2> QED BY <1>4, <2>5, <2>7 DEF T!Allowed
<1> QED BY <1>3, <1>4

\* Whoever creates a tag may use it, unless another list governs him when it is granted.
THEOREM CreatorsMayUse ==
  ASSUME T!NoneIsNothing
  PROVE  T!Spec => T!CreatorMayUse
<1> DEFINE Step == \A r \in Requests, t \in Tags, u \in Users :
                     /\ T!At(r, "grant") /\ teamChange'[r] = None /\ teamChange[r].user = u
                     /\ teamChange[r].fresh \/ teamChange[r].policy = T!ListFor(u)
                     /\ tag[t] = "none" /\ tag'[t] = "live"
                     => t \in T!Allowed(u)'
<1>1. ASSUME TeamsIInv, [T!Next]_(T!vars), NEW r \in Requests, NEW t \in Tags, NEW u \in Users,
             T!At(r, "grant"), teamChange'[r] = None, teamChange[r].user = u,
             teamChange[r].fresh \/ teamChange[r].policy = T!ListFor(u),
             tag[t] = "none", tag'[t] = "live"
      PROVE  t \in (T!Allowed(u))'
  <2>1. PICK s \in Tags : T!CreateTag(r, s)
    BY <1>1, TeamCallEnds DEF T!At, T!Fail, T!Move, T!Rename, T!SavePolicy
  <2>2. s = t
    BY <1>1, <2>1 DEF T!CreateTag, TeamsIInv, T!TypeOK
  <2> QED BY <1>1, <2>1, <2>2, CreateStep
<1>2. TeamsIInv /\ [T!Next]_(T!vars) => [Step]_(T!vars)
  BY <1>1
<1> QED BY InitTeams, NextTeams, <1>2, PTL DEF T!Spec, T!CreatorMayUse
-----------------------------------------------------------------------------
(* The whole: a step of one part leaves the other as it is. *)

LEMMA StepOfParts ==
  [MembersNext]_allVars =>
    /\ [Next]_vars
    /\ [T!Next]_(T!vars)
    /\ UNCHANGED part
BY DEF MembersNext, allVars, vars, teamVars, T!vars

\* Whatever is checked, written and removed at once: no team has two spellings, a team's policy
\* says everything, and a removed role is held only by who was given it meanwhile.
THEOREM MembersStaySound == MembersSpec => []MembersSound
<1>1. MembersSpec => Spec /\ T!Spec
  <2>1. MembersInit => Init /\ T!Init
    BY DEF MembersInit
  <2> QED BY <2>1, StepOfParts, PTL DEF MembersSpec, Spec, T!Spec
<1>2. (TypeOK /\ RemovedIsUnheld) /\ (T!TypeOK /\ T!OneSpelling) => MembersSound
  BY DEF MembersSound
<1>3. Spec => [](TypeOK /\ RemovedIsUnheld)
  BY RolesAssumptions, RolesSound
<1>4. T!Spec => [](T!TypeOK /\ T!OneSpelling)
  BY TeamsAssumptions, TeamsSound
<1> QED BY <1>1, <1>2, <1>3, <1>4, PTL

\* Whatever requests cross: a rename costs nobody his access but for a first policy saved
\* meanwhile, and a creator may use his tag while the same list governs him.  A change that
\* finds the roles as it read them keeps the hierarchy sound.
THEOREM MembersStayKept == MembersSpec => MembersKept
<1>1. MembersSpec => Spec /\ T!Spec
  <2>1. MembersInit => Init /\ T!Init
    BY DEF MembersInit
  <2> QED BY <2>1, StepOfParts, PTL DEF MembersSpec, Spec, T!Spec
<1>2. Spec => SoundKept /\ OnlyDraggedMoves
  BY RolesAssumptions, HierarchyStays, DraggedAlone
<1>3. T!Spec => T!RenameKeepsAccess /\ T!CreatorMayUse
  BY TeamsAssumptions, RenamesKeepAccess, CreatorsMayUse
<1> QED BY <1>1, <1>2, <1>3 DEF MembersKept
==============================================================================
