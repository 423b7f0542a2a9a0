------------------------------- MODULE Screens -------------------------------
(***************************************************************************)
(* What administrators configure for the lead screens: the lead forms with *)
(* their custom fields (Forms), the settings (Settings) and the enquiry    *)
(* categories (Categories).  No two of them write a common row, so a       *)
(* behaviour is of one part, chosen at its start.                          *)
(*                                                                         *)
(* A behaviour of the whole is therefore one of each part's specification, *)
(* and what is proved of a part, for every number of categories, forms,    *)
(* settings and requests, holds of the whole.                              *)
(***************************************************************************)
EXTENDS Categories, TreesProofs

CONSTANTS Parts,                                                 \* the parts to explore
          Removed, Forms, Fields, Options, Members, MaxForms, MaxFields,  \* forms
          SettingFields, Values, Bad, Default, Switches, LogLimit,  \* settings
          Shipped, Custom, TypeNames, MaxTypes

VARIABLES part,
          form, field, value, uses, formChange,
          stored, event, used, setRequest

formVars == <<form, field, value, uses, formChange>>
settingVars == <<stored, event, used, setRequest>>
allVars == <<part, vars, formVars, settingVars>>

F == INSTANCE Forms WITH change <- formChange
S == INSTANCE Settings WITH Fields <- SettingFields, Names <- TypeNames, request <- setRequest

ASSUME FormsAssumptions == F!NoneIsNothing /\ F!BoundsPositive
ASSUME SettingsAssumptions ==
  S!DefaultIsAValue /\ S!LimitsPositive /\ S!SeedFits /\ S!NoneIsNothing
ASSUME CategoriesAssumptions == NoneIsNoRow /\ FiniteCategories

AName == CHOOSE n \in Names : TRUE

ScreensInit ==
  /\ part \in Parts
  /\ Init /\ (part # "categories" => carries = [l \in Leads |-> AName])
  /\ F!Init
  /\ S!Init /\ (part # "settings" => stored["form"] = None)

ScreensNext ==
  \/ part = "forms" /\ F!Next /\ UNCHANGED <<part, vars, settingVars>>
  \/ part = "settings" /\ S!Next /\ UNCHANGED <<part, vars, formVars>>
  \/ part = "categories" /\ Next /\ UNCHANGED <<part, formVars, settingVars>>

ScreensSpec == ScreensInit /\ [][ScreensNext]_allVars

-----------------------------------------------------------------------------
(* What the parts keep, as they state it. *)

\* Forms name fields that exist, values are among those offered and assigned forms are there.
FormsSound == F!FormsSound

\* Settings hold what their columns can hold, one unreadable field of a form costs no other
\* field, and the list of follow-up types has no name twice; every parent of a category is there.
ScreensSound ==
  /\ part = "settings" => S!TypeOK /\ S!GoodFieldsSurvive /\ S!ListSound
  /\ part = "categories" => TypeOK /\ ParentsExist

\* A change that finds the forms as it read them keeps one default form, and that one active.
DefaultKept == F!DefaultKept

\* A settings event tells the value its save replaced, and the log
\* of the duplicate settings what changed; a change that finds the categories as it read them
\* keeps their tree sound, and a rename takes along the leads that carry the name.
ScreensKept == /\ S!BeforeIsReplaced /\ S!LogTellsChange
               /\ TreeKept /\ RenameCarriesLeads

-----------------------------------------------------------------------------
(***************************************************************************)
(* Categories, for every number of categories, names, leads and requests:  *)
(* no category is above itself, no two take one place while requests find  *)
(* the tree as they read it, no branch is cut off, and a rename takes      *)
(* along the leads that carry the name.                                    *)
(*                                                                         *)
(* A request writes on what its check read, so the check is part of the    *)
(* invariant: Placed says what is true of it while nobody has written.     *)
(***************************************************************************)

CallsTyped == change \in [Requests -> Call \cup {None}]

\* What a request read of the tree, while it is true.
Read(c) ==
  /\ c.step = "create" => c.position = NextPosition(Graph, c.parent)
  /\ c.step \in {"update", "move"} => ReparentAllowed(c.category, c.parent)
  /\ c.step = "update" =>
       c.position = IF c.parent = category[c.category].parent THEN None
                    ELSE NextPosition(Graph, c.parent)
  /\ c.step = "move" => /\ c.category \in Existing
                        /\ ToSet(c.order) = Children(Graph, c.parent) \cup {c.category}

Placed(c) ==
  /\ c.step # "create" => c.category \in Categories
  /\ c.step = "create" => c.name \in Names /\ c.position \in Nat
  /\ c.fresh => Read(c)

CallsPlaced == \A r \in Requests : change[r] # None => Placed(change[r])

IInv == TypeOK /\ ParentsExist /\ CallsTyped /\ CallsPlaced

-----------------------------------------------------------------------------
(* The rows. *)

LEMMA GraphRows ==
  ASSUME NoneIsNoRow, FiniteCategories,
         TypeOK
  PROVE  /\ DOMAIN Graph = Existing /\ IsFiniteSet(Existing) /\ Existing \subseteq Categories
         /\ None \notin Existing
         /\ \A n \in Existing : Graph[n] = category[n] /\ category[n] \in CategoryRow
         /\ \A n \in Existing : /\ category[n].parent \in Categories \cup {None}
                                /\ category[n].position \in Nat /\ category[n].name \in Names
<1>1. IsFiniteSet(Existing)
  BY FS_Subset DEF Existing, FiniteCategories
<1>2. \A n \in Existing : category[n] \in CategoryRow
  BY DEF Existing, TypeOK
<1> QED BY <1>1, <1>2 DEF Graph, Existing, NoneIsNoRow, CategoryRow

LEMMA CallIsNotNone ==
  ASSUME NoneIsNoRow, FiniteCategories
  PROVE  \A c \in Call : c # None
BY DEF NoneIsNoRow

\* A request that does not write leaves the rows, and what others read of them.
LEMMA ReadersKeep ==
  ASSUME NoneIsNoRow, FiniteCategories,
         IInv, UNCHANGED category, carries' \in [Leads -> Names], NEW r \in Requests, NEW c,
         c \in Call \cup {None}, change' = [change EXCEPT ![r] = c],
         c # None => Placed(c)
  PROVE  IInv'
<1>1. Graph' = Graph /\ Existing' = Existing
  BY DEF Graph, Existing
<1>2. TypeOK' /\ ParentsExist'
  BY <1>1 DEF IInv, TypeOK, ParentsExist
<1>3. CallsTyped'
  BY DEF IInv, CallsTyped
<1>4. \A d : Placed(d)' <=> Placed(d)
  BY <1>1 DEF Placed, Read, ReparentAllowed
<1>5. CallsPlaced'
  <2>1. \A q \in Requests : change'[q] = IF q = r THEN c ELSE change[q]
    BY DEF IInv, CallsTyped
  <2>2. \A q \in Requests : change'[q] # None => Placed(change'[q])
    BY <2>1 DEF IInv, CallsPlaced
  <2>3. \A q \in Requests : change'[q] # None => \A d : d = change'[q] => Placed(d)'
    BY <2>2, <1>4
  <2> QED BY <2>3 DEF CallsPlaced
<1> QED BY <1>2, <1>3, <1>5 DEF IInv

\* A request that writes leaves nobody who read the rows as they are.
LEMMA WriterDone ==
  ASSUME NoneIsNoRow, FiniteCategories,
         IInv, NEW r \in Requests, Wrote(r)
  PROVE  /\ CallsTyped' /\ CallsPlaced'
         /\ \A q \in Requests : change[q] # None /\ change'[q] = None => q = r
<1>1. ASSUME NEW q \in Requests, q # r, change[q] # None
      PROVE  /\ change'[q] \in Call /\ ~change'[q].fresh
             /\ change'[q].step = change[q].step /\ change'[q].category = change[q].category
             /\ change'[q].name = change[q].name /\ change'[q].position = change[q].position
  <2>1. change[q] \in Call
    BY <1>1 DEF IInv, CallsTyped
  <2>2. change'[q] = [change[q] EXCEPT !.fresh = FALSE]
    BY <1>1 DEF Wrote
  <2> QED BY <2>1, <2>2 DEF Call
<1>2. \A q \in Requests : q = r \/ change[q] = None => change'[q] = None
  BY DEF Wrote
<1>3. CallsTyped'
  <2>1. change' = [q \in Requests |-> change'[q]]
    BY DEF Wrote
  <2> QED BY <1>1, <1>2, <2>1 DEF CallsTyped
<1>4. CallsPlaced'
  <2> SUFFICES ASSUME NEW q \in Requests, q # r, change[q] # None
               PROVE  /\ change'[q].step # "create" => change'[q].category \in Categories
                      /\ change'[q].step = "create" =>
                           change'[q].name \in Names /\ change'[q].position \in Nat
                      /\ ~change'[q].fresh
    BY <1>2 DEF CallsPlaced, Placed
  <2> QED BY <1>1 DEF IInv, CallsPlaced, Placed
<1> QED BY <1>1, <1>2, <1>3, <1>4, CallIsNotNone
-----------------------------------------------------------------------------
(* The checks. *)

Steps == {"create", "update", "move", "count", "remove"}

LEMMA StartedCall ==
  ASSUME NoneIsNoRow, FiniteCategories,
         NEW step \in Steps, NEW n \in Categories \cup {None}, NEW p \in Categories \cup {None},
         NEW name \in Names \cup {None}
  PROVE  LET c == Started(step, n, p, name)
         IN  /\ c \in Call /\ c.step = step /\ c.category = n /\ c.parent = p /\ c.name = name
             /\ c.fresh
<1>1. <<>> \in Seq(Categories)
  OBVIOUS
<1> QED BY <1>1 DEF Steps, Started, Call

LEMMA CheckCreateKeeps ==
  ASSUME NoneIsNoRow, FiniteCategories,
         IInv, NEW r \in Requests, NEW p \in Categories \cup {None}, NEW name \in Names,
         CheckCreate(r, name, p)
  PROVE  IInv'
<1> DEFINE b == Started("create", None, p, name)
           c == [b EXCEPT !.position = NextPosition(Graph, p)]
<1>1. NextPosition(Graph, p) \in Nat
  BY GraphRows, NextPositionFree DEF IInv
<1>2. b \in Call /\ b.step = "create" /\ b.parent = p /\ b.name = name /\ b.fresh
  BY StartedCall DEF Steps
<1>3. /\ c \in Call /\ c.step = "create" /\ c.parent = p /\ c.name = name
      /\ c.position = NextPosition(Graph, p)
  <2> HIDE DEF b
  <2> QED BY <1>1, <1>2 DEF Call
<1>4. Placed(c)
  <2> HIDE DEF c
  <2> QED BY <1>1, <1>3 DEF Placed, Read
<1>5. change' = [change EXCEPT ![r] = c] /\ UNCHANGED <<category, carries>>
  BY DEF CheckCreate
<1>6. carries' \in [Leads -> Names]
  BY <1>5 DEF IInv, TypeOK
<1> HIDE DEF c
<1> QED BY <1>3, <1>4, <1>5, <1>6, ReadersKeep

LEMMA CheckUpdateKeeps ==
  ASSUME NoneIsNoRow, FiniteCategories,
         IInv, NEW r \in Requests, NEW n \in Categories, NEW p \in Categories \cup {None},
         NEW name \in Names \cup {None}, CheckUpdate(r, n, name, p)
  PROVE  IInv'
<1> DEFINE position == IF p = category[n].parent THEN None ELSE NextPosition(Graph, p)
           new == IF name = category[n].name THEN None ELSE name
           b == Started("update", n, p, new)
           c == [b EXCEPT !.position = position, !.was = category[n].name]
<1>1. NextPosition(Graph, p) \in Nat
  BY GraphRows, NextPositionFree DEF IInv
<1>2. n \in Existing /\ ReparentAllowed(n, p) /\ category[n].name \in Names
  BY GraphRows DEF CheckUpdate, IInv
<1>3. position \in Nat \cup {None} /\ new \in Names \cup {None}
  BY <1>1
<1>4. change' = [change EXCEPT ![r] = c] /\ UNCHANGED <<category, carries>>
  BY DEF CheckUpdate
<1>5. b \in Call /\ b.step = "update" /\ b.category = n /\ b.parent = p
  BY <1>3, StartedCall DEF Steps
<1>6. /\ c \in Call /\ c.step = "update" /\ c.category = n /\ c.parent = p
      /\ c.position = position
  <2> HIDE DEF b, position
  <2> QED BY <1>2, <1>3, <1>5 DEF Call
<1>7. Placed(c)
  <2> HIDE DEF c
  <2> QED BY <1>2, <1>6 DEF Placed, Read
<1>8. carries' \in [Leads -> Names]
  BY <1>4 DEF IInv, TypeOK
<1> HIDE DEF c
<1> QED BY <1>4, <1>6, <1>7, <1>8, ReadersKeep

LEMMA CheckMoveKeeps ==
  ASSUME NoneIsNoRow, FiniteCategories,
         IInv, NEW r \in Requests, NEW n \in Categories, NEW p \in Categories \cup {None},
         NEW i \in 0..Cardinality(Categories), CheckMove(r, n, p, i)
  PROVE  IInv'
<1>1. n \in Existing /\ ReparentAllowed(n, p)
  BY DEF CheckMove
<1>2. PICK s \in Siblings(Graph, n, p) :
        change' = [change EXCEPT ![r] = [Started("move", n, p, None) EXCEPT
                                           !.order = Dropped(s, n, i)]]
  BY DEF CheckMove
<1> DEFINE order == Dropped(s, n, i)
           b == Started("move", n, p, None)
           c == [b EXCEPT !.order = order]
<1>3. i \in Nat
  BY FS_CardinalityType DEF FiniteCategories
<1>4. order \in Seq(Existing) /\ ToSet(order) = Children(Graph, p) \cup {n}
  BY <1>1, <1>3, GraphRows, DroppedAmong DEF IInv
<1>5. change' = [change EXCEPT ![r] = c] /\ UNCHANGED <<category, carries>>
  BY <1>2 DEF CheckMove
<1> HIDE DEF order
<1>6. order \in Seq(Categories)
  BY <1>4, GraphRows DEF IInv
<1>7. b \in Call /\ b.step = "move" /\ b.category = n /\ b.parent = p
  BY StartedCall DEF Steps
<1>8. c \in Call /\ c.step = "move" /\ c.category = n /\ c.parent = p /\ c.order = order
  <2> HIDE DEF b
  <2> QED BY <1>6, <1>7 DEF Call
<1>9. Placed(c)
  <2> HIDE DEF c
  <2> QED BY <1>1, <1>4, <1>8 DEF Placed, Read
<1>10. carries' \in [Leads -> Names]
  BY <1>5 DEF IInv, TypeOK
<1> HIDE DEF c
<1> QED BY <1>5, <1>8, <1>9, <1>10, ReadersKeep

LEMMA CheckRemoveKeeps ==
  ASSUME NoneIsNoRow, FiniteCategories,
         IInv, NEW r \in Requests, NEW n \in Categories, CheckRemove(r, n)
  PROVE  IInv'
<1> DEFINE b == Started("count", n, None, None)
           c == [b EXCEPT !.was = category[n].name]
<1>1. category[n].name \in Names
  BY GraphRows DEF CheckRemove, IInv
<1>2. b \in Call /\ b.step = "count" /\ b.category = n
  BY StartedCall DEF Steps
<1>3. c \in Call /\ Placed(c)
  <2> HIDE DEF b
  <2>1. c \in Call /\ c.step = "count" /\ c.category = n
    BY <1>1, <1>2 DEF Call
  <2> HIDE DEF c
  <2> QED BY <2>1 DEF Placed, Read
<1>4. change' = [change EXCEPT ![r] = c] /\ UNCHANGED <<category, carries>>
  BY DEF CheckRemove
<1>5. carries' \in [Leads -> Names]
  BY <1>4 DEF IInv, TypeOK
<1> HIDE DEF c
<1> QED BY <1>3, <1>4, <1>5, ReadersKeep

LEMMA CountLeadsKeeps ==
  ASSUME NoneIsNoRow, FiniteCategories,
         IInv, NEW r \in Requests, CountLeads(r)
  PROVE  IInv'
<1> DEFINE c == [change[r] EXCEPT !.step = "remove"]
<1>1. change[r] \in Call /\ Placed(change[r]) /\ change[r].step = "count"
  BY DEF IInv, CallsTyped, CallsPlaced, CountLeads, At
<1>2. /\ c \in Call /\ c.step = "remove" /\ c.category = change[r].category
  BY <1>1 DEF Call
<1>3. Placed(c)
  BY <1>1, <1>2 DEF Placed, Read
<1>4. UNCHANGED <<category, carries>>
  BY DEF CountLeads
<1>5. \/ change' = [change EXCEPT ![r] = None]
      \/ change' = [change EXCEPT ![r] = c]
  BY DEF CountLeads, Done, IInv, CallsTyped
<1>6. carries' \in [Leads -> Names]
  BY <1>4 DEF IInv, TypeOK
<1> HIDE DEF c
<1> QED BY <1>2, <1>3, <1>4, <1>5, <1>6, ReadersKeep

LEMMA FailKeeps ==
  ASSUME NoneIsNoRow, FiniteCategories,
         IInv, NEW r \in Requests, Fail(r)
  PROVE  IInv'
<1>1. UNCHANGED <<category, carries>> /\ change' = [change EXCEPT ![r] = None]
  BY DEF Fail, Done
<1>2. carries' \in [Leads -> Names]
  BY <1>1 DEF IInv, TypeOK
<1> QED BY <1>1, <1>2, ReadersKeep

LEMMA LabelKeeps ==
  ASSUME NoneIsNoRow, FiniteCategories,
         IInv, NEW l \in Leads, NEW name \in Names, Label(l, name)
  PROVE  IInv'
<1>1. UNCHANGED <<category, change>> /\ carries' = [carries EXCEPT ![l] = name]
  BY DEF Label
<1>2. Graph' = Graph /\ Existing' = Existing
  BY <1>1 DEF Graph, Existing
<1>3. TypeOK' /\ ParentsExist' /\ CallsTyped'
  BY <1>1, <1>2 DEF IInv, TypeOK, ParentsExist, CallsTyped
<1>4. CallsPlaced'
  BY <1>1, <1>2 DEF IInv, CallsPlaced, Placed, Read, ReparentAllowed
<1> QED BY <1>3, <1>4 DEF IInv
-----------------------------------------------------------------------------
(* The writes. *)

LEMMA NextRows ==
  ASSUME NoneIsNoRow, FiniteCategories,
         category' \in [Categories -> CategoryRow \cup {None}]
  PROVE  /\ DOMAIN Graph' = Existing' /\ IsFiniteSet(Existing') /\ None \notin Existing'
         /\ \A n \in Categories : n \in Existing' <=> category'[n] # None
         /\ \A n \in Existing' : Graph'[n] = category'[n] /\ category'[n] \in CategoryRow
<1>1. IsFiniteSet(Existing')
  BY FS_Subset DEF Existing, FiniteCategories
<1> QED BY <1>1 DEF Graph, Existing, NoneIsNoRow

LEMMA RowIsNotNone ==
  ASSUME NoneIsNoRow, FiniteCategories
  PROVE  \A row \in CategoryRow : row # None
BY DEF NoneIsNoRow

\* What a writer asks, at its step.
LEMMA Asked ==
  ASSUME NoneIsNoRow, FiniteCategories,
         IInv, NEW r \in Requests, change[r] # None
  PROVE  /\ change[r] \in Call /\ Placed(change[r])
         /\ change[r].category \in Categories \cup {None}
         /\ change[r].parent \in Categories \cup {None}
         /\ change[r].name \in Names \cup {None}
         /\ change[r].position \in Nat \cup {None}
         /\ change[r].order \in Seq(Categories)
<1>1. change[r] \in Call
  BY DEF IInv, CallsTyped
<1> QED BY <1>1 DEF Call, IInv, CallsPlaced

LEMMA CreateKeeps ==
  ASSUME NoneIsNoRow, FiniteCategories,
         IInv, NEW r \in Requests, NEW n \in Categories, Create(r, n)
  PROVE  IInv' /\ (change[r].fresh /\ Sound(Graph) => Sound(Graph'))
<1> DEFINE c == change[r]
           row == [name |-> c.name, parent |-> c.parent, position |-> c.position]
<1>1. /\ c.step = "create" /\ Placed(c) /\ c.parent \in Categories \cup {None}
      /\ c.name \in Names /\ c.position \in Nat
  BY Asked DEF Create, At, Placed
<1>2. row \in CategoryRow /\ row.name = c.name /\ row.parent = c.parent /\ row.position = c.position
  BY <1>1 DEF CategoryRow
<1>3. /\ category[n] = None /\ category' = [category EXCEPT ![n] = row]
      /\ UNCHANGED carries /\ Wrote(r) /\ c.parent \in Existing \cup {None}
      /\ \A m \in Existing \ {None} : category[m].name # c.name
  BY DEF Create, ParentExists, NameFree
<1> HIDE DEF c, row
<1>4. /\ category' \in [Categories -> CategoryRow \cup {None}]
      /\ \A m \in Categories : category'[m] = IF m = n THEN row ELSE category[m]
  BY <1>2, <1>3 DEF IInv, TypeOK
<1>5. Existing' = Existing \cup {n} /\ n \notin Existing
  BY <1>2, <1>3, <1>4, RowIsNotNone DEF Existing
<1>6. /\ DOMAIN Graph = Existing /\ IsFiniteSet(Existing) /\ None \notin Existing
      /\ \A m \in Existing : Graph[m] = category[m] /\ category[m].position \in Nat
  BY GraphRows DEF IInv
<1>7. /\ DOMAIN Graph' = Existing' /\ IsFiniteSet(Existing') /\ None \notin Existing'
      /\ \A m \in Existing : Graph'[m] = Graph[m]
      /\ Graph'[n] = row
  BY <1>4, <1>5, <1>6, NextRows DEF Existing
<1>8. TypeOK'
  <2>1. \A m, k \in Existing' : m # k => category'[m].name # category'[k].name
    BY <1>2, <1>3, <1>4, <1>5, <1>6 DEF IInv, TypeOK, Existing
  <2>2. carries' \in [Leads -> Names]
    BY <1>3 DEF IInv, TypeOK
  <2> QED BY <1>4, <2>1, <2>2 DEF TypeOK
<1>9. ParentsExist'
  BY <1>2, <1>3, <1>5, <1>6, <1>7 DEF IInv, ParentsExist, Attached
<1>10. IInv'
  BY <1>3, <1>8, <1>9, WriterDone DEF IInv
<1>11. ASSUME c.fresh, Sound(Graph) PROVE Sound(Graph')
  <2>1. Acyclic(Graph')
    <3>1. Attached(Graph) /\ Acyclic(Graph)
      BY <1>11 DEF IInv, ParentsExist, Sound
    <3>2. /\ DOMAIN Graph' = DOMAIN Graph \cup {n} /\ IsFiniteSet(DOMAIN Graph')
          /\ n \notin DOMAIN Graph
      BY <1>5, <1>6, <1>7
    <3>3. Graph'[n].parent \in DOMAIN Graph \cup {None}
      BY <1>2, <1>3, <1>6, <1>7
    <3>4. \A m \in DOMAIN Graph : Graph'[m].parent = Graph[m].parent
      BY <1>6, <1>7
    <3> DEFINE g == Graph
               h == Graph'
    <3> HIDE DEF g, h
    <3>5. Acyclic(h)
      BY <3>1, <3>2, <3>3, <3>4, <1>6, <1>7, NewIsBelow DEF g, h
    <3> QED BY <3>5 DEF h
  <2>2. c.position = NextPosition(Graph, c.parent)
    BY <1>1, <1>11 DEF Placed, Read
  <2>3. \A m \in Existing : Graph[m].parent = c.parent => Graph[m].position < c.position
    <3>1. \A m \in Children(Graph, c.parent) : Graph[m].position < NextPosition(Graph, c.parent)
      BY <1>6, NextPositionFree
    <3> QED BY <2>2, <3>1, <1>6 DEF Children
  <2>4. InOrder(Graph')
    <3> SUFFICES ASSUME NEW a \in Existing', NEW b \in Existing', a # b,
                        Graph'[a].parent = Graph'[b].parent
                 PROVE  Graph'[a].position # Graph'[b].position
      BY <1>7 DEF InOrder
    <3>1. CASE a # n /\ b # n
      BY <3>1, <1>5, <1>6, <1>7, <1>11 DEF Sound, InOrder
    <3>2. CASE a = n \/ b = n
      BY <3>2, <2>3, <1>1, <1>2, <1>5, <1>6, <1>7
    <3> QED BY <3>1, <3>2
  <2> QED BY <2>1, <2>4 DEF Sound
<1> QED BY <1>10, <1>11 DEF c
LEMMA UpdateKeeps ==
  ASSUME NoneIsNoRow, FiniteCategories,
         IInv, NEW r \in Requests, Update(r)
  PROVE  IInv' /\ (change[r].fresh /\ Sound(Graph) => Sound(Graph'))
<1> DEFINE c == change[r]
           n == c.category
           p == c.parent
           name == IF c.name = None THEN category[n].name ELSE c.name
           position == IF c.position = None THEN category[n].position ELSE c.position
           row == [name |-> name, parent |-> p, position |-> position]
<1>1. /\ c.step = "update" /\ Placed(c) /\ n \in Categories
      /\ p \in Categories \cup {None} /\ c.name \in Names \cup {None}
      /\ c.position \in Nat \cup {None}
  BY Asked DEF Update, At, Placed
<1>2. /\ category[n] # None /\ p \in Existing \cup {None}
      /\ c.name # None => \A m \in Existing \ {n} : category[m].name # c.name
      /\ category' = [category EXCEPT ![n] = row] /\ Wrote(r)
  BY DEF Update, ParentExists, NameFree
<1>3. carries' \in [Leads -> Names]
  BY <1>1 DEF Update, IInv, TypeOK
<1>4. /\ DOMAIN Graph = Existing /\ IsFiniteSet(Existing) /\ None \notin Existing
      /\ \A m \in Existing : /\ Graph[m] = category[m] /\ category[m].position \in Nat
                             /\ category[m].name \in Names
  BY GraphRows DEF IInv
<1>5. n \in Existing
  BY <1>1, <1>2 DEF Existing
<1>6. /\ row \in CategoryRow /\ row.name = name /\ row.parent = p /\ row.position = position
      /\ position \in Nat
  BY <1>1, <1>4, <1>5 DEF CategoryRow
<1>7. \/ name = category[n].name
      \/ \A m \in Existing \ {n} : category[m].name # name
  BY <1>2
<1>8. c.fresh => /\ p = None \/ Beneath(Graph, n, p)
                 /\ position = IF p = category[n].parent THEN category[n].position
                               ELSE NextPosition(Graph, p)
  <2>1. NextPosition(Graph, p) # None
    BY <1>4, NextPositionFree DEF NoneIsNoRow
  <2> QED BY <1>1, <2>1 DEF Placed, Read, ReparentAllowed
<1> HIDE DEF row, name, position, p, n, c
<1>9. /\ category' \in [Categories -> CategoryRow \cup {None}]
      /\ \A m \in Categories : category'[m] = IF m = n THEN row ELSE category[m]
  BY <1>1, <1>2, <1>6 DEF IInv, TypeOK
<1>10. Existing' = Existing
  BY <1>5, <1>6, <1>9, RowIsNotNone DEF Existing
<1>11. /\ DOMAIN Graph' = Existing /\ Graph'[n] = row
       /\ \A m \in Existing : m # n => Graph'[m] = Graph[m]
  BY <1>1, <1>4, <1>5, <1>9, <1>10, NextRows DEF Existing
<1>12. TypeOK'
  <2>1. \A m, k \in Existing : m # k => category'[m].name # category'[k].name
    BY <1>5, <1>6, <1>7, <1>9 DEF IInv, TypeOK, Existing
  <2> QED BY <1>3, <1>9, <1>10, <2>1 DEF TypeOK
<1>13. ParentsExist'
  BY <1>2, <1>4, <1>6, <1>11 DEF IInv, ParentsExist, Attached
<1>14. IInv'
  BY <1>2, <1>12, <1>13, WriterDone DEF IInv
<1>15. ASSUME c.fresh, Sound(Graph) PROVE Sound(Graph')
  <2>1. Acyclic(Graph')
    <3> DEFINE g == Graph
               h == Graph'
    <3>1. /\ IsFiniteSet(DOMAIN g) /\ None \notin DOMAIN g /\ DOMAIN h = DOMAIN g
          /\ n \in DOMAIN g /\ h[n].parent = p /\ (p = None \/ Beneath(g, n, p))
          /\ \A m \in DOMAIN g \ {n} : h[m].parent = g[m].parent
          /\ Acyclic(g)
      BY <1>4, <1>5, <1>6, <1>8, <1>11, <1>15 DEF Sound
    <3> HIDE DEF g, h
    <3>2. Acyclic(h)
      BY <3>1, Reparented
    <3> QED BY <3>2 DEF h
  <2>2. \A m \in Children(Graph, p) : Graph[m].position < NextPosition(Graph, p)
    BY <1>4, NextPositionFree
  <2>3. ASSUME NEW a \in Existing, a # n, Graph[a].parent = p PROVE Graph[a].position # position
    <3>1. CASE p = category[n].parent
      BY <1>4, <1>5, <1>8, <1>15, <2>3, <3>1 DEF Sound, InOrder
    <3>2. CASE p # category[n].parent
      <4>1. Graph[a].position < position
        BY <1>4, <1>8, <1>15, <2>2, <2>3, <3>2 DEF Children
      <4> QED BY <1>4, <1>6, <4>1
    <3> QED BY <3>1, <3>2
  <2>4. InOrder(Graph')
    <3> SUFFICES ASSUME NEW a \in Existing, NEW b \in Existing, a # b,
                        Graph'[a].parent = Graph'[b].parent
                 PROVE  Graph'[a].position # Graph'[b].position
      BY <1>11 DEF InOrder
    <3>1. CASE a # n /\ b # n
      BY <3>1, <1>4, <1>11, <1>15 DEF Sound, InOrder
    <3>2. CASE a = n
      BY <3>2, <2>3, <1>6, <1>11
    <3>3. CASE b = n
      BY <3>3, <2>3, <1>6, <1>11
    <3> QED BY <3>1, <3>2, <3>3
  <2> QED BY <2>1, <2>4 DEF Sound
<1> QED BY <1>14, <1>15 DEF c

LEMMA MoveKeeps ==
  ASSUME NoneIsNoRow, FiniteCategories,
         IInv, NEW r \in Requests, Move(r)
  PROVE  /\ IInv' /\ (change[r].fresh /\ Sound(Graph) => Sound(Graph'))
         /\ \A m \in Existing : category'[m].name = category[m].name
<1> DEFINE c == change[r]
           s == c.order
           p == c.parent
           n == c.category
           Row(m) == [category[m] EXCEPT !.parent = p, !.position = Place(s, m)]
<1>1. /\ c.step = "move" /\ Placed(c) /\ p \in Categories \cup {None} /\ s \in Seq(Categories)
      /\ n \in Categories
  BY Asked DEF Move, At, Placed
<1>2. /\ ToSet(s) \subseteq Existing /\ p \in Existing \cup {None} /\ Wrote(r)
      /\ UNCHANGED carries
      /\ category' = [m \in Categories |-> IF m \in ToSet(s) THEN Row(m) ELSE category[m]]
  BY DEF Move, ParentExists
<1>3. /\ DOMAIN Graph = Existing /\ IsFiniteSet(Existing) /\ None \notin Existing
      /\ Existing \subseteq Categories
      /\ \A m \in Existing : /\ Graph[m] = category[m] /\ category[m] \in CategoryRow
  BY GraphRows DEF IInv
<1>4. c.fresh => /\ p = None \/ Beneath(Graph, n, p) 
                 /\ n \in Existing /\ ToSet(s) = Children(Graph, p) \cup {n}
  BY <1>1 DEF Placed, Read, ReparentAllowed
<1> HIDE DEF c, s, p, n
<1>5. ASSUME NEW m \in ToSet(s)
      PROVE  /\ Row(m) \in CategoryRow /\ Row(m).name = category[m].name /\ Row(m).parent = p
             /\ Row(m).position = Place(s, m) /\ Place(s, m) \in Nat
  <2>1. Place(s, m) \in Nat
    BY <1>1, PlaceIsThere
  <2> QED BY <2>1, <1>1, <1>2, <1>3 DEF CategoryRow
<1>6. \A m \in Categories : category'[m] = IF m \in ToSet(s) THEN Row(m) ELSE category[m]
  BY <1>2
<1> HIDE DEF Row
<1>7. category' \in [Categories -> CategoryRow \cup {None}]
  <2>1. \A m \in Categories : category'[m] \in CategoryRow \cup {None}
    BY <1>5, <1>6 DEF IInv, TypeOK
  <2> QED BY <1>2, <2>1
<1>8. Existing' = Existing
  BY <1>2, <1>3, <1>5, <1>6, RowIsNotNone DEF Existing
<1>9. /\ DOMAIN Graph' = Existing
      /\ \A m \in Existing : Graph'[m] = IF m \in ToSet(s) THEN Row(m) ELSE Graph[m]
  BY <1>3, <1>6, <1>7, <1>8, NextRows
<1>10. \A m \in Existing : category'[m].name = category[m].name
  BY <1>3, <1>5, <1>6
<1>11. TypeOK'
  <2>1. \A a, b \in Existing : a # b => category'[a].name # category'[b].name
    BY <1>10 DEF IInv, TypeOK
  <2>2. carries' \in [Leads -> Names]
    BY <1>2 DEF IInv, TypeOK
  <2> QED BY <1>7, <1>8, <2>1, <2>2 DEF TypeOK
<1>12. ParentsExist'
  BY <1>2, <1>3, <1>5, <1>9 DEF IInv, ParentsExist, Attached
<1>13. IInv'
  BY <1>2, <1>11, <1>12, WriterDone DEF IInv
<1>14. ASSUME c.fresh, Sound(Graph) PROVE Sound(Graph')
  <2>1. \A m \in Existing \ {n} : Graph'[m].parent = Graph[m].parent
    BY <1>3, <1>4, <1>5, <1>9, <1>14 DEF Children
  <2>2. Acyclic(Graph')
    <3> DEFINE g == Graph
               h == Graph'
    <3>1. /\ IsFiniteSet(DOMAIN g) /\ None \notin DOMAIN g /\ DOMAIN h = DOMAIN g
          /\ n \in DOMAIN g /\ h[n].parent = p /\ (p = None \/ Beneath(g, n, p))
          /\ \A m \in DOMAIN g \ {n} : h[m].parent = g[m].parent
          /\ Acyclic(g)
      BY <1>3, <1>4, <1>5, <1>9, <1>14, <2>1 DEF Sound
    <3> HIDE DEF g, h
    <3>2. Acyclic(h)
      BY <3>1, Reparented
    <3> QED BY <3>2 DEF h
  <2>3. InOrder(Graph')
    <3> SUFFICES ASSUME NEW a \in Existing, NEW b \in Existing, a # b,
                        Graph'[a].parent = Graph'[b].parent
                 PROVE  Graph'[a].position # Graph'[b].position
      BY <1>9 DEF InOrder
    <3>1. CASE a \in ToSet(s) /\ b \in ToSet(s)
      <4>1. s[Place(s, a) + 1] = a /\ s[Place(s, b) + 1] = b
        BY <1>1, <3>1, PlaceIsThere
      <4> QED BY <3>1, <4>1, <1>5, <1>9
    <3>2. CASE a \notin ToSet(s) /\ b \notin ToSet(s)
      BY <3>2, <1>3, <1>9, <1>14 DEF Sound, InOrder
    <3>3. CASE a \in ToSet(s) /\ b \notin ToSet(s)
      BY <3>3, <1>3, <1>4, <1>5, <1>9, <1>14 DEF Children
    <3>4. CASE a \notin ToSet(s) /\ b \in ToSet(s)
      BY <3>4, <1>3, <1>4, <1>5, <1>9, <1>14 DEF Children
    <3> QED BY <3>1, <3>2, <3>3, <3>4
  <2> QED BY <2>2, <2>3 DEF Sound
<1> QED BY <1>10, <1>13, <1>14 DEF c

LEMMA RemoveCategoryKeeps ==
  ASSUME NoneIsNoRow, FiniteCategories,
         IInv, NEW r \in Requests, RemoveCategory(r)
  PROVE  IInv' /\ (change[r].fresh /\ Sound(Graph) => Sound(Graph'))
<1> DEFINE n == change[r].category
<1>1. n \in Categories
  BY Asked DEF RemoveCategory, At, Placed
<1>2. /\ category[n] # None /\ Children(Graph, n) = {} /\ Wrote(r) /\ UNCHANGED carries
      /\ category' = [category EXCEPT ![n] = None]
  BY DEF RemoveCategory, Childless
<1> HIDE DEF n
<1>3. /\ category' \in [Categories -> CategoryRow \cup {None}]
      /\ \A m \in Categories : category'[m] = IF m = n THEN None ELSE category[m]
  BY <1>1, <1>2 DEF IInv, TypeOK
<1>4. Existing' = Existing \ {n}
  BY <1>3 DEF Existing
<1>5. /\ DOMAIN Graph = Existing /\ IsFiniteSet(Existing) /\ None \notin Existing
      /\ \A m \in Existing : Graph[m] = category[m] /\ m \in Categories
  BY GraphRows DEF IInv
<1>6. /\ DOMAIN Graph' = Existing \ {n} /\ IsFiniteSet(DOMAIN Graph')
      /\ \A m \in Existing \ {n} : Graph'[m] = Graph[m]
  BY <1>3, <1>4, <1>5, NextRows
<1>7. TypeOK'
  BY <1>2, <1>3, <1>4, <1>5 DEF IInv, TypeOK
<1>8. ParentsExist'
  BY <1>2, <1>5, <1>6 DEF IInv, ParentsExist, Attached, Children
<1>9. IInv'
  BY <1>2, <1>7, <1>8, WriterDone DEF IInv
<1>10. ASSUME Sound(Graph) PROVE Sound(Graph')
  <2>1. Acyclic(Graph')
    <3> DEFINE g == Graph
               h == Graph'
    <3>1. /\ IsFiniteSet(DOMAIN g) /\ IsFiniteSet(DOMAIN h) /\ None \notin DOMAIN g
          /\ DOMAIN h \subseteq DOMAIN g /\ \A m \in DOMAIN h : h[m].parent = g[m].parent
          /\ Acyclic(g)
      BY <1>5, <1>6, <1>10 DEF Sound
    <3> HIDE DEF g, h
    <3>2. Acyclic(h)
      BY <3>1, FewerAcyclic
    <3> QED BY <3>2 DEF h
  <2>2. InOrder(Graph')
    BY <1>5, <1>6, <1>10 DEF Sound, InOrder
  <2> QED BY <2>1, <2>2 DEF Sound
<1> QED BY <1>9, <1>10

-----------------------------------------------------------------------------
(* The theorems. *)

LEMMA InitIInv ==
  ASSUME NoneIsNoRow, FiniteCategories
  PROVE  Init => IInv
<1> SUFFICES ASSUME Init PROVE IInv
  OBVIOUS
<1>1. Existing = {}
  BY DEF Init, Existing
<1>2. TypeOK /\ ParentsExist
  BY <1>1 DEF Init, TypeOK, ParentsExist, Attached, Graph
<1>3. CallsTyped /\ CallsPlaced
  BY DEF Init, CallsTyped, CallsPlaced
<1> QED BY <1>2, <1>3 DEF IInv

LEMMA NextIInv ==
  ASSUME NoneIsNoRow, FiniteCategories
  PROVE  IInv /\ [Next]_vars => IInv'
<1> SUFFICES ASSUME IInv, [Next]_vars PROVE IInv'
  OBVIOUS
<1>1. ASSUME NEW r \in Requests, NEW p \in Categories \cup {None}, NEW name \in Names,
             CheckCreate(r, name, p)
      PROVE  IInv'
  BY <1>1, CheckCreateKeeps
<1>2. ASSUME NEW r \in Requests, NEW n \in Categories, Create(r, n) \/ CheckRemove(r, n)
      PROVE  IInv'
  BY <1>2, CreateKeeps, CheckRemoveKeeps
<1>3. ASSUME NEW r \in Requests, NEW n \in Categories, NEW p \in Categories \cup {None},
             \/ \E name \in Names \cup {None} : CheckUpdate(r, n, name, p)
             \/ \E i \in 0..Cardinality(Categories) : CheckMove(r, n, p, i)
      PROVE  IInv'
  BY <1>3, CheckUpdateKeeps, CheckMoveKeeps
<1>4. ASSUME NEW r \in Requests,
             Update(r) \/ Move(r) \/ CountLeads(r) \/ RemoveCategory(r) \/ Fail(r)
      PROVE  IInv'
  BY <1>4, UpdateKeeps, MoveKeeps, CountLeadsKeeps, RemoveCategoryKeeps, FailKeeps
<1>5. ASSUME NEW l \in Leads, NEW name \in Names, Label(l, name)
      PROVE  IInv'
  BY <1>5, LabelKeeps
<1>6. CASE UNCHANGED vars
  <2>1. UNCHANGED <<category, carries, change>>
    BY <1>6 DEF vars
  <2>2. Graph' = Graph /\ Existing' = Existing
    BY <2>1 DEF Graph, Existing
  <2> QED BY <2>1, <2>2 DEF IInv, TypeOK, ParentsExist, CallsTyped, CallsPlaced, Placed, Read,
                            ReparentAllowed
<1>7. CASE Next
  BY <1>7, <1>1, <1>2, <1>3, <1>4, <1>5 DEF Next
<1> QED BY <1>6, <1>7

\* Whatever is created, moved and deleted meanwhile: every parent is there, and no two
\* categories have one name.
THEOREM CategoriesSound ==
  ASSUME NoneIsNoRow, FiniteCategories
  PROVE  Spec => [](TypeOK /\ ParentsExist)
<1>1. IInv => TypeOK /\ ParentsExist
  BY DEF IInv
<1> QED BY InitIInv, NextIInv, <1>1, PTL DEF Spec

\* What reads the rows leaves them, and a request is done with its own step only.
LEMMA StepSound ==
  ASSUME NoneIsNoRow, FiniteCategories,
         IInv, [Next]_vars, NEW r \in Requests, change[r] # None, change'[r] = None,
         change[r].fresh, Sound(Graph)
  PROVE  Sound(Graph')
<1>1. ASSUME NEW q \in Requests, NEW n \in Categories, Create(q, n)
      PROVE  Sound(Graph')
  <2>1. q = r
    BY <1>1, WriterDone DEF Create
  <2> QED BY <1>1, <2>1, CreateKeeps
<1>2. ASSUME NEW q \in Requests, Update(q) \/ Move(q) \/ RemoveCategory(q)
      PROVE  Sound(Graph')
  <2>1. q = r
    BY <1>2, WriterDone DEF Update, Move, RemoveCategory
  <2> QED BY <1>2, <2>1, UpdateKeeps, MoveKeeps, RemoveCategoryKeeps
<1>3. CASE UNCHANGED category
  <2>1. Graph' = Graph
    BY <1>3 DEF Graph, Existing
  <2> QED BY <2>1
<1>4. \/ UNCHANGED category
      \/ \E q \in Requests : \/ Update(q) \/ Move(q) \/ RemoveCategory(q)
                            \/ \E n \in Categories : Create(q, n)
  BY DEF Next, vars, CheckCreate, CheckUpdate, CheckMove, CheckRemove, CountLeads, Fail, Label
<1> QED BY <1>1, <1>2, <1>3, <1>4

\* However many categories there are and however deep: a change that finds the tree as it read
\* it leaves no category above itself and no two in one place.
THEOREM TreeStays ==
  ASSUME NoneIsNoRow, FiniteCategories
  PROVE  Spec => TreeKept
<1> DEFINE Step == \A r \in Requests :
                     change[r] # None /\ change'[r] = None /\ change[r].fresh /\ Sound(Graph)
                     => Sound(Graph')
<1>1. IInv /\ [Next]_vars => [Step]_vars
  BY StepSound
<1> QED BY InitIInv, NextIInv, <1>1, PTL DEF Spec, TreeKept

\* Only an update that brings a name renames.
LEMMA StepCarries ==
  ASSUME NoneIsNoRow, FiniteCategories,
         IInv, [Next]_vars, NEW n \in Categories, category[n] # None, category'[n] # None,
         category[n].name # category'[n].name, NEW l \in Leads
  PROVE  carries'[l] = IF carries[l] = category[n].name THEN category'[n].name ELSE carries[l]
<1>1. ASSUME NEW r \in Requests, Update(r)
      PROVE  carries'[l] = IF carries[l] = category[n].name THEN category'[n].name ELSE carries[l]
  <2> DEFINE c == change[r]
             m == c.category
  <2>1. m \in Categories
    BY <1>1, Asked DEF Update, At, Placed
  <2>2. /\ category' = [category EXCEPT ![m] =
                          [name |-> IF c.name = None THEN @.name ELSE c.name,
                           parent |-> c.parent,
                           position |-> IF c.position = None THEN @.position ELSE c.position]]
        /\ carries' = [k \in Leads |->
                         IF c.name # None /\ carries[k] = OldName(category[m].name, c.was)
                         THEN c.name ELSE carries[k]]
    BY <1>1 DEF Update
  <2>3. category \in [Categories -> CategoryRow \cup {None}]
    BY DEF IInv, TypeOK
  <2> HIDE DEF m, c
  <2>4. m = n
    BY <2>2, <2>3
  <2>5. category'[n].name = IF c.name = None THEN category[n].name ELSE c.name
    BY <2>1, <2>2, <2>3, <2>4
  <2> QED BY <2>2, <2>4, <2>5 DEF OldName
<1>2. ASSUME NEW r \in Requests, Move(r) PROVE FALSE
  BY <1>2, MoveKeeps DEF Existing
<1>3. ASSUME NEW r \in Requests, RemoveCategory(r) PROVE FALSE
  BY <1>3 DEF RemoveCategory, IInv, TypeOK
<1>4. ASSUME NEW r \in Requests, NEW m \in Categories, Create(r, m) PROVE FALSE
  BY <1>4 DEF Create, IInv, TypeOK
<1>5. \/ UNCHANGED category
      \/ \E r \in Requests : \/ Update(r) \/ Move(r) \/ RemoveCategory(r)
                            \/ \E m \in Categories : Create(r, m)
  BY DEF Next, vars, CheckCreate, CheckUpdate, CheckMove, CheckRemove, CountLeads, Fail, Label
<1> QED BY <1>1, <1>2, <1>3, <1>4, <1>5

\* A rename takes along the leads that carry the name the row had when it was locked, however
\* often the category was renamed since the request read it.
THEOREM RenamesCarry ==
  ASSUME NoneIsNoRow, FiniteCategories
  PROVE  Spec => RenameCarriesLeads
<1> DEFINE Step == \A n \in Categories :
                     /\ category[n] # None /\ category'[n] # None
                     /\ category[n].name # category'[n].name
                     => \A l \in Leads :
                          carries'[l] = IF carries[l] = category[n].name THEN category'[n].name
                                        ELSE carries[l]
<1>1. IInv /\ [Next]_vars => [Step]_vars
  BY StepCarries
<1> QED BY InitIInv, NextIInv, <1>1, PTL DEF Spec, RenameCarriesLeads


-----------------------------------------------------------------------------
(***************************************************************************)
(* Forms, for every number of forms, fields, leads, members and requests:  *)
(* forms name fields that exist, values are among those offered, assigned  *)
(* forms are there, and a save that finds the forms as it read them keeps  *)
(* one default.                                                            *)
(*                                                                         *)
(* A request writes on what its check read, so the check has to be part of *)
(* the invariant: Placed says what is still true of it, and what is true   *)
(* of it while no other request has written.                               *)
(***************************************************************************)

FormCallsTyped == formChange \in [Requests -> F!Call \cup {None}]

\* A value that is not late is one of the options, if there are any.
Offered(v, opts) == opts = {} \/ v \in opts

\* What a change of a field counted: later values are late.
Counted(c) ==
  \A l \in Leads : value[<<l, c.field>>] # None /\ ~value[<<l, c.field>>].late =>
    c.step = "updateField" /\ Offered(value[<<l, c.field>>].value, c.options)

\* A removal has seen every form that has its field, but for those saved meanwhile.
Swept(c) ==
  \A f \in F!LiveForms :
    c.field \in form[f].fields /\ ~form[f].late => f \in c.forms \cup c.waits

\* What a save read of the defaults.
ReadForms(c) ==
  /\ c.form # None => c.form \in F!LiveForms /\ (form[c.form].default => c.default)
  /\ c.step = "write" => c.clears = IF c.default THEN F!Others(c.form) ELSE {}

FormPlaced(c) ==
  /\ c.step \in {"see", "write"} =>
       /\ c.default => c.active
       /\ \A f \in c.clears : form[f] # None
       /\ c.fresh => ReadForms(c)
  /\ c.step = "removeForm" =>
       /\ \A u \in Members : uses[u].form = c.form => uses[u].late
       /\ c.fresh => c.form \notin F!Defaults
  /\ c.step \in {"updateField", "removeField", "retire"} => Counted(c)
  /\ c.step = "retire" => Swept(c)
  /\ c.step = "fill" /\ c.fresh =>
       c.field \in F!LiveFields /\ Offered(c.value, field[c.field].options)

FormCallsPlaced == \A r \in Requests : formChange[r] # None => FormPlaced(formChange[r])

FormsIInv == F!FormsSound /\ FormCallsTyped /\ FormCallsPlaced

-----------------------------------------------------------------------------
(* The calls under way. *)

\* What is left of a call when another request has written the forms of gone anew.
Stale(c, gone) ==
  IF c.step = "retire" THEN [c EXCEPT !.fresh = FALSE, !.waits = @ \ gone]
  ELSE [c EXCEPT !.fresh = FALSE]

\* d is what c asks, at the same step, without waiting for the forms of gone.
SameCall(c, d, gone) ==
  /\ d \in F!Call /\ d.step = c.step
  /\ c.step \in {"see", "write"} =>
       /\ d.form = c.form /\ d.fields = c.fields /\ (d.default <=> c.default)
       /\ (d.active <=> c.active) /\ d.clears = c.clears
  /\ c.step \in {"removeForm", "assign"} => d.form = c.form
  /\ c.step = "assign" => d.member = c.member
  /\ c.step \in {"updateField", "removeField", "retire", "fill"} => d.field = c.field
  /\ c.step = "updateField" => d.options = c.options /\ (d.active <=> c.active)
  /\ c.step = "retire" => d.forms = c.forms /\ d.waits = c.waits \ gone
  /\ c.step = "fill" => d.lead = c.lead /\ d.value = c.value

LEMMA StaleCall ==
  ASSUME NEW c \in F!Call, NEW gone \in SUBSET Forms
  PROVE  SameCall(c, Stale(c, gone), gone) /\ ~Stale(c, gone).fresh
<1>1. CASE c \in F!SaveCall
  BY <1>1 DEF F!SaveCall, Stale, SameCall, F!Call
<1>2. CASE c \in F!RemoveFormCall
  BY <1>2 DEF F!RemoveFormCall, Stale, SameCall, F!Call
<1>3. CASE c \in F!AssignCall
  BY <1>3 DEF F!AssignCall, Stale, SameCall, F!Call
<1>4. CASE c \in F!UpdateFieldCall
  BY <1>4 DEF F!UpdateFieldCall, Stale, SameCall, F!Call
<1>5. CASE c \in F!RemoveFieldCall
  BY <1>5 DEF F!RemoveFieldCall, Stale, SameCall, F!Call
<1>6. CASE c \in F!RetireCall
  BY <1>6 DEF F!RetireCall, Stale, SameCall, F!Call
<1>7. CASE c \in F!FillCall
  BY <1>7 DEF F!FillCall, Stale, SameCall, F!Call
<1> QED
  BY <1>1, <1>2, <1>3, <1>4, <1>5, <1>6, <1>7 DEF F!Call

LEMMA CallFields ==
  ASSUME NEW c \in F!Call
  PROVE  /\ c.step \in {"see", "write"} => c \in F!SaveCall
         /\ c.step = "removeForm" => c \in F!RemoveFormCall
         /\ c.step = "assign" => c \in F!AssignCall
         /\ c.step = "updateField" => c \in F!UpdateFieldCall
         /\ c.step = "removeField" => c \in F!RemoveFieldCall
         /\ c.step = "retire" => c \in F!RetireCall
         /\ c.step = "fill" => c \in F!FillCall
         /\ c.fresh \in BOOLEAN
BY
DEF F!Call, F!SaveCall, F!RemoveFormCall, F!AssignCall, F!UpdateFieldCall, F!RemoveFieldCall,
    F!RetireCall, F!FillCall

\* r is done, and wrote the rows of the forms of gone anew.
WroteWith(r, gone) ==
  (gone = {} /\ F!Wrote(r)) \/ \E n \in Forms : gone = {n} /\ F!WroteForm(r, n)

LEMMA WroteStale ==
  ASSUME FormsIInv, NEW r \in Requests, NEW gone \in SUBSET Forms, WroteWith(r, gone)
  PROVE  formChange' = [q \in Requests |->
                          IF q = r \/ formChange[q] = None THEN None
                          ELSE Stale(formChange[q], gone)]
<1>1. CASE gone = {} /\ F!Wrote(r)
  <2>1. ASSUME NEW q \in Requests, formChange[q] # None
        PROVE  [formChange[q] EXCEPT !.fresh = FALSE] = Stale(formChange[q], gone)
    <3>1. CASE formChange[q].step = "retire"
      <4>1. formChange[q] \in F!RetireCall
        BY <2>1, <3>1, CallFields DEF FormsIInv, FormCallsTyped
      <4> QED
        BY <1>1, <3>1, <4>1 DEF Stale, F!RetireCall
    <3>2. CASE formChange[q].step # "retire"
      BY <3>2 DEF Stale
    <3> QED
      BY <3>1, <3>2
  <2> QED
    BY <1>1, <2>1 DEF F!Wrote
<1>2. ASSUME NEW n \in Forms, gone = {n}, F!WroteForm(r, n)
      PROVE  formChange' = [q \in Requests |->
                              IF q = r \/ formChange[q] = None THEN None
                              ELSE Stale(formChange[q], gone)]
  BY <1>2 DEF F!WroteForm, F!At, Stale
<1> QED
  BY <1>1, <1>2 DEF WroteWith

\* r is done, and the rows others have read are no longer there.
LEMMA WroteCalls ==
  ASSUME FormsIInv, NEW r \in Requests, NEW gone \in SUBSET Forms, WroteWith(r, gone)
  PROVE  /\ FormCallsTyped'
         /\ formChange'[r] = None
         /\ \A q \in Requests : formChange'[q] # None =>
              /\ formChange[q] # None /\ formChange[q] \in F!Call
              /\ SameCall(formChange[q], formChange'[q], gone) /\ ~formChange'[q].fresh
<1>1. formChange' = [q \in Requests |->
                       IF q = r \/ formChange[q] = None THEN None ELSE Stale(formChange[q], gone)]
  BY WroteStale
<1>2. ASSUME NEW q \in Requests, formChange[q] # None
      PROVE  /\ formChange[q] \in F!Call /\ Stale(formChange[q], gone) \in F!Call
             /\ SameCall(formChange[q], Stale(formChange[q], gone), gone)
             /\ ~Stale(formChange[q], gone).fresh
  <2>1. formChange[q] \in F!Call
    BY <1>2 DEF FormsIInv, FormCallsTyped
  <2> QED
    BY <2>1, StaleCall DEF SameCall
<1>3. FormCallsTyped'
  BY <1>1, <1>2 DEF FormCallsTyped
<1> QED
  BY <1>1, <1>2, <1>3

\* r is done, and nobody else notices.
LEMMA DoneCalls ==
  ASSUME FormsIInv, NEW r \in Requests, formChange' = [formChange EXCEPT ![r] = None]
  PROVE  /\ FormCallsTyped'
         /\ \A q \in Requests : formChange'[q] # None =>
              formChange[q] # None /\ formChange[q] \in F!Call /\ formChange'[q] = formChange[q]
BY DEF FormsIInv, FormCallsTyped

\* A request that starts has placed its call.
LEMMA StartKeeps ==
  ASSUME FormsIInv, NEW r \in Requests, NEW c \in F!Call, FormPlaced(c),
         formChange' = [formChange EXCEPT ![r] = c], UNCHANGED <<form, field, value, uses>>
  PROVE  FormsIInv'
<1>2. FormCallsTyped'
  BY DEF FormsIInv, FormCallsTyped
<1>1. F!FormsSound'
  BY <1>2
  DEF FormsIInv, F!FormsSound, F!TypeOK, F!FormsKnowFields, F!ValuesOffered, F!AssignedFormsLive,
              F!LiveForms, F!LiveFields, FormCallsTyped
<1>3. ASSUME NEW q \in Requests, formChange'[q] # None
      PROVE  FormPlaced(formChange[q])' /\ formChange'[q] \in F!Call
  <2>1. /\ FormPlaced(formChange'[q])
        /\ formChange'[q] \in F!Call
    BY <1>3 DEF FormsIInv, FormCallsTyped, FormCallsPlaced
  <2> DEFINE d == formChange'[q]
  <2> HIDE DEF d
  <2>2. FormPlaced(d)
    BY <2>1 DEF d
  <2>3. FormPlaced(formChange[q])'
    BY <2>1
    DEF FormPlaced, ReadForms, F!Others, F!Defaults, F!LiveForms, F!LiveFields, Counted, Offered,
        Swept
  <2> QED
    BY <2>1, <2>3
<1> QED
  BY <1>1, <1>2, <1>3 DEF FormsIInv, FormCallsPlaced

-----------------------------------------------------------------------------
(* The checks. *)

LEMMA CheckSaveKeeps ==
  ASSUME FormsIInv, NEW r \in Requests, NEW f \in Forms \cup {None}, NEW keys \in SUBSET Fields,
         NEW default \in BOOLEAN, NEW active \in BOOLEAN, F!CheckSave(r, f, keys, default, active)
  PROVE  FormsIInv'
<1> DEFINE c == F!SaveOf(f, keys, default, active)
<1>1. /\ c \in F!SaveCall /\ c.step = "see" /\ c.form = f /\ c.clears = {}
      /\ (c.default <=> default) /\ (c.active <=> active)
  BY DEF F!SaveOf, F!SaveCall
<1>2. formChange' = [formChange EXCEPT ![r] = c] /\ UNCHANGED <<form, field, value, uses>>
  BY DEF F!CheckSave, F!Start
<1>3. default => active
  BY DEF F!CheckSave
<1>4. f # None => f \in F!LiveForms /\ (form[f].default => default)
  BY DEF F!CheckSave, F!MayStopBeingDefault
<1> HIDE DEF c
<1>5. FormPlaced(c)
  BY <1>1, <1>3, <1>4 DEF FormPlaced, ReadForms
<1> QED
  BY <1>1, <1>2, <1>5, StartKeeps DEF F!Call

LEMMA CheckRemoveFormKeeps ==
  ASSUME FormsIInv, NEW r \in Requests, NEW f \in Forms, F!CheckRemoveForm(r, f)
  PROVE  FormsIInv'
<1> DEFINE c == [step |-> "removeForm", form |-> f, fresh |-> TRUE]
<1>1. c \in F!RemoveFormCall /\ c.step = "removeForm" /\ c.form = f
  BY DEF F!RemoveFormCall
<1>2. formChange' = [formChange EXCEPT ![r] = c] /\ UNCHANGED <<form, field, value, uses>>
  BY DEF F!CheckRemoveForm, F!Start
<1>3. f \notin F!Defaults /\ \A u \in Members : uses[u].form # f
  BY DEF F!CheckRemoveForm, F!NobodyUses, F!Defaults
<1> HIDE DEF c
<1>4. FormPlaced(c)
  BY <1>1, <1>3 DEF FormPlaced
<1> QED
  BY <1>1, <1>2, <1>4, StartKeeps DEF F!Call

LEMMA CheckAssignKeeps ==
  ASSUME FormsIInv, NEW r \in Requests, NEW u \in Members, NEW f \in Forms, F!CheckAssign(r, u, f)
  PROVE  FormsIInv'
<1> DEFINE c == [step |-> "assign", form |-> f, member |-> u, fresh |-> TRUE]
<1>1. c \in F!AssignCall /\ c.step = "assign"
  BY DEF F!AssignCall
<1>2. formChange' = [formChange EXCEPT ![r] = c] /\ UNCHANGED <<form, field, value, uses>>
  BY DEF F!CheckAssign, F!Start
<1> HIDE DEF c
<1>3. FormPlaced(c)
  BY <1>1 DEF FormPlaced
<1> QED
  BY <1>1, <1>2, <1>3, StartKeeps DEF F!Call

\* The options keep every value the field holds.
LEMMA CheckUpdateFieldKeeps ==
  ASSUME FormsIInv, NEW r \in Requests, NEW k \in Fields, NEW opts \in SUBSET Options,
         NEW active \in BOOLEAN, F!CheckUpdateField(r, k, opts, active)
  PROVE  FormsIInv'
<1> DEFINE c == [step |-> "updateField", field |-> k, options |-> opts, active |-> active,
                 fresh |-> TRUE]
<1>1. c \in F!UpdateFieldCall /\ c.step = "updateField" /\ c.field = k /\ c.options = opts
  BY DEF F!UpdateFieldCall
<1>2. formChange' = [formChange EXCEPT ![r] = c] /\ UNCHANGED <<form, field, value, uses>>
  BY DEF F!CheckUpdateField, F!Start
<1>3. ASSUME NEW l \in Leads, value[<<l, k>>] # None
      PROVE  Offered(value[<<l, k>>].value, opts)
  <2>1. value[<<l, k>>].value \in F!ValuesOf(k)
    BY <1>3 DEF F!ValuesOf
  <2> QED
    BY <2>1 DEF F!CheckUpdateField, F!Covers, Offered
<1> HIDE DEF c
<1>4. FormPlaced(c)
  BY <1>1, <1>3 DEF FormPlaced, Counted
<1> QED
  BY <1>1, <1>2, <1>4, StartKeeps DEF F!Call

LEMMA CheckRemoveFieldKeeps ==
  ASSUME FormsIInv, NEW r \in Requests, NEW k \in Fields, F!CheckRemoveField(r, k)
  PROVE  FormsIInv'
<1> DEFINE c == [step |-> "removeField", field |-> k, fresh |-> TRUE]
<1>1. c \in F!RemoveFieldCall /\ c.step = "removeField" /\ c.field = k
  BY DEF F!RemoveFieldCall
<1>2. formChange' = [formChange EXCEPT ![r] = c] /\ UNCHANGED <<form, field, value, uses>>
  BY DEF F!CheckRemoveField, F!Start
<1>3. ASSUME NEW l \in Leads, value[<<l, k>>] # None
      PROVE  FALSE
  BY <1>3 DEF F!CheckRemoveField, F!ValuesOf
<1> HIDE DEF c
<1>4. FormPlaced(c)
  BY <1>1, <1>3 DEF FormPlaced, Counted
<1> QED
  BY <1>1, <1>2, <1>4, StartKeeps DEF F!Call

LEMMA CheckFillKeeps ==
  ASSUME FormsIInv, NEW r \in Requests, NEW l \in Leads, NEW k \in Fields, NEW o \in Options,
         F!CheckFill(r, l, k, o)
  PROVE  FormsIInv'
<1> DEFINE c == [step |-> "fill", field |-> k, lead |-> l, value |-> o, fresh |-> TRUE]
<1>1. c \in F!FillCall /\ c.step = "fill" /\ c.field = k /\ c.value = o
  BY DEF F!FillCall
<1>2. formChange' = [formChange EXCEPT ![r] = c] /\ UNCHANGED <<form, field, value, uses>>
  BY DEF F!CheckFill, F!Start
<1>3. k \in F!LiveFields /\ Offered(o, field[k].options)
  BY DEF F!CheckFill, Offered
<1> HIDE DEF c
<1>4. FormPlaced(c)
  BY <1>1, <1>3 DEF FormPlaced
<1> QED
  BY <1>1, <1>2, <1>4, StartKeeps DEF F!Call

\* The defaults there are when a save looks are those it clears.
LEMMA SeeDefaultsKeeps ==
  ASSUME FormsIInv, NEW r \in Requests, F!SeeDefaults(r)
  PROVE  FormsIInv'
<1> DEFINE c == formChange[r]
           seen == IF c.default THEN F!Others(c.form) ELSE {}
           d == [c EXCEPT !.step = "write", !.clears = seen]
<1>1. c # None /\ c \in F!SaveCall /\ c.step = "see" /\ FormPlaced(c)
  BY CallFields DEF F!SeeDefaults, F!At, FormsIInv, FormCallsTyped, FormCallsPlaced
<1>2. seen \in SUBSET Forms /\ \A f \in seen : form[f] # None
  BY DEF F!Others, F!Defaults, F!LiveForms
<1>3. /\ d \in F!SaveCall /\ d.step = "write" /\ d.form = c.form /\ d.clears = seen
      /\ (d.default <=> c.default) /\ (d.active <=> c.active) /\ (d.fresh <=> c.fresh)
  BY <1>1, <1>2 DEF F!SaveCall
<1>4. formChange' = [formChange EXCEPT ![r] = d] /\ UNCHANGED <<form, field, value, uses>>
  BY <1>1 DEF F!SeeDefaults
<1> HIDE DEF d
<1>5. FormPlaced(d)
  BY <1>1, <1>2, <1>3 DEF FormPlaced, ReadForms
<1> QED
  BY <1>3, <1>4, <1>5, StartKeeps DEF F!Call

-----------------------------------------------------------------------------
(* The writes. *)

\* Unless it was written anew, a form has no field it did not have; and a form written anew has
\* none that is being removed, or is late.
NoFieldGained(gone) ==
  \A f \in F!LiveForms', k \in Fields : k \in form'[f].fields /\ ~form'[f].late =>
    IF f \in gone THEN \A q \in Requests : ~F!Retiring(q, k)
    ELSE f \in F!LiveForms /\ k \in form[f].fields /\ ~form[f].late

\* After a write nobody else is fresh, and what was counted still is.
LEMMA WroteKeepsCalls ==
  ASSUME FormsIInv, NEW r \in Requests, NEW gone \in SUBSET Forms, WroteWith(r, gone),
         UNCHANGED <<value, uses>>, \A f \in Forms : form[f] # None => form'[f] # None,
         NoFieldGained(gone)
  PROVE  FormCallsTyped' /\ FormCallsPlaced'
<1>1. FormCallsTyped'
  BY WroteCalls
<1>2. ASSUME NEW q \in Requests, formChange'[q] # None
      PROVE  FormPlaced(formChange[q])'
  <2> DEFINE c == formChange[q]
             d == formChange'[q]
  <2>1. c # None /\ c \in F!Call /\ SameCall(c, d, gone) /\ ~d.fresh
    BY <1>2, WroteCalls
  <2>2. FormPlaced(c)
    BY <2>1 DEF FormsIInv, FormCallsPlaced
  <2> HIDE DEF c
  <2>3. d.step \in {"see", "write"} =>
          (d.default => d.active) /\ \A f \in d.clears : form'[f] # None
    BY <2>1, <2>2, CallFields DEF SameCall, FormPlaced, F!SaveCall
  <2>4. d.step = "removeForm" => \A u \in Members : uses[u].form = d.form => uses[u].late
    BY <2>1, <2>2 DEF SameCall, FormPlaced
  <2>5. d.step \in {"updateField", "removeField", "retire"} => Counted(formChange[q])'
    <3>1. c.step \in {"updateField", "removeField", "retire"} => Counted(c)
      BY <2>2 DEF FormPlaced
    <3> QED
      BY <2>1, <3>1 DEF SameCall, Counted
  <2>6. UNCHANGED uses
    OBVIOUS
  <2>7. ASSUME d.step = "retire"
        PROVE  Swept(formChange[q])'
    <3>1. /\ c \in F!RetireCall /\ Swept(c) /\ d.field = c.field
          /\ d.forms = c.forms /\ d.waits = c.waits \ gone
      BY <2>1, <2>2, <2>7, CallFields DEF SameCall, FormPlaced
    <3>2. c.field \in Fields /\ F!Retiring(q, c.field)
      BY <2>1, <2>7, <3>1 DEF F!RetireCall, F!Retiring, F!At, SameCall, c
    <3>3. ASSUME NEW f \in F!LiveForms', d.field \in form'[f].fields, ~form'[f].late
          PROVE  f \in d.forms \cup d.waits
      <4>1. f \notin gone /\ f \in F!LiveForms /\ c.field \in form[f].fields /\ ~form[f].late
        BY <3>1, <3>2, <3>3 DEF NoFieldGained
      <4> QED
        BY <3>1, <4>1 DEF Swept
    <3> QED
      BY <3>3 DEF Swept
  <2> QED
    BY <2>1, <2>3, <2>4, <2>5, <2>6, <2>7 DEF FormPlaced
<1> QED
  BY <1>1, <1>2 DEF FormCallsPlaced

\* What a write finds: the call of r.
LEMMA Writing ==
  ASSUME FormsIInv, NEW r \in Requests, NEW step, F!At(r, step)
  PROVE  /\ formChange[r] # None /\ formChange[r] \in F!Call /\ formChange[r].step = step
         /\ FormPlaced(formChange[r])
BY DEF F!At, FormsIInv, FormCallsTyped, FormCallsPlaced

LEMMA SaveKeeps ==
  ASSUME FormsIInv, NEW r \in Requests, NEW n \in Forms, F!Save(r, n)
  PROVE  FormsIInv'
<1> DEFINE c == formChange[r]
<1>1. c \in F!SaveCall
  BY Writing, CallFields DEF F!Save
<1> DEFINE row == F!Rewritten(c)
<1>3. /\ row \in F!FormRow /\ row.fields = c.fields
      /\ ~row.late => /\ c.fields \subseteq F!LiveFields
                      /\ \A q \in Requests, k \in c.fields : ~F!Retiring(q, k)
  BY <1>1 DEF F!SaveCall, F!FormRow, F!Rewritten
<1>4. \A f \in Forms :
        form'[f] = IF f = n /\ form[f] # Removed THEN row
                   ELSE IF f \in c.clears /\ form[f] # Removed
                   THEN [form[f] EXCEPT !.default = FALSE] ELSE form[f]
  BY DEF F!Save
<1>5. form' = [f \in Forms |-> form'[f]] /\ UNCHANGED <<field, value, uses>>
  BY DEF F!Save
<1>6. c.clears \subseteq Forms
  BY <1>1 DEF F!SaveCall
<1> HIDE DEF c, row
<1>7. ASSUME NEW f \in Forms, f \in c.clears, form[f] # Removed, form[f] # None
      PROVE  LET cleared == [form[f] EXCEPT !.default = FALSE]
             IN  cleared \in F!FormRow /\ cleared.fields = form[f].fields
                   /\ (cleared.late <=> form[f].late)
  <2>1. form[f] \in F!FormRow
    BY <1>7 DEF FormsIInv, F!FormsSound, F!TypeOK
  <2> QED
    BY <2>1 DEF F!FormRow
<1>8. F!LiveFields' = F!LiveFields
  BY <1>5 DEF F!LiveFields
<1>9. ASSUME NEW f \in Forms
      PROVE  /\ form'[f] \in F!FormRow \cup {None, Removed}
             /\ form[f] # None => form'[f] # None
             /\ form'[f] = Removed <=> form[f] = Removed
             /\ f \in F!LiveForms' => form'[f].late \/ form'[f].fields \subseteq F!LiveFields
             /\ f \in F!LiveForms' /\ f # n =>
                  /\ f \in F!LiveForms /\ form'[f].fields = form[f].fields
                  /\ (form'[f].late <=> form[f].late)
  <2>1. form[f] \in F!FormRow \cup {None, Removed}
    BY DEF FormsIInv, F!FormsSound, F!TypeOK
  <2>2. f \in c.clears => form[f] # None
    BY Writing DEF F!Save, c, FormPlaced
  <2>3. form[f] \notin {None, Removed} => form[f].late \/ form[f].fields \subseteq F!LiveFields
    BY DEF FormsIInv, F!FormsSound, F!FormsKnowFields, F!LiveForms
  <2>4. \A x \in F!FormRow : x # None /\ x # Removed
    BY FormsAssumptions DEF F!NoneIsNothing
  <2>5. CASE f = n /\ form[f] # Removed
    BY <2>4, <2>5, <1>3, <1>4
  <2>6. CASE f # n /\ f \in c.clears /\ form[f] # Removed
    <3>1. LET cleared == [form[f] EXCEPT !.default = FALSE]
          IN  form'[f] = cleared /\ cleared \in F!FormRow /\ cleared.fields = form[f].fields
                /\ (cleared.late <=> form[f].late)
      BY <2>2, <2>6, <1>4, <1>7
    <3> QED
      BY <3>1, <2>2, <2>3, <2>4, <2>6 DEF F!LiveForms
  <2>7. CASE form[f] = Removed \/ (f # n /\ f \notin c.clears)
    <3>1. form'[f] = form[f]
      BY <2>7, <1>4
    <3> QED
      BY <3>1, <2>1, <2>3 DEF F!LiveForms
  <2> QED
    BY <2>5, <2>6, <2>7
<1>10. FormCallsTyped' /\ FormCallsPlaced'
  <2>1. NoFieldGained({n})
    <3> SUFFICES ASSUME NEW f \in F!LiveForms', NEW k \in Fields, k \in form'[f].fields,
                        ~form'[f].late
                 PROVE  IF f \in {n} THEN \A q \in Requests : ~F!Retiring(q, k)
                        ELSE f \in F!LiveForms /\ k \in form[f].fields /\ ~form[f].late
      BY DEF NoFieldGained
    <3>1. CASE f = n
      <4>1. form'[f] = row
        BY <3>1, <1>4, <1>9 DEF F!LiveForms
      <4> QED
        BY <3>1, <4>1, <1>3
    <3>2. CASE f # n
      BY <3>2, <1>9 DEF F!LiveForms
    <3> QED
      BY <3>1, <3>2
  <2>2. WroteWith(r, {n})
    BY DEF WroteWith, F!Save
  <2> QED
    BY <1>5, <1>9, <2>1, <2>2, WroteKeepsCalls
<1>11. F!TypeOK'
  BY <1>5, <1>9, <1>10 DEF F!TypeOK, FormsIInv, F!FormsSound, FormCallsTyped
<1>12. F!FormsKnowFields' /\ F!ValuesOffered'
  BY <1>5, <1>8, <1>9 DEF F!FormsKnowFields, F!ValuesOffered, F!LiveForms, FormsIInv, F!FormsSound
<1>13. F!AssignedFormsLive'
  <2> SUFFICES ASSUME NEW u \in Members, uses[u].form # None, form'[uses[u].form] = Removed
               PROVE  uses[u].late
    BY <1>5 DEF F!AssignedFormsLive
  <2>1. uses[u].form \in Forms
    BY DEF FormsIInv, F!FormsSound, F!TypeOK
  <2> QED
    BY <2>1, <1>9 DEF F!AssignedFormsLive, FormsIInv, F!FormsSound
<1> QED
  BY <1>10, <1>11, <1>12, <1>13 DEF FormsIInv, F!FormsSound

\* Whoever uses the form was assigned it after the check.
LEMMA RemoveFormKeeps ==
  ASSUME FormsIInv, NEW r \in Requests, F!RemoveForm(r)
  PROVE  FormsIInv'
<1> DEFINE c == formChange[r]
<1>1. c.form \in Forms /\ \A u \in Members : uses[u].form = c.form => uses[u].late
  BY Writing, CallFields DEF F!RemoveForm, F!RemoveFormCall, FormPlaced
<1> HIDE DEF c
<1>2. form' = [form EXCEPT ![c.form] = Removed] /\ UNCHANGED <<field, value, uses>>
  BY DEF F!RemoveForm, c
<1>3. form \in [Forms -> F!FormRow \cup {None, Removed}]
  BY DEF FormsIInv, F!FormsSound, F!TypeOK
<1>4. \A f \in Forms : form'[f] = IF f = c.form THEN Removed ELSE form[f]
  BY <1>2, <1>3
<1>5. FormCallsTyped' /\ FormCallsPlaced'
  <2>1. NoFieldGained({})
    BY <1>4 DEF NoFieldGained, F!LiveForms
  <2>2. WroteWith(r, {})
    BY DEF WroteWith, F!RemoveForm
  <2> QED
    BY <1>2, <1>4, <2>1, <2>2, FormsAssumptions, WroteKeepsCalls DEF F!NoneIsNothing
<1>6. F!TypeOK'
  BY <1>1, <1>2, <1>3, <1>5 DEF F!TypeOK, FormsIInv, F!FormsSound, FormCallsTyped
<1>7. F!FormsKnowFields'
  BY <1>2, <1>4 DEF F!FormsKnowFields, F!LiveForms, F!LiveFields, FormsIInv, F!FormsSound
<1>8. F!ValuesOffered'
  BY <1>2 DEF F!ValuesOffered, F!LiveFields, FormsIInv, F!FormsSound
<1>9. F!AssignedFormsLive'
  <2> SUFFICES ASSUME NEW u \in Members, uses[u].form # None, form'[uses[u].form] = Removed
               PROVE  uses[u].late
    BY <1>2 DEF F!AssignedFormsLive
  <2>1. uses[u].form \in Forms
    BY DEF FormsIInv, F!FormsSound, F!TypeOK
  <2> QED
    BY <2>1, <1>1, <1>4 DEF F!AssignedFormsLive, FormsIInv, F!FormsSound
<1> QED
  BY <1>5, <1>6, <1>7, <1>8, <1>9 DEF FormsIInv, F!FormsSound

\* Calls that only lose one of theirs, while no field or value they counted on changes.
LEMMA DoneKeepsCalls ==
  ASSUME FormsIInv, NEW r \in Requests, formChange' = [formChange EXCEPT ![r] = None],
         UNCHANGED <<form, field>>,
         \A q \in Requests : F!At(q, "removeForm") =>
           \A u \in Members : uses'[u].form = formChange[q].form => uses'[u].late,
         \A q \in Requests :
           F!At(q, "updateField") \/ F!At(q, "removeField") \/ F!At(q, "retire") => \A l \in Leads :
           value'[<<l, formChange[q].field>>] # None /\ ~value'[<<l, formChange[q].field>>].late =>
             value'[<<l, formChange[q].field>>] = value[<<l, formChange[q].field>>]
  PROVE  FormCallsTyped' /\ FormCallsPlaced'
<1>1. FormCallsTyped'
  BY DoneCalls
<1>2. ASSUME NEW q \in Requests, formChange'[q] # None
      PROVE  FormPlaced(formChange[q])'
  <2> DEFINE c == formChange[q]
  <2>1. c # None /\ c \in F!Call /\ formChange'[q] = c
    BY <1>2, DoneCalls
  <2>2. FormPlaced(c)
    BY <2>1 DEF FormsIInv, FormCallsPlaced
  <2>3. c.step = "removeForm" => \A u \in Members : uses'[u].form = c.form => uses'[u].late
    BY <2>1 DEF F!At
  <2>4. c.step \in {"updateField", "removeField", "retire"} => Counted(formChange[q])'
    BY <2>1, <2>2 DEF F!At, FormPlaced, Counted
  <2>5. c.step \in {"see", "write"} /\ c.fresh => ReadForms(formChange[q])'
    BY <2>1, <2>2 DEF FormPlaced, ReadForms, F!Others, F!Defaults, F!LiveForms
  <2>6. F!LiveFields' = F!LiveFields /\ F!Defaults' = F!Defaults
    BY DEF F!LiveFields, F!Defaults, F!LiveForms
  <2>7. c.step = "retire" => Swept(formChange[q])'
    BY <2>1, <2>2 DEF FormPlaced, Swept, F!LiveForms
  <2> QED
    BY <2>1, <2>2, <2>3, <2>4, <2>5, <2>6, <2>7 DEF FormPlaced
<1> QED
  BY <1>1, <1>2 DEF FormCallsPlaced

\* A form assigned while its removal is under way counts as assigned at the same moment.
LEMMA AssignKeeps ==
  ASSUME FormsIInv, NEW r \in Requests, F!Assign(r)
  PROVE  FormsIInv'
<1> DEFINE c == formChange[r]
           f == c.form
           use == [form |-> f,
                   late |-> \/ form[f] = Removed
                            \/ \E q \in Requests : F!At(q, "removeForm") /\ formChange[q].form = f]
<1>1. f \in Forms /\ c.member \in Members
  BY Writing, CallFields DEF F!Assign, F!AssignCall
<1>2. /\ uses' = [uses EXCEPT ![c.member] = use] /\ UNCHANGED <<form, field, value>>
      /\ formChange' = [formChange EXCEPT ![r] = None]
  BY DEF F!Assign
<1>3. /\ use \in [form: Forms \cup {None}, late: BOOLEAN] /\ use.form = f
      /\ use.late <=> \/ form[f] = Removed
                      \/ \E q \in Requests : F!At(q, "removeForm") /\ formChange[q].form = f
  BY <1>1
<1> HIDE DEF use, c
<1>4. uses \in [Members -> [form: Forms \cup {None}, late: BOOLEAN]]
  BY DEF FormsIInv, F!FormsSound, F!TypeOK
<1>5. \A u \in Members : uses'[u] = IF u = c.member THEN use ELSE uses[u]
  BY <1>2, <1>4
<1>6. ASSUME NEW q \in Requests, F!At(q, "removeForm"), NEW u \in Members,
             uses'[u].form = formChange[q].form
      PROVE  uses'[u].late
  <2>1. uses[u].form = formChange[q].form => uses[u].late
    BY <1>6, Writing DEF FormPlaced
  <2> QED
    BY <1>3, <1>5, <1>6, <2>1
<1>7. FormCallsTyped' /\ FormCallsPlaced'
  BY <1>2, <1>6, DoneKeepsCalls
<1>8. F!TypeOK'
  BY <1>1, <1>2, <1>3, <1>4, <1>7 DEF F!TypeOK, FormsIInv, F!FormsSound, FormCallsTyped
<1>9. F!FormsKnowFields' /\ F!ValuesOffered'
  BY <1>2
  DEF F!FormsKnowFields, F!ValuesOffered, F!LiveForms, F!LiveFields, FormsIInv, F!FormsSound
<1>10. F!AssignedFormsLive'
  BY <1>2, <1>3, <1>5 DEF F!AssignedFormsLive, FormsIInv, F!FormsSound
<1> QED
  BY <1>7, <1>8, <1>9, <1>10 DEF FormsIInv, F!FormsSound

LEMMA FormFailKeeps ==
  ASSUME FormsIInv, NEW r \in Requests, F!Fail(r)
  PROVE  FormsIInv'
<1>1. formChange' = [formChange EXCEPT ![r] = None] /\ UNCHANGED <<form, field, value, uses>>
  BY DEF F!Fail
<1>2. \A q \in Requests : F!At(q, "removeForm") =>
        \A u \in Members : uses[u].form = formChange[q].form => uses[u].late
  BY Writing DEF FormPlaced
<1>3. FormCallsTyped' /\ FormCallsPlaced'
  BY <1>1, <1>2, DoneKeepsCalls
<1> QED
  BY <1>1, <1>3
  DEF FormsIInv, F!FormsSound, F!TypeOK, F!FormsKnowFields, F!ValuesOffered, F!AssignedFormsLive,
                    F!LiveForms, F!LiveFields, FormCallsTyped

\* A value filled in while a change of a field is under way is late.
LEMMA FillKeeps ==
  ASSUME FormsIInv, NEW r \in Requests, F!Fill(r)
  PROVE  FormsIInv'
<1> DEFINE c == formChange[r]
           k == c.field
           row == [value |-> c.value,
                   late |-> ~c.fresh \/ \E q \in Requests :
                              F!At(q, "updateField") \/ F!At(q, "removeField")]
<1>1. c \in F!FillCall /\ (c.fresh => k \in F!LiveFields /\ Offered(c.value, field[k].options))
  BY Writing, CallFields DEF F!Fill, FormPlaced
<1>2. k \in Fields /\ c.lead \in Leads /\ c.value \in Options /\ c.fresh \in BOOLEAN
  BY <1>1 DEF F!FillCall
<1>3. /\ value' = [value EXCEPT ![<<c.lead, k>>] = row] /\ UNCHANGED <<form, field, uses>>
      /\ formChange' = [formChange EXCEPT ![r] = None]
  BY DEF F!Fill
<1>4. /\ row \in F!ValueRow /\ row.value = c.value
      /\ row.late <=> ~c.fresh \/ \E q \in Requests : F!At(q, "updateField") \/ F!At(q, "removeField")
  BY <1>2 DEF F!ValueRow
<1> HIDE DEF row, c, k
<1>5. value \in [Leads \X Fields -> F!ValueRow \cup {None}]
  BY DEF FormsIInv, F!FormsSound, F!TypeOK
<1>6. \A l \in Leads, g \in Fields :
        value'[<<l, g>>] = IF l = c.lead /\ g = k THEN row ELSE value[<<l, g>>]
  BY <1>2, <1>3, <1>5
<1>7. ASSUME NEW q \in Requests,
             F!At(q, "updateField") \/ F!At(q, "removeField") \/ F!At(q, "retire"),
             NEW l \in Leads, ~value'[<<l, formChange[q].field>>].late
      PROVE  value'[<<l, formChange[q].field>>] = value[<<l, formChange[q].field>>]
  <2>1. formChange[q].field \in Fields
    BY <1>7, Writing, CallFields DEF F!UpdateFieldCall, F!RemoveFieldCall, F!RetireCall
  <2>2. F!At(q, "retire") => formChange[q].field # k
    BY DEF F!Fill, F!Retiring, c, k
  <2> QED
    BY <2>1, <2>2, <1>4, <1>6, <1>7
<1>8. \A q \in Requests : F!At(q, "removeForm") =>
        \A u \in Members : uses[u].form = formChange[q].form => uses[u].late
  BY Writing DEF FormPlaced
<1>9. FormCallsTyped' /\ FormCallsPlaced'
  BY <1>3, <1>7, <1>8, DoneKeepsCalls
<1>10. value' \in [Leads \X Fields -> F!ValueRow \cup {None}]
  BY <1>2, <1>3, <1>4, <1>5
<1>11. F!TypeOK'
  BY <1>3, <1>9, <1>10 DEF F!TypeOK, FormsIInv, F!FormsSound, FormCallsTyped
<1>12. F!FormsKnowFields' /\ F!AssignedFormsLive'
  BY <1>3
  DEF F!FormsKnowFields, F!AssignedFormsLive, F!LiveForms, F!LiveFields, FormsIInv, F!FormsSound
<1>13. F!ValuesOffered'
  BY <1>1, <1>3, <1>4, <1>6 DEF F!ValuesOffered, F!LiveFields, FormsIInv, F!FormsSound, Offered, k
<1> QED
  BY <1>9, <1>11, <1>12, <1>13 DEF FormsIInv, F!FormsSound

\* A call stays placed when forms, uses and the calls stay, and fields and values only move as
\* they do between the changes of a field.
LEMMA CallsStayPlaced ==
  ASSUME FormsIInv, UNCHANGED <<form, uses, formChange>>,
         \A l \in Leads, k \in Fields :
           value'[<<l, k>>] # None => value'[<<l, k>>] = value[<<l, k>>],
         \A k \in F!LiveFields : k \in F!LiveFields' /\ field'[k] = field[k]
  PROVE  FormCallsTyped' /\ FormCallsPlaced'
<1>1. FormCallsTyped'
  BY DEF FormsIInv, FormCallsTyped
<1>2. ASSUME NEW q \in Requests, formChange[q] # None
      PROVE  FormPlaced(formChange[q])'
  <2> DEFINE c == formChange[q]
  <2>1. c \in F!Call /\ FormPlaced(c)
    BY <1>2 DEF FormsIInv, FormCallsTyped, FormCallsPlaced
  <2>2. F!Defaults' = F!Defaults
    BY DEF F!Defaults, F!LiveForms
  <2>3. c.step \in {"see", "write"} /\ c.fresh => ReadForms(c)'
    BY <2>1, <2>2 DEF FormPlaced, ReadForms, F!Others, F!LiveForms
  <2>4. c.step \in {"updateField", "removeField", "retire"} => Counted(c)'
    <3>1. c.step \in {"updateField", "removeField", "retire"} => c.field \in Fields
      BY <2>1, CallFields DEF F!UpdateFieldCall, F!RemoveFieldCall, F!RetireCall
    <3> QED
      BY <2>1, <3>1 DEF FormPlaced, Counted
  <2>5. c.step = "fill" /\ c.fresh =>
          c.field \in F!LiveFields' /\ Offered(c.value, field'[c.field].options)
    BY <2>1 DEF FormPlaced
  <2>6. c.step = "retire" => Swept(c)'
    BY <2>1 DEF FormPlaced, Swept, F!LiveForms
  <2> QED
    BY <2>1, <2>2, <2>3, <2>4, <2>5, <2>6 DEF FormPlaced
<1> QED
  BY <1>1, <1>2 DEF FormCallsPlaced

LEMMA EmptyKeeps ==
  ASSUME FormsIInv, NEW l \in Leads, NEW k \in Fields, F!Empty(l, k)
  PROVE  FormsIInv'
<1>1. value' = [value EXCEPT ![<<l, k>>] = None] /\ UNCHANGED <<form, field, uses, formChange>>
  BY DEF F!Empty
<1>2. value \in [Leads \X Fields -> F!ValueRow \cup {None}]
  BY DEF FormsIInv, F!FormsSound, F!TypeOK
<1>3. \A m \in Leads, g \in Fields :
        value'[<<m, g>>] # None => value'[<<m, g>>] = value[<<m, g>>]
  BY <1>1, <1>2
<1>4. FormCallsTyped' /\ FormCallsPlaced'
  BY <1>1, <1>3, CallsStayPlaced DEF F!LiveFields
<1>5. F!TypeOK'
  BY <1>1, <1>2, <1>4 DEF F!TypeOK, FormsIInv, F!FormsSound, FormCallsTyped
<1>6. F!FormsKnowFields' /\ F!AssignedFormsLive'
  BY <1>1
  DEF F!FormsKnowFields, F!AssignedFormsLive, F!LiveForms, F!LiveFields, FormsIInv, F!FormsSound
<1>7. F!ValuesOffered'
  BY <1>1, <1>3 DEF F!ValuesOffered, F!LiveFields, FormsIInv, F!FormsSound
<1> QED
  BY <1>4, <1>5, <1>6, <1>7 DEF FormsIInv, F!FormsSound

\* A new field holds nothing, and no form had a place for it.
LEMMA CreateFieldKeeps ==
  ASSUME FormsIInv, NEW k \in Fields, NEW opts \in SUBSET Options, F!CreateField(k, opts)
  PROVE  FormsIInv'
<1> DEFINE row == [options |-> opts, active |-> TRUE]
<1>1. /\ field[k] = None /\ field' = [field EXCEPT ![k] = row]
      /\ UNCHANGED <<form, value, uses, formChange>>
  BY DEF F!CreateField
<1>2. row \in F!FieldRow
  BY DEF F!FieldRow
<1> HIDE DEF row
<1>3. field \in [Fields -> F!FieldRow \cup {None, Removed}]
  BY DEF FormsIInv, F!FormsSound, F!TypeOK
<1>4. \A g \in Fields : field'[g] = IF g = k THEN row ELSE field[g]
  BY <1>1, <1>3
<1>5. \A g \in F!LiveFields : g \in F!LiveFields' /\ field'[g] = field[g]
  BY <1>1, <1>4 DEF F!LiveFields
<1>6. FormCallsTyped' /\ FormCallsPlaced'
  BY <1>1, <1>5, CallsStayPlaced
<1>7. F!TypeOK'
  BY <1>1, <1>2, <1>3, <1>6 DEF F!TypeOK, FormsIInv, F!FormsSound, FormCallsTyped
<1>8. F!FormsKnowFields' /\ F!AssignedFormsLive'
  BY <1>1, <1>5 DEF F!FormsKnowFields, F!AssignedFormsLive, F!LiveForms, FormsIInv, F!FormsSound
<1>9. F!ValuesOffered'
  BY <1>1, <1>5 DEF F!ValuesOffered, FormsIInv, F!FormsSound
<1> QED
  BY <1>6, <1>7, <1>8, <1>9 DEF FormsIInv, F!FormsSound

\* The values counted are of the options written, and the others are late.
LEMMA UpdateFieldKeeps ==
  ASSUME FormsIInv, NEW r \in Requests, F!UpdateField(r)
  PROVE  FormsIInv'
<1> DEFINE c == formChange[r]
           k == c.field
           row == [options |-> c.options, active |-> c.active]
<1>1. c \in F!UpdateFieldCall /\ Counted(c) /\ c.step = "updateField"
  BY Writing, CallFields DEF F!UpdateField, FormPlaced
<1>2. k \in Fields /\ row \in F!FieldRow /\ row.options = c.options
  BY <1>1 DEF F!UpdateFieldCall, F!FieldRow
<1>3. row \notin {None, Removed}
  BY <1>2, FormsAssumptions DEF F!NoneIsNothing
<1>4. /\ field' = [field EXCEPT ![k] = IF @ = Removed THEN Removed ELSE row]
      /\ UNCHANGED <<form, value, uses>>
  BY DEF F!UpdateField
<1>5. FormCallsTyped' /\ FormCallsPlaced'
  <2>1. NoFieldGained({}) /\ WroteWith(r, {})
    BY <1>4 DEF NoFieldGained, F!LiveForms, WroteWith, F!UpdateField
  <2> QED
    BY <1>4, <2>1, WroteKeepsCalls
<1> HIDE DEF row, c
<1>6. field \in [Fields -> F!FieldRow \cup {None, Removed}]
  BY DEF FormsIInv, F!FormsSound, F!TypeOK
<1>7. \A g \in Fields :
        field'[g] = IF g = k /\ field[k] # Removed THEN row ELSE field[g]
  BY <1>2, <1>4, <1>6
<1>8. \A g \in F!LiveFields : g \in F!LiveFields'
  BY <1>3, <1>7 DEF F!LiveFields
<1>9. F!TypeOK'
  BY <1>2, <1>4, <1>5, <1>6 DEF F!TypeOK, FormsIInv, F!FormsSound, FormCallsTyped
<1>10. F!FormsKnowFields' /\ F!AssignedFormsLive'
  BY <1>4, <1>8 DEF F!FormsKnowFields, F!AssignedFormsLive, F!LiveForms, FormsIInv, F!FormsSound
<1>11. F!ValuesOffered'
  <2> SUFFICES ASSUME NEW l \in Leads, NEW g \in Fields, value[<<l, g>>] # None,
                      ~value[<<l, g>>].late
               PROVE  g \in F!LiveFields' /\ Offered(value[<<l, g>>].value, field'[g].options)
    BY <1>4 DEF F!ValuesOffered, Offered
  <2>1. g \in F!LiveFields /\ Offered(value[<<l, g>>].value, field[g].options)
    BY DEF F!ValuesOffered, Offered, FormsIInv, F!FormsSound
  <2>2. g = k => Offered(value[<<l, g>>].value, c.options)
    BY <1>1 DEF Counted
  <2> QED
    BY <2>1, <2>2, <1>2, <1>7, <1>8
<1> QED
  BY <1>5, <1>9, <1>10, <1>11 DEF FormsIInv, F!FormsSound

\* The statement sees every form that has the field; those a save wrote since are late.
LEMMA SweepFormsKeeps ==
  ASSUME FormsIInv, NEW r \in Requests, NEW taken \in SUBSET Forms, F!SweepForms(r, taken)
  PROVE  FormsIInv'
<1> DEFINE c == formChange[r]
           k == c.field
           seen == F!With(k)
           d == [step |-> "retire", field |-> k, forms |-> seen \ taken, waits |-> taken,
                 fresh |-> c.fresh]
<1>1. c \in F!RemoveFieldCall /\ Counted(c) /\ c.step = "removeField"
  BY Writing, CallFields DEF F!SweepForms, FormPlaced
<1>2. seen \in SUBSET Forms
  BY DEF F!With, F!LiveForms
<1>3. /\ d \in F!RetireCall /\ d.step = "retire" /\ d.field = k
      /\ d.forms = seen \ taken /\ d.waits = taken
  BY <1>1, <1>2 DEF F!RemoveFieldCall, F!RetireCall
<1>4. formChange' = [formChange EXCEPT ![r] = d] /\ UNCHANGED <<form, field, value, uses>>
  BY DEF F!SweepForms
<1>5. \A f \in F!LiveForms : k \in form[f].fields => f \in seen
  BY DEF F!With
<1> HIDE DEF d, seen, c
<1>6. Counted(d)
  BY <1>1, <1>3 DEF Counted
<1>7. Swept(d)
  BY <1>3, <1>5 DEF Swept
<1>8. FormPlaced(d)
  BY <1>3, <1>6, <1>7 DEF FormPlaced
<1> QED
  BY <1>3, <1>4, <1>8, StartKeeps DEF F!Call

\* Nothing is filed under the field but what is late, and its place goes with it on every form
\* that was not saved meanwhile.
LEMMA RemoveFieldKeeps ==
  ASSUME FormsIInv, NEW r \in Requests, F!RemoveField(r)
  PROVE  FormsIInv'
<1> DEFINE c == formChange[r]
           k == c.field
           held == F!LiveForms \cap (c.forms \cup c.waits)
<1>1. c \in F!RetireCall /\ Counted(c) /\ Swept(c) /\ c.step = "retire"
  BY Writing, CallFields DEF F!RemoveField, FormPlaced
<1>2. k \in Fields
  BY <1>1 DEF F!RetireCall
<1>3. /\ field' = [field EXCEPT ![k] = Removed] /\ UNCHANGED <<value, uses>>
      /\ form' = [f \in Forms |-> IF f \in held
                                  THEN [form[f] EXCEPT !.fields = F!Without(@, k)] ELSE form[f]]
  BY DEF F!RemoveField
<1>0. /\ held \subseteq F!LiveForms
      /\ \A f \in F!LiveForms : k \in form[f].fields /\ ~form[f].late => f \in held
  BY <1>1 DEF Swept
<1> HIDE DEF c, held
<1>4. /\ form \in [Forms -> F!FormRow \cup {None, Removed}]
      /\ field \in [Fields -> F!FieldRow \cup {None, Removed}]
  BY DEF FormsIInv, F!FormsSound, F!TypeOK
<1>5. ASSUME NEW f \in F!LiveForms
      PROVE  LET row == [form[f] EXCEPT !.fields = F!Without(@, k)]
             IN  /\ row \in F!FormRow /\ row.fields = form[f].fields \ {k}
                 /\ (row.late <=> form[f].late)
  <2>1. f \in Forms /\ form[f] \in F!FormRow
    BY <1>4 DEF F!LiveForms
  <2> QED
    BY <2>1 DEF F!FormRow, F!Without
<1>6. ASSUME NEW f \in Forms
      PROVE  /\ f \in held => /\ form'[f] \in F!FormRow
                              /\ form'[f].fields = form[f].fields \ {k}
                              /\ (form'[f].late <=> form[f].late)
             /\ f \notin held => form'[f] = form[f]
  BY <1>0, <1>3, <1>5
<1>7. \A x \in F!FormRow : x # None /\ x # Removed
  BY FormsAssumptions DEF F!NoneIsNothing
<1>8. \A f \in Forms : /\ form[f] # None => form'[f] # None
                       /\ form'[f] = Removed <=> form[f] = Removed
                       /\ f \in F!LiveForms' => f \in F!LiveForms
  BY <1>0, <1>6, <1>7 DEF F!LiveForms
<1>9. FormCallsTyped' /\ FormCallsPlaced'
  <2>1. NoFieldGained({})
    BY <1>6, <1>8 DEF NoFieldGained, F!LiveForms
  <2>2. WroteWith(r, {})
    BY DEF WroteWith, F!RemoveField
  <2> QED
    BY <1>3, <1>8, <2>1, <2>2, WroteKeepsCalls
<1>10. F!TypeOK'
  <2>1. \A f \in Forms : form'[f] \in F!FormRow \cup {None, Removed}
    BY <1>4, <1>6
  <2> QED
    BY <2>1, <1>2, <1>3, <1>4, <1>9 DEF F!TypeOK, FormsIInv, F!FormsSound, FormCallsTyped
<1>11. \A g \in Fields : field'[g] = IF g = k THEN Removed ELSE field[g]
  BY <1>3, <1>4
<1>12. F!LiveFields' = F!LiveFields \ {k}
  BY <1>2, <1>11 DEF F!LiveFields
<1>13. F!FormsKnowFields'
  <2> SUFFICES ASSUME NEW f \in F!LiveForms', ~form'[f].late
               PROVE  form'[f].fields \subseteq F!LiveFields \ {k}
    BY <1>12 DEF F!FormsKnowFields
  <2>1. f \in F!LiveForms /\ f \in Forms
    BY <1>8 DEF F!LiveForms
  <2>2. ~form[f].late
    BY <2>1, <1>6
  <2>3. form[f].fields \subseteq F!LiveFields
    BY <2>1, <2>2 DEF F!FormsKnowFields, FormsIInv, F!FormsSound
  <2>4. f \notin held => k \notin form[f].fields
    BY <2>1, <2>2, <1>0
  <2> QED
    BY <2>1, <2>3, <2>4, <1>6
<1>14. F!ValuesOffered'
  <2> SUFFICES ASSUME NEW l \in Leads, NEW g \in Fields, value[<<l, g>>] # None,
                      ~value[<<l, g>>].late
               PROVE  g \in F!LiveFields' /\ Offered(value[<<l, g>>].value, field'[g].options)
    BY <1>3 DEF F!ValuesOffered, Offered
  <2>1. g # k
    BY <1>1 DEF Counted
  <2> QED
    BY <2>1, <1>11, <1>12 DEF F!ValuesOffered, Offered, FormsIInv, F!FormsSound
<1>15. F!AssignedFormsLive'
  <2> SUFFICES ASSUME NEW u \in Members, uses[u].form # None, form'[uses[u].form] = Removed
               PROVE  uses[u].late
    BY <1>3 DEF F!AssignedFormsLive
  <2>1. uses[u].form \in Forms
    BY DEF FormsIInv, F!FormsSound, F!TypeOK
  <2> QED
    BY <2>1, <1>8 DEF F!AssignedFormsLive, FormsIInv, F!FormsSound
<1> QED
  BY <1>9, <1>10, <1>13, <1>14, <1>15 DEF FormsIInv, F!FormsSound

-----------------------------------------------------------------------------
(* The theorems. *)

LEMMA InitForms == F!Init => FormsIInv
<1> SUFFICES ASSUME F!Init PROVE FormsIInv
  OBVIOUS
<1>1. F!TypeOK
  BY DEF F!Init, F!TypeOK
<1>2. F!FormsKnowFields /\ F!ValuesOffered /\ F!AssignedFormsLive
  BY DEF F!Init, F!FormsKnowFields, F!ValuesOffered, F!AssignedFormsLive, F!LiveForms
<1>3. FormCallsTyped /\ FormCallsPlaced
  BY DEF F!Init, FormCallsTyped, FormCallsPlaced
<1> QED
  BY <1>1, <1>2, <1>3 DEF FormsIInv, F!FormsSound

LEMMA NextForms == FormsIInv /\ [F!Next]_(F!vars) => FormsIInv'
<1> SUFFICES ASSUME FormsIInv, [F!Next]_(F!vars) PROVE FormsIInv'
  OBVIOUS
<1>1. ASSUME NEW r \in Requests, NEW f \in Forms \cup {None}, NEW keys \in SUBSET Fields,
             NEW d \in BOOLEAN, NEW a \in BOOLEAN, F!CheckSave(r, f, keys, d, a)
      PROVE  FormsIInv'
  BY <1>1, CheckSaveKeeps
<1>2. ASSUME NEW r \in Requests, NEW f \in Forms,
             \/ F!Save(r, f) \/ F!CheckRemoveForm(r, f)
             \/ \E u \in Members : F!CheckAssign(r, u, f)
      PROVE  FormsIInv'
  BY <1>2, SaveKeeps, CheckRemoveFormKeeps, CheckAssignKeeps
<1>3. ASSUME NEW r \in Requests, NEW k \in Fields,
             \/ \E opts \in SUBSET Options, a \in BOOLEAN : F!CheckUpdateField(r, k, opts, a)
             \/ F!CheckRemoveField(r, k)
             \/ \E l \in Leads, o \in Options : F!CheckFill(r, l, k, o)
      PROVE  FormsIInv'
  BY <1>3, CheckUpdateFieldKeeps, CheckRemoveFieldKeeps, CheckFillKeeps
<1>4. ASSUME NEW r \in Requests,
             \/ F!SeeDefaults(r) \/ F!RemoveForm(r) \/ F!Assign(r) \/ F!UpdateField(r)
             \/ F!RemoveField(r) \/ \E taken \in SUBSET Forms : F!SweepForms(r, taken)
             \/ F!Fill(r) \/ F!Fail(r)
      PROVE  FormsIInv'
  BY <1>4, SeeDefaultsKeeps, RemoveFormKeeps, AssignKeeps, UpdateFieldKeeps, RemoveFieldKeeps,
     SweepFormsKeeps, FillKeeps, FormFailKeeps
<1>5. ASSUME NEW k \in Fields,
             \/ \E opts \in SUBSET Options : F!CreateField(k, opts)
             \/ \E l \in Leads : F!Empty(l, k)
      PROVE  FormsIInv'
  BY <1>5, CreateFieldKeeps, EmptyKeeps
<1>6. CASE UNCHANGED F!vars
  <2>1. UNCHANGED <<form, field, value, uses, formChange>>
    BY <1>6 DEF F!vars
  <2>2. FormCallsTyped' /\ FormCallsPlaced'
    BY <2>1, CallsStayPlaced DEF F!LiveFields
  <2> QED
    BY <2>1, <2>2
    DEF FormsIInv, F!FormsSound, F!TypeOK, F!FormsKnowFields, F!ValuesOffered,
        F!AssignedFormsLive,
                      F!LiveForms, F!LiveFields
<1>7. CASE F!Next
  BY <1>7, <1>1, <1>2, <1>3, <1>4, <1>5 DEF F!Next
<1> QED
  BY <1>6, <1>7

\* However many members save, remove, assign and fill in at the same moment: forms arrange fields
\* that are there, values are of the options of fields that are there, and nobody uses a removed
\* form, but where the two ends were saved at the same moment.
THEOREM FormsStaySound == F!Spec => []F!FormsSound
<1>1. FormsIInv => F!FormsSound
  BY DEF FormsIInv
<1> QED
  BY InitForms, NextForms, <1>1, PTL DEF F!Spec

-----------------------------------------------------------------------------
(* The default. *)

\* Forms that keep which of them is a default, and active, keep serving one.
LEMMA SameDefaults ==
  ASSUME F!OneServes, F!Defaults' = F!Defaults,
         \A f \in F!Defaults : form'[f].active <=> form[f].active
  PROVE  F!OneServes'
BY DEF F!OneServes

\* Only the request that writes is done: the others are only stale.
LEMMA OneDone ==
  ASSUME FormsIInv, NEW q \in Requests, NEW gone \in SUBSET Forms, WroteWith(q, gone),
         NEW r \in Requests, formChange[r] # None, formChange'[r] = None
  PROVE  r = q
<1> SUFFICES ASSUME r # q PROVE FALSE
  OBVIOUS
<1>1. formChange'[r] = Stale(formChange[r], gone)
  BY WroteStale
<1>2. formChange[r] \in F!Call
  BY DEF FormsIInv, FormCallsTyped
<1>3. Stale(formChange[r], gone) \in F!Call
  BY <1>2, StaleCall DEF SameCall
<1>4. None \notin F!Call
  BY FormsAssumptions DEF F!NoneIsNothing
<1> QED
  BY <1>1, <1>3, <1>4

\* A save that found the one default leaves the form it makes the default, or the one there was.
LEMMA SaveServes ==
  ASSUME FormsIInv, NEW r \in Requests, NEW n \in Forms, F!Save(r, n), formChange[r].fresh,
         F!OneServes
  PROVE  F!OneServes'
<1> DEFINE c == formChange[r]
<1>1. c \in F!SaveCall /\ c.step = "write" /\ (c.default => c.active) /\ ReadForms(c)
  BY Writing, CallFields DEF F!Save, FormPlaced
<1> DEFINE row == F!Rewritten(c)
<1>2. (row.default <=> c.default) /\ (row.active <=> c.active) /\ row \in F!FormRow
  BY <1>1 DEF F!SaveCall, F!FormRow, F!Rewritten
<1>3. \A f \in Forms :
        form'[f] = IF f = n /\ form[f] # Removed THEN row
                   ELSE IF f \in c.clears /\ form[f] # Removed
                   THEN [form[f] EXCEPT !.default = FALSE] ELSE form[f]
  BY DEF F!Save
<1>4. IF c.form = None THEN form[n] = None ELSE n = c.form
  BY DEF F!Save
<1> HIDE DEF c, row
<1>5. PICK g \in F!Defaults : F!Defaults = {g} /\ form[g].active
  BY DEF F!OneServes
<1>6. None \notin Forms /\ None # Removed /\ row # None /\ row # Removed
  BY <1>2, FormsAssumptions DEF F!NoneIsNothing
<1>7. form[n] # Removed
  BY <1>1, <1>4, <1>6 DEF ReadForms, F!LiveForms
<1>8. CASE c.default
  <2>1. c.clears = F!Defaults \ {c.form}
    BY <1>1, <1>8 DEF ReadForms, F!Others
  <2>2. form'[n] = row
    BY <1>3, <1>7
  <2>3. ASSUME NEW f \in Forms, f # n PROVE f \notin F!Defaults'
    <3>1. CASE f \in c.clears
      <4>1. form[f] \in F!FormRow
        BY <3>1, <2>1 DEF F!Defaults, F!LiveForms, FormsIInv, F!FormsSound, F!TypeOK
      <4>2. ~[form[f] EXCEPT !.default = FALSE].default
        BY <4>1 DEF F!FormRow
      <4>3. form[f] # Removed
        BY <3>1, <2>1 DEF F!Defaults, F!LiveForms
      <4> QED
        BY <2>3, <3>1, <4>2, <4>3, <1>3 DEF F!Defaults
    <3>2. CASE f \notin c.clears
      <4>1. f \notin F!Defaults
        BY <2>1, <2>3, <3>2, <1>4, <1>6
      <4> QED
        BY <2>3, <3>2, <4>1, <1>3 DEF F!Defaults, F!LiveForms
    <3> QED
      BY <3>1, <3>2
  <2>4. n \in F!Defaults'
    BY <2>2, <1>2, <1>6, <1>8 DEF F!Defaults, F!LiveForms
  <2>5. F!Defaults' = {n}
    BY <2>3, <2>4 DEF F!Defaults, F!LiveForms
  <2>6. form'[n].active
    BY <2>2, <1>1, <1>2, <1>8
  <2> QED
    BY <2>4, <2>5, <2>6 DEF F!OneServes
<1>9. CASE ~c.default
  <2>1. c.clears = {}
    BY <1>1, <1>9 DEF ReadForms
  <2>2. n \notin F!Defaults
    BY <1>1, <1>4, <1>9 DEF ReadForms, F!Defaults, F!LiveForms
  <2>3. \A f \in Forms : f # n => form'[f] = form[f]
    BY <1>3, <2>1
  <2>4. n \notin F!Defaults'
    BY <1>2, <1>3, <1>7, <1>9 DEF F!Defaults
  <2>5. F!Defaults' = F!Defaults
    BY <2>2, <2>3, <2>4 DEF F!Defaults, F!LiveForms
  <2> QED
    BY <2>2, <2>3, <2>5, SameDefaults DEF F!Defaults, F!LiveForms
<1> QED
  BY <1>8, <1>9

\* A form whose removal found it no default is not the one that serves.
LEMMA RemoveFormServes ==
  ASSUME FormsIInv, NEW r \in Requests, F!RemoveForm(r), formChange[r].fresh, F!OneServes
  PROVE  F!OneServes'
<1> DEFINE c == formChange[r]
<1>1. c.form \notin F!Defaults /\ c.form \in Forms
  BY Writing, CallFields DEF F!RemoveForm, F!RemoveFormCall, FormPlaced
<1> HIDE DEF c
<1>2. form \in [Forms -> F!FormRow \cup {None, Removed}]
  BY DEF FormsIInv, F!FormsSound, F!TypeOK
<1>3. form' = [form EXCEPT ![c.form] = Removed]
  BY DEF F!RemoveForm, c
<1>4. \A f \in Forms : form'[f] = IF f = c.form THEN Removed ELSE form[f]
  BY <1>2, <1>3
<1>5. F!Defaults' = F!Defaults
  BY <1>1, <1>4 DEF F!Defaults, F!LiveForms
<1> QED
  BY <1>1, <1>4, <1>5, SameDefaults DEF F!Defaults, F!LiveForms

\* Forms lose the place of a field, and nothing else.
LEMMA RemoveFieldServes ==
  ASSUME FormsIInv, NEW r \in Requests, F!RemoveField(r), F!OneServes
  PROVE  F!OneServes'
<1> DEFINE k == formChange[r].field
           held == F!LiveForms \cap (formChange[r].forms \cup formChange[r].waits)
<1>1. form' = [f \in Forms |-> IF f \in held
                               THEN [form[f] EXCEPT !.fields = F!Without(@, k)] ELSE form[f]]
  BY DEF F!RemoveField
<1>0. held \subseteq F!LiveForms
  OBVIOUS
<1> HIDE DEF k, held
<1>2. ASSUME NEW f \in F!LiveForms
      PROVE  /\ form'[f] \in F!FormRow
             /\ (form'[f].default <=> form[f].default) /\ (form'[f].active <=> form[f].active)
  <2>1. f \in Forms /\ form[f] \in F!FormRow
    BY DEF F!LiveForms, FormsIInv, F!FormsSound, F!TypeOK
  <2>2. form'[f] = IF f \in held THEN [form[f] EXCEPT !.fields = F!Without(@, k)] ELSE form[f]
    BY <1>1, <2>1
  <2> QED
    BY <2>1, <2>2 DEF F!FormRow, F!Without
<1>3. \A f \in Forms : f \notin F!LiveForms => form'[f] = form[f]
  BY <1>0, <1>1
<1>4. \A x \in F!FormRow : x # None /\ x # Removed
  BY FormsAssumptions DEF F!NoneIsNothing
<1>5. F!LiveForms' = F!LiveForms
  BY <1>2, <1>3, <1>4 DEF F!LiveForms
<1>6. F!Defaults' = F!Defaults
  BY <1>2, <1>5 DEF F!Defaults
<1> QED
  BY <1>2, <1>6, SameDefaults DEF F!Defaults

\* A request that found the forms as it read them leaves one default, and an active one.
LEMMA StepServes ==
  ASSUME FormsIInv, [F!Next]_(F!vars), NEW r \in Requests, formChange[r] # None,
         formChange'[r] = None,
         formChange[r].fresh, F!OneServes
  PROVE  F!OneServes'
<1>1. ASSUME NEW q \in Requests, NEW n \in Forms, F!Save(q, n)
      PROVE  F!OneServes'
  <2>1. WroteWith(q, {n})
    BY <1>1 DEF F!Save, WroteWith
  <2>2. r = q
    BY <2>1, OneDone
  <2> QED
    BY <1>1, <2>2, SaveServes
<1>2. ASSUME NEW q \in Requests, F!RemoveForm(q)
      PROVE  F!OneServes'
  <2>1. WroteWith(q, {})
    BY <1>2 DEF F!RemoveForm, WroteWith
  <2>2. r = q
    BY <2>1, OneDone
  <2> QED
    BY <1>2, <2>2, RemoveFormServes
<1>3. ASSUME NEW q \in Requests, F!RemoveField(q)
      PROVE  F!OneServes'
  BY <1>3, RemoveFieldServes
<1>4. CASE UNCHANGED form
  <2>1. F!Defaults' = F!Defaults
    BY <1>4 DEF F!Defaults, F!LiveForms
  <2> QED
    BY <1>4, <2>1, SameDefaults
<1>5. \/ UNCHANGED form
      \/ \E q \in Requests : F!RemoveForm(q) \/ F!RemoveField(q) \/ \E n \in Forms : F!Save(q, n)
  BY
  DEF F!Next, F!vars, F!CheckSave, F!CheckRemoveForm, F!CheckAssign, F!CheckUpdateField,
      F!CheckRemoveField, F!SweepForms,
         F!CheckFill, F!SeeDefaults, F!Assign, F!UpdateField, F!Fill, F!Fail, F!CreateField, F!Empty
<1> QED
  BY <1>1, <1>2, <1>3, <1>4, <1>5

\* Once a form serves every lead drawer, a save, a removal or an edit that finds the forms as it
\* read them leaves exactly one that does, and it is active.
THEOREM DefaultStays == F!Spec => F!DefaultKept
<1> DEFINE Step == \A r \in Requests :
                     formChange[r] # None /\ formChange'[r] = None /\ formChange[r].fresh /\ F!OneServes
                     => F!OneServes'
<1>1. FormsIInv /\ [F!Next]_(F!vars) => [Step]_(F!vars)
  BY StepServes
<1> QED
  BY InitForms, NextForms, <1>1, PTL DEF F!Spec, F!DefaultKept


-----------------------------------------------------------------------------
(***************************************************************************)
(* Settings, for every form, number of types and requests.  A save writes  *)
(* the whole row that was made from an earlier read, so the invariant says *)
(* of a save under way that its row is a good one, and, while nobody has   *)
(* saved since, that its log continues the one that is stored.  What an    *)
(* event tells as its before-state is what the save holds locked.          *)
(***************************************************************************)

-----------------------------------------------------------------------------
(* The invariant: what a save is about to write, and what it locked. *)

\* A list no two types of which have one name.
GoodList(types) ==
  /\ types \in SUBSET S!TypeRow /\ IsFiniteSet(types) /\ Cardinality(types) <= MaxTypes
  /\ \A t, u \in types : t # u => t.id # u.id /\ t.name # u.name

GoodLog(log) ==
  /\ Len(log) <= LogLimit
  /\ \A i \in DOMAIN log : log[i] # {}

GoodRow(k, v) ==
  /\ k = "form" => v \in S!FormRow
  /\ k = "duplicate" => v \in S!DuplicateRow /\ GoodLog(v.log)
  /\ k = "types" => GoodList(v)

StoredSound ==
  /\ stored = [k \in S!Keys |-> stored[k]]
  /\ \A k \in S!Keys : stored[k] # None => GoodRow(k, stored[k])
  /\ used \in SUBSET Shipped

\* What a save of the switches read, while it is true.
ReadLog(v) ==
  LET before == S!ReadDuplicate
  IN v.log = IF S!Changes(before.on, v.on) = {} THEN before.log
             ELSE S!Logged(S!Changes(before.on, v.on), before.log)

SavePlaced(c) ==
  /\ c.step # "change" => GoodRow(c.key, c.value)
  /\ c.step = "change" => c.next # None
  /\ c.key # "types" => c.next = None
  /\ c.step = "write" /\ c.before # None => c.before = stored[c.key]
  /\ c.step # "change" /\ c.key = "duplicate" /\ c.fresh => ReadLog(c.value)

Holds(r, k) == S!At(r, "write") /\ setRequest[r].key = k /\ setRequest[r].before # None

RequestsTyped == setRequest \in [Requests -> S!Call \cup {None}]
RequestsPlaced == \A r \in Requests : setRequest[r] # None => SavePlaced(setRequest[r])
OneHolds == \A q, r \in Requests, k \in S!Keys : Holds(q, k) /\ Holds(r, k) => q = r

SetInv == StoredSound /\ RequestsTyped /\ RequestsPlaced /\ OneHolds

-----------------------------------------------------------------------------
(* The rows. *)

LEMMA NoneIsNoSetting ==
  /\ \A v \in S!FormRow \cup S!DuplicateRow \cup SUBSET S!TypeRow : v # None
  /\ \A op \in S!Ops : op # None
  /\ \A k \in S!Keys : \A v :
       GoodRow(k, v) => v \in S!FormRow \cup S!DuplicateRow \cup SUBSET S!TypeRow /\ v # None
BY SettingsAssumptions DEF S!NoneIsNothing, GoodRow, GoodList, S!Keys

\* Settings counts as this module does.
LEMMA Counting == \A T : S!Cardinality(T) = Cardinality(T) /\ (S!IsFiniteSet(T) <=> IsFiniteSet(T))
BY DEF S!Cardinality, Cardinality, S!IsFiniteSet, IsFiniteSet

LEMMA SeedIsGood == GoodList(S!Seed)
<1> DEFINE f == [s \in Shipped |-> [id |-> s, name |-> s]]
<1>1. f \in Surjection(Shipped, S!Seed)
  BY DEF S!Seed, Surjection
<1>2. IsFiniteSet(S!Seed) /\ Cardinality(S!Seed) <= Cardinality(Shipped)
  <2> HIDE DEF f
  <2> QED BY <1>1, SettingsAssumptions, Counting, FS_Surjection DEF S!SeedFits
<1>3. Cardinality(S!Seed) \in Nat /\ Cardinality(Shipped) \in Nat /\ MaxTypes \in Nat
  BY <1>2, SettingsAssumptions, Counting, FS_CardinalityType DEF S!SeedFits, S!LimitsPositive
<1>4. Cardinality(S!Seed) <= MaxTypes
  BY <1>2, <1>3, SettingsAssumptions, Counting DEF S!SeedFits
<1>5. S!Seed \in SUBSET S!TypeRow /\ \A t, u \in S!Seed : t # u => t.id # u.id /\ t.name # u.name
  BY DEF S!Seed, S!TypeRow
<1> QED BY <1>2, <1>4, <1>5 DEF GoodList

LEMMA ChangedIsGood ==
  ASSUME NEW types, GoodList(types), NEW op \in S!Ops, S!Accepted(types, op)
  PROVE  GoodList(S!Changed(types, op))
<1>1. /\ op.id \in Shipped \cup Custom /\ op.name \in TypeNames
      /\ op.do \in {"read", "create", "update", "delete"}
  BY DEF S!Ops
<1> DEFINE row == [id |-> op.id, name |-> op.name]
           rest == {t \in types : t.id # op.id}
<1>2. row \in S!TypeRow /\ row.id = op.id /\ row.name = op.name
  BY <1>1 DEF S!TypeRow
<1>3. /\ types \in SUBSET S!TypeRow /\ IsFiniteSet(types) /\ Cardinality(types) <= MaxTypes
      /\ \A t, u \in types : t # u => t.id # u.id /\ t.name # u.name
  BY DEF GoodList
<1>4. \A t \in S!TypeRow : t.id # None
  BY SettingsAssumptions DEF S!NoneIsNothing, S!TypeRow
<1>5. /\ Cardinality(types) \in Nat /\ MaxTypes \in Nat
      /\ rest \in SUBSET types /\ IsFiniteSet(rest) /\ Cardinality(rest) <= Cardinality(types)
      /\ Cardinality(rest) \in Nat
  <2>1. rest \in SUBSET types
    OBVIOUS
  <2> HIDE DEF rest
  <2> QED BY <1>3, <2>1, FS_Subset, FS_CardinalityType, SettingsAssumptions DEF S!LimitsPositive
<1>6. CASE op.do = "create"
  <2>1. /\ S!Changed(types, op) = types \cup {row} /\ op.id \notin S!Ids(types)
        /\ \A t \in types : t.name # op.name
        /\ Cardinality(types) < MaxTypes
    BY <1>3, <1>4, <1>6, Counting DEF S!Changed, S!Accepted, S!NameFree
  <2>2. \A t \in types : t.id # op.id
    BY <2>1 DEF S!Ids
  <2> HIDE DEF row, rest
  <2>3. IsFiniteSet(types \cup {row}) /\ Cardinality(types \cup {row}) <= Cardinality(types) + 1
    <3>1. /\ IsFiniteSet(types \cup {row})
          /\ Cardinality(types \cup {row}) = IF row \in types THEN Cardinality(types)
                                             ELSE Cardinality(types) + 1
      BY <1>3, FS_AddElement
    <3> QED BY <1>5, <3>1
  <2>4. Cardinality(types \cup {row}) \in Nat
    BY <2>3, FS_CardinalityType
  <2>5. Cardinality(types \cup {row}) <= MaxTypes
    BY <1>5, <2>1, <2>3, <2>4
  <2> QED BY <1>2, <1>3, <2>1, <2>2, <2>3, <2>5 DEF GoodList
<1>7. CASE op.do = "update"
  <2>1. /\ S!Changed(types, op) = rest \cup {row} /\ op.id \in S!Ids(types)
        /\ \A t \in rest : t.name # op.name
    BY <1>7 DEF S!Changed, S!Accepted, S!NameFree
  <2>2. PICK old \in types : old.id = op.id
    BY <2>1 DEF S!Ids
  <2>3. old \notin rest /\ rest \cup {old} \in SUBSET types
    BY <2>2
  <2>4. \A t \in rest : t.id # op.id
    OBVIOUS
  <2> HIDE DEF row, rest
  <2>5. /\ Cardinality(rest \cup {old}) = Cardinality(rest) + 1
        /\ Cardinality(rest \cup {old}) <= Cardinality(types)
    BY <1>3, <1>5, <2>3, FS_AddElement, FS_Subset
  <2>6. IsFiniteSet(rest \cup {row}) /\ Cardinality(rest \cup {row}) <= Cardinality(rest) + 1
    <3>1. /\ IsFiniteSet(rest \cup {row})
          /\ Cardinality(rest \cup {row}) = IF row \in rest THEN Cardinality(rest)
                                            ELSE Cardinality(rest) + 1
      BY <1>5, FS_AddElement
    <3> QED BY <1>5, <3>1
  <2>7. Cardinality(rest \cup {row}) \in Nat
    BY <2>6, FS_CardinalityType
  <2>8. Cardinality(rest \cup {row}) <= MaxTypes
    BY <1>3, <1>5, <2>5, <2>6, <2>7
  <2> QED BY <1>2, <1>3, <1>5, <2>1, <2>4, <2>6, <2>8 DEF GoodList
<1>8. CASE op.do = "delete"
  <2>1. S!Changed(types, op) = rest
    BY <1>8 DEF S!Changed
  <2>2. Cardinality(rest) <= MaxTypes
    <3> HIDE DEF rest
    <3> QED BY <1>3, <1>5
  <2> QED BY <1>3, <1>5, <2>1, <2>2 DEF GoodList
<1>9. CASE op.do = "read"
  BY <1>9 DEF S!Accepted
<1> QED BY <1>1, <1>6, <1>7, <1>8, <1>9

\* What is logged goes first, the entries before it stay in their order, and the log is cut.
LEMMA LoggedFirst ==
  ASSUME NEW T, NEW log \in Seq(T), NEW entry \in T, Len(log) <= LogLimit
  PROVE  /\ S!Logged(entry, log) \in Seq(T) /\ Len(S!Logged(entry, log)) <= LogLimit
         /\ Len(S!Logged(entry, log)) >= 1
         /\ Head(S!Logged(entry, log)) = entry
         /\ \A i \in 1..Len(log) : i < LogLimit => S!Logged(entry, log)[i + 1] = log[i]
         /\ \A i \in 1..Len(S!Logged(entry, log)) :
              S!Logged(entry, log)[i] = IF i = 1 THEN entry ELSE log[i - 1]
<1> DEFINE s == <<entry>> \o log
           n == IF Len(log) < LogLimit THEN Len(log) + 1 ELSE LogLimit
           d == SubSeq(s, 1, n)
<1>1. LogLimit \in Nat \ {0}
  BY SettingsAssumptions DEF S!LimitsPositive
<1>2. /\ s \in Seq(T) /\ Len(s) = Len(log) + 1
      /\ \A i \in 1..Len(s) : s[i] = IF i = 1 THEN entry ELSE log[i - 1]
  OBVIOUS
<1>3. n \in 1..Len(s) /\ n <= LogLimit /\ \A i \in 1..Len(log) : i < LogLimit => i + 1 <= n
  BY <1>1, <1>2
<1>4. S!Logged(entry, log) = d
  BY DEF S!Logged
<1> HIDE DEF s, n
<1>5. d \in Seq(T) /\ Len(d) = n /\ \A i \in 1..n : d[i] = s[i]
  BY <1>2, <1>3
<1> HIDE DEF d
<1>6. \A i \in 1..n : d[i] = IF i = 1 THEN entry ELSE log[i - 1]
  BY <1>2, <1>3, <1>5
<1>7. Head(d) = entry
  BY <1>3, <1>5, <1>6
<1>8. ASSUME NEW i \in 1..Len(log), i < LogLimit PROVE d[i + 1] = log[i]
  <2>1. i + 1 \in 1..n /\ i + 1 # 1 /\ (i + 1) - 1 = i
    BY <1>3, <1>8
  <2> QED BY <1>6, <2>1
<1> QED BY <1>3, <1>4, <1>5, <1>6, <1>7, <1>8

-----------------------------------------------------------------------------
(* The steps. *)

LEMMA SavingCall ==
  ASSUME NEW k \in S!Keys, NEW v, GoodRow(k, v), NEW next \in S!Ops \cup {None},
         k # "types" => next = None,
         k = "duplicate" => ReadLog(v)
  PROVE  LET c == S!Saving(k, v, next)
         IN  /\ c \in S!Call /\ SavePlaced(c) /\ c.step = "lock" /\ c.key = k /\ c.value = v
             /\ c.before = None
<1>1. v \in S!FormRow \cup S!DuplicateRow \cup SUBSET S!TypeRow
  BY NoneIsNoSetting
<1> DEFINE c == S!Saving(k, v, next)
<1>2. /\ c \in S!Call /\ c.step = "lock" /\ c.key = k /\ c.value = v /\ c.next = next
      /\ c.before = None
  <2>1. k \in S!Keys /\ next \in S!Ops \cup {None}
    OBVIOUS
  <2> QED BY <1>1, <2>1 DEF S!Saving, S!Call
<1> HIDE DEF c
<1>3. SavePlaced(c)
  BY <1>2 DEF SavePlaced
<1> QED BY <1>2, <1>3 DEF c

\* A request that does not write the row of a key.
LEMMA SetterKeeps ==
  ASSUME SetInv, UNCHANGED stored, used' \in SUBSET Shipped, NEW r \in Requests, NEW c,
         c \in S!Call \cup {None}, setRequest' = [setRequest EXCEPT ![r] = c],
         c # None => /\ SavePlaced(c)
                     /\ c.step = "write" /\ c.before # None =>
                          \A q \in Requests \ {r} : ~Holds(q, c.key)
  PROVE  SetInv'
<1>1. setRequest' = [q \in Requests |-> IF q = r THEN c ELSE setRequest[q]]
  BY DEF SetInv, RequestsTyped
<1>2. StoredSound' /\ RequestsTyped'
  BY <1>1 DEF SetInv, StoredSound, RequestsTyped
<1>3. \A d : SavePlaced(d)' <=> SavePlaced(d)
  BY DEF SavePlaced, ReadLog, S!ReadDuplicate
<1>4. RequestsPlaced'
  <2>1. \A q \in Requests : setRequest'[q] # None => \A d : d = setRequest'[q] => SavePlaced(d)'
    BY <1>1, <1>3 DEF SetInv, RequestsPlaced
  <2> QED BY <2>1 DEF RequestsPlaced
<1>5. \A q \in Requests : q # r => \A k : Holds(q, k)' <=> Holds(q, k)
  BY <1>1 DEF Holds, S!At
<1>6. \A k : Holds(r, k)' => \A q \in Requests \ {r} : ~Holds(q, k)
  BY <1>1 DEF Holds, S!At
<1>7. OneHolds'
  <2> SUFFICES ASSUME NEW q \in Requests, NEW p \in Requests, NEW k \in S!Keys,
                      Holds(q, k)', Holds(p, k)', p # q
               PROVE  FALSE
    BY DEF OneHolds
  <2>1. CASE q # r /\ p # r
    BY <2>1, <1>5 DEF SetInv, OneHolds
  <2>2. CASE q = r \/ p = r
    BY <2>2, <1>5, <1>6
  <2> QED BY <2>1, <2>2
<1> QED BY <1>2, <1>4, <1>7 DEF SetInv

LEMMA ReadDuplicateSound ==
  ASSUME SetInv
  PROVE  S!ReadDuplicate \in S!DuplicateRow /\ GoodLog(S!ReadDuplicate.log)
<1>1. CASE stored["duplicate"] = None
  <2>1. [on |-> {}, log |-> <<>>] \in S!DuplicateRow
    <3>1. <<>> \in Seq(SUBSET Switches) /\ {} \in SUBSET Switches
      OBVIOUS
    <3> QED BY <3>1 DEF S!DuplicateRow
  <2>2. S!ReadDuplicate = [on |-> {}, log |-> <<>>]
    BY <1>1 DEF S!ReadDuplicate
  <2>3. S!ReadDuplicate.log = <<>> /\ LogLimit \in Nat
    BY <2>2, SettingsAssumptions DEF S!LimitsPositive
  <2> QED BY <2>1, <2>2, <2>3 DEF GoodLog
<1>2. CASE stored["duplicate"] # None
  BY <1>2 DEF S!ReadDuplicate, SetInv, StoredSound, GoodRow, S!Keys
<1> QED BY <1>1, <1>2

LEMMA SaveFormKeeps ==
  ASSUME SetInv, NEW r \in Requests, NEW v \in [SettingFields -> Values], S!SaveForm(r, v)
  PROVE  SetInv'
<1>1. GoodRow("form", v)
  <2>1. v \in S!FormRow
    BY DEF S!FormRow
  <2> QED BY <2>1 DEF GoodRow
<1> DEFINE c == S!Saving("form", v, None)
<1>2. c \in S!Call /\ SavePlaced(c) /\ c.step = "lock"
  BY <1>1, SavingCall DEF S!Keys
<1>3. UNCHANGED stored /\ used' \in SUBSET Shipped /\ setRequest' = [setRequest EXCEPT ![r] = c]
  BY DEF S!SaveForm, S!Set, SetInv, StoredSound
<1> HIDE DEF c
<1> QED BY <1>2, <1>3, SetterKeeps

LEMMA SaveDuplicateKeeps ==
  ASSUME SetInv, NEW r \in Requests, NEW on \in SUBSET Switches, S!SaveDuplicate(r, on)
  PROVE  SetInv'
<1> DEFINE b == S!ReadDuplicate
           changes == S!Changes(b.on, on)
           log == IF changes = {} THEN b.log ELSE S!Logged(changes, b.log)
           v == [on |-> on, log |-> log]
           c == S!Saving("duplicate", v, None)
<1>1. b.on \in SUBSET Switches /\ b.log \in Seq(SUBSET Switches) /\ GoodLog(b.log)
  BY ReadDuplicateSound DEF S!DuplicateRow
<1>2. changes \in SUBSET Switches
  BY <1>1 DEF S!Changes
<1>3. log \in Seq(SUBSET Switches) /\ GoodLog(log)
  <2>1. CASE changes = {}
    BY <2>1, <1>1
  <2>2. CASE changes # {}
    <3> DEFINE T == SUBSET Switches
               old == b.log
               d == S!Logged(changes, b.log)
    <3>1. Len(b.log) <= LogLimit /\ \A i \in 1..Len(b.log) : b.log[i] # {}
      BY <1>1 DEF GoodLog
    <3>a. b.log \in Seq(T) /\ changes \in T
      BY <1>1, <1>2
    <3> HIDE DEF T, changes, b, old
    <3>2. /\ d \in Seq(T) /\ Len(d) <= LogLimit
          /\ \A i \in 1..Len(d) : d[i] = IF i = 1 THEN changes ELSE b.log[i - 1]
          /\ Len(d) \in Nat
      <4> DEFINE q == S!Logged(changes, old)
      <4>1. old \in Seq(T) /\ changes \in T /\ Len(old) <= LogLimit
        BY <3>a, <3>1 DEF old
      <4>2. /\ q \in Seq(T) /\ Len(q) <= LogLimit
            /\ \A i \in 1..Len(q) : q[i] = IF i = 1 THEN changes ELSE old[i - 1]
        BY <4>1, LoggedFirst
      <4>3. q = d
        BY DEF old
      <4>4. Len(q) \in Nat
        <5> HIDE DEF q
        <5> QED BY <4>2
      <4> HIDE DEF q, d
      <4> QED BY <4>2, <4>3, <4>4 DEF old
    <3>3. Len(d) <= Len(b.log) + 1
      <4>1. d = SubSeq(<<changes>> \o b.log, 1,
                       IF Len(b.log) < LogLimit THEN Len(b.log) + 1 ELSE LogLimit)
        BY DEF S!Logged
      <4>2. LogLimit \in Nat
        BY SettingsAssumptions DEF S!LimitsPositive
      <4> QED BY <1>1, <3>1, <3>2, <4>1, <4>2
    <3> HIDE DEF d
    <3>4. \A i \in 1..Len(d) : d[i] # {}
      <4> SUFFICES ASSUME NEW i \in 1..Len(d) PROVE d[i] # {}
        OBVIOUS
      <4>1. CASE i = 1
        BY <2>2, <3>2, <4>1
      <4>2. CASE i # 1
        <5>1. i - 1 \in 1..Len(b.log) /\ d[i] = b.log[i - 1]
          BY <3>a, <3>2, <3>3, <4>2
        <5> QED BY <3>1, <5>1
      <4> QED BY <4>1, <4>2
    <3>5. log = d
      BY <2>2 DEF d
    <3> QED BY <3>2, <3>4, <3>5 DEF GoodLog, T
  <2> QED BY <2>1, <2>2
<1> HIDE DEF log
<1>4. v \in S!DuplicateRow /\ v.log = log /\ v.on = on
  BY <1>3 DEF S!DuplicateRow
<1>5. GoodRow("duplicate", v) /\ ReadLog(v)
  <2>1. ReadLog(v)
    BY <1>4 DEF ReadLog, log
  <2> HIDE DEF v
  <2> QED BY <1>3, <1>4, <2>1 DEF GoodRow
<1>6. setRequest' = [setRequest EXCEPT ![r] = c]
  BY DEF S!SaveDuplicate, S!Set, log
<1> HIDE DEF v
<1>7. c \in S!Call /\ SavePlaced(c) /\ c.step = "lock"
  BY <1>5, SavingCall DEF S!Keys
<1>8. UNCHANGED stored /\ used' \in SUBSET Shipped
  BY DEF S!SaveDuplicate, SetInv, StoredSound
<1> HIDE DEF c
<1> QED BY <1>6, <1>7, <1>8, SetterKeeps

\* A change that is accepted is saved, and so is the seed.
LEMMA ListSaved ==
  ASSUME NEW types, GoodList(types), NEW next \in S!Ops \cup {None}
  PROVE  LET c == S!Saving("types", types, next) IN c \in S!Call /\ SavePlaced(c) /\ c.step = "lock"
<1>1. GoodRow("types", types)
  BY DEF GoodRow
<1> QED BY <1>1, SavingCall DEF S!Keys

LEMMA SaveListKeeps ==
  ASSUME SetInv, NEW r \in Requests, UNCHANGED <<stored, used>>, NEW types, GoodList(types),
         NEW next \in S!Ops \cup {None},
         setRequest' = [setRequest EXCEPT ![r] = S!Saving("types", types, next)]
  PROVE  SetInv'
<1> DEFINE c == S!Saving("types", types, next)
<1>1. c \in S!Call /\ SavePlaced(c) /\ c.step = "lock"
  BY ListSaved
<1>2. UNCHANGED stored /\ used' \in SUBSET Shipped
  BY DEF SetInv, StoredSound
<1>3. setRequest' = [setRequest EXCEPT ![r] = c]
  OBVIOUS
<1> HIDE DEF c
<1> QED BY <1>1, <1>2, <1>3, SetterKeeps

LEMMA BeginTypesKeeps ==
  ASSUME SetInv, NEW r \in Requests, NEW op \in S!Ops, S!BeginTypes(r, op)
  PROVE  SetInv'
<1>1. UNCHANGED <<stored, used>>
  BY DEF S!BeginTypes
<1>2. CASE stored["types"] = None
  <2>1. setRequest' = [setRequest EXCEPT ![r] = S!Saving("types", S!Seed, op)]
    BY <1>2 DEF S!BeginTypes, S!Set
  <2> QED BY <1>1, <2>1, SeedIsGood, SaveListKeeps
<1>3. CASE stored["types"] # None
  <2> DEFINE types == S!Changed(stored["types"], op)
  <2>1. GoodList(stored["types"]) /\ S!Accepted(stored["types"], op)
    BY <1>3 DEF S!BeginTypes, SetInv, StoredSound, GoodRow, S!Keys
  <2>2. GoodList(types)
    BY <2>1, ChangedIsGood
  <2>3. setRequest' = [setRequest EXCEPT ![r] = S!Saving("types", types, None)]
    BY <1>3 DEF S!BeginTypes, S!Set
  <2> HIDE DEF types
  <2> QED BY <1>1, <2>2, <2>3, SaveListKeeps
<1> QED BY <1>2, <1>3

LEMMA ChangeSeededKeeps ==
  ASSUME SetInv, NEW r \in Requests, S!ChangeSeeded(r)
  PROVE  SetInv'
<1> DEFINE op == setRequest[r].next
           types == S!Changed(S!Seed, op)
<1>1. op \in S!Ops
  <2>1. setRequest[r] \in S!Call /\ SavePlaced(setRequest[r]) /\ setRequest[r].step = "change"
    BY DEF S!ChangeSeeded, S!At, SetInv, RequestsTyped, RequestsPlaced
  <2> QED BY <2>1 DEF SavePlaced, S!Call
<1>2. UNCHANGED <<stored, used>>
  BY DEF S!ChangeSeeded
<1>3. CASE S!Accepted(S!Seed, op)
  <2>1. GoodList(types)
    BY <1>1, <1>3, SeedIsGood, ChangedIsGood
  <2>2. setRequest' = [setRequest EXCEPT ![r] = S!Saving("types", types, None)]
    BY <1>3 DEF S!ChangeSeeded, S!Set
  <2> HIDE DEF types
  <2> QED BY <1>2, <2>1, <2>2, SaveListKeeps
<1>4. CASE ~S!Accepted(S!Seed, op)
  <2>1. setRequest' = [setRequest EXCEPT ![r] = None]
    BY <1>4 DEF S!ChangeSeeded, S!Set
  <2>2. used' \in SUBSET Shipped
    BY <1>2 DEF SetInv, StoredSound
  <2> QED BY <1>2, <2>1, <2>2, SetterKeeps
<1> QED BY <1>3, <1>4

LEMMA SettingFailKeeps ==
  ASSUME SetInv, NEW r \in Requests, S!Fail(r)
  PROVE  SetInv'
<1>1. UNCHANGED stored /\ used' \in SUBSET Shipped /\ setRequest' = [setRequest EXCEPT ![r] = None]
  BY DEF S!Fail, S!Set, SetInv, StoredSound
<1> QED BY <1>1, SetterKeeps

LEMMA FileActivityKeeps ==
  ASSUME SetInv, NEW s \in Shipped, S!FileActivity(s)
  PROVE  SetInv'
BY DEF S!FileActivity, SetInv, StoredSound, RequestsTyped, RequestsPlaced, OneHolds, Holds, S!At,
       SavePlaced, ReadLog, S!ReadDuplicate

\* Whoever finds a row to lock holds it alone.
LEMMA LockKeeps ==
  ASSUME SetInv, NEW r \in Requests, S!Lock(r)
  PROVE  SetInv'
<1> DEFINE d == setRequest[r]
           c == [d EXCEPT !.step = "write", !.before = stored[d.key]]
<1>1. d \in S!Call /\ SavePlaced(d) /\ d.step = "lock" /\ d.key \in S!Keys
  BY DEF S!Lock, S!At, SetInv, RequestsTyped, RequestsPlaced, S!Call
<1>2. stored[d.key] \in S!FormRow \cup S!DuplicateRow \cup (SUBSET S!TypeRow) \cup {None}
  <2>1. stored[d.key] = None \/ GoodRow(d.key, stored[d.key])
    BY <1>1 DEF SetInv, StoredSound
  <2> HIDE DEF d
  <2> QED BY <1>1, <2>1, NoneIsNoSetting
<1>3. stored[d.key] # None => \A q \in Requests \ {r} : ~Holds(q, d.key)
  BY DEF S!Lock, S!Held, Holds
<1>4. UNCHANGED stored /\ used' \in SUBSET Shipped /\ setRequest' = [setRequest EXCEPT ![r] = c]
  BY DEF S!Lock, S!Set, SetInv, StoredSound
<1> HIDE DEF d
<1>5. /\ c \in S!Call /\ c.step = "write" /\ c.key = d.key /\ c.value = d.value /\ c.next = d.next
      /\ c.before = stored[d.key] /\ (c.fresh <=> d.fresh)
  BY <1>1, <1>2 DEF S!Call
<1> HIDE DEF c
<1>6. SavePlaced(c)
  BY <1>1, <1>5 DEF SavePlaced
<1> QED BY <1>3, <1>4, <1>5, <1>6, SetterKeeps

LEMMA WriteKeeps ==
  ASSUME SetInv, NEW r \in Requests, S!Write(r)
  PROVE  SetInv'
<1> DEFINE c == setRequest[r]
           k == c.key
           next == [c EXCEPT !.step = "change", !.fresh = TRUE]
<1>1. /\ c \in S!Call /\ SavePlaced(c) /\ c.step = "write" /\ k \in S!Keys
      /\ c.next \in S!Ops \cup {None}
  BY DEF S!Write, S!At, SetInv, RequestsTyped, RequestsPlaced, S!Call
<1>2. /\ stored' = [stored EXCEPT ![k] = c.value] /\ UNCHANGED used
      /\ setRequest' = [q \in Requests |->
                       IF q = r THEN IF c.next = None THEN None ELSE next
                       ELSE IF setRequest[q] # None /\ setRequest[q].key = k
                       THEN [setRequest[q] EXCEPT !.fresh = FALSE] ELSE setRequest[q]]
      /\ \A q \in Requests \ {r} : ~Holds(q, k)
  BY DEF S!Write, S!Held, Holds
<1> HIDE DEF c, k
<1>3. next \in S!Call /\ next.step = "change" /\ next.key = k /\ next.next = c.next
  BY <1>1 DEF S!Call, k
<1> HIDE DEF next
<1>4. GoodRow(k, c.value)
  BY <1>1 DEF SavePlaced, k
<1>5. \A j \in S!Keys : stored'[j] = IF j = k THEN c.value ELSE stored[j]
  BY <1>1, <1>2 DEF SetInv, StoredSound
<1>6. StoredSound'
  <2>1. stored' = [j \in S!Keys |-> stored'[j]]
    BY <1>1, <1>2 DEF SetInv, StoredSound
  <2>2. \A j \in S!Keys : stored'[j] # None => GoodRow(j, stored'[j])
    BY <1>4, <1>5 DEF SetInv, StoredSound
  <2> QED BY <1>2, <2>1, <2>2 DEF SetInv, StoredSound, GoodRow, GoodList, GoodLog
<1>7. ASSUME NEW q \in Requests, q # r, setRequest[q] # None
      PROVE  /\ setRequest'[q] \in S!Call /\ setRequest'[q].step = setRequest[q].step
             /\ setRequest'[q].key = setRequest[q].key /\ setRequest'[q].value = setRequest[q].value
             /\ setRequest'[q].next = setRequest[q].next
             /\ setRequest'[q].before = setRequest[q].before
             /\ setRequest'[q].key = k => ~setRequest'[q].fresh
             /\ setRequest'[q].fresh => setRequest[q].fresh
             /\ SavePlaced(setRequest[q]) /\ setRequest[q].key \in S!Keys
  <2>1. setRequest[q] \in S!Call /\ SavePlaced(setRequest[q])
    BY <1>7 DEF SetInv, RequestsTyped, RequestsPlaced
  <2> QED BY <1>2, <1>7, <2>1 DEF S!Call
<1>8. /\ setRequest'[r] = IF c.next = None THEN None ELSE next
      /\ \A q \in Requests : q # r /\ setRequest[q] = None => setRequest'[q] = None
  BY <1>2
<1>9. RequestsTyped'
  <2>1. \A q \in Requests : setRequest'[q] \in S!Call \cup {None}
    BY <1>3, <1>7, <1>8
  <2> QED BY <1>2, <2>1 DEF RequestsTyped
<1>10. RequestsPlaced'
  <2> SUFFICES ASSUME NEW q \in Requests, setRequest'[q] # None, NEW d, d = setRequest'[q]
               PROVE  SavePlaced(d)'
    BY DEF RequestsPlaced
  <2>1. CASE q = r
    <3>1. d.step = "change" /\ d.next # None /\ d.next = c.next /\ d.key = k
      BY <1>3, <1>8, <2>1
    <3>2. k = "types"
      BY <1>1, <3>1 DEF SavePlaced, k
    <3> QED BY <3>1, <3>2 DEF SavePlaced
  <2>2. CASE q # r
    <3>1. setRequest[q] # None
      BY <1>8, <2>2
    <3>2. d.step # "change" => GoodRow(d.key, d.value)'
      BY <1>7, <2>2, <3>1 DEF SavePlaced, GoodRow, GoodList, GoodLog
    <3>3. (d.step = "change" => d.next # None) /\ (d.key # "types" => d.next = None)
      BY <1>7, <2>2, <3>1 DEF SavePlaced
    <3>4. ASSUME d.step = "write", d.before # None PROVE d.before = stored'[d.key]
      <4>1. Holds(q, d.key)
        BY <1>7, <2>2, <3>1, <3>4 DEF Holds, S!At
      <4>2. d.key # k
        BY <1>2, <2>2, <4>1
      <4> QED BY <1>5, <1>7, <2>2, <3>1, <3>4, <4>2 DEF SavePlaced
    <3>5. ASSUME d.step # "change", d.key = "duplicate", d.fresh PROVE ReadLog(d.value)'
      <4>1. k # "duplicate" /\ ReadLog(setRequest[q].value)
        BY <1>7, <2>2, <3>1, <3>5 DEF SavePlaced
      <4>2. stored'["duplicate"] = stored["duplicate"]
        BY <1>5, <4>1 DEF S!Keys
      <4> QED BY <1>7, <2>2, <3>1, <4>1, <4>2 DEF ReadLog, S!ReadDuplicate
    <3> QED BY <3>2, <3>3, <3>4, <3>5 DEF SavePlaced
  <2> QED BY <2>1, <2>2
<1>11. OneHolds'
  <2>1. \A q \in Requests, j \in S!Keys : Holds(q, j)' => Holds(q, j)
    <3> SUFFICES ASSUME NEW q \in Requests, NEW j \in S!Keys, Holds(q, j)' PROVE Holds(q, j)
      OBVIOUS
    <3>1. q # r
      BY <1>3, <1>8 DEF Holds, S!At
    <3> QED BY <3>1, <1>7, <1>8 DEF Holds, S!At
  <2> QED BY <2>1 DEF OneHolds, SetInv
<1> QED BY <1>6, <1>9, <1>10, <1>11 DEF SetInv

-----------------------------------------------------------------------------
(* The theorems. *)

LEMMA InitSetInv == S!Init => SetInv
<1> SUFFICES ASSUME S!Init PROVE SetInv
  OBVIOUS
<1>1. PICK first \in S!FormRow \cup {None} :
        stored = [k \in S!Keys |-> IF k = "form" THEN first ELSE None]
  BY DEF S!Init
<1>2. \A k \in S!Keys : stored[k] # None => k = "form" /\ stored[k] \in S!FormRow
  BY <1>1
<1>3. StoredSound
  BY <1>1, <1>2 DEF S!Init, StoredSound, GoodRow
<1> QED BY <1>3 DEF S!Init, SetInv, RequestsTyped, RequestsPlaced, OneHolds, Holds, S!At

LEMMA NextSetInv == SetInv /\ [S!Next]_(S!vars) => SetInv'
<1> SUFFICES ASSUME SetInv, [S!Next]_(S!vars) PROVE SetInv'
  OBVIOUS
<1>1. ASSUME NEW r \in Requests,
             \/ \E v \in [SettingFields -> Values] : S!SaveForm(r, v)
             \/ \E on \in SUBSET Switches : S!SaveDuplicate(r, on)
             \/ \E op \in S!Ops : S!BeginTypes(r, op)
      PROVE  SetInv'
  BY <1>1, SaveFormKeeps, SaveDuplicateKeeps, BeginTypesKeeps
<1>2. ASSUME NEW r \in Requests, S!Lock(r) \/ S!Write(r) \/ S!ChangeSeeded(r) \/ S!Fail(r)
      PROVE  SetInv'
  BY <1>2, LockKeeps, WriteKeeps, ChangeSeededKeeps, SettingFailKeeps
<1>3. ASSUME NEW s \in Shipped, S!FileActivity(s)
      PROVE  SetInv'
  BY <1>3, FileActivityKeeps
<1>4. CASE UNCHANGED S!vars
  BY <1>4 DEF S!vars, SetInv, StoredSound, RequestsTyped, RequestsPlaced, OneHolds, Holds, S!At,
              SavePlaced, ReadLog, S!ReadDuplicate
<1>5. CASE S!Next
  BY <1>5, <1>1, <1>2, <1>3 DEF S!Next
<1> QED BY <1>4, <1>5

LEMMA SetInvSound == SetInv => S!TypeOK /\ S!GoodFieldsSurvive /\ S!ListSound
<1> SUFFICES ASSUME SetInv PROVE S!TypeOK /\ S!GoodFieldsSurvive /\ S!ListSound
  OBVIOUS
<1>1. \A k \in S!Keys : stored[k] # None => GoodRow(k, stored[k])
  BY DEF SetInv, StoredSound
<1>2. stored["form"] \in S!FormRow \cup {None}
  BY <1>1 DEF GoodRow, S!Keys
<1>3. ASSUME stored["duplicate"] # None
      PROVE  /\ stored["duplicate"].on \in SUBSET Switches
             /\ \A i \in DOMAIN stored["duplicate"].log :
                  stored["duplicate"].log[i] \in (SUBSET Switches) \ {{}}
             /\ Len(stored["duplicate"].log) <= LogLimit
  <2> DEFINE d == stored["duplicate"]
  <2>1. d \in S!DuplicateRow /\ GoodLog(d.log)
    BY <1>1, <1>3 DEF GoodRow, S!Keys
  <2> HIDE DEF d
  <2>2. d.on \in SUBSET Switches /\ d.log \in Seq(SUBSET Switches)
    BY <2>1 DEF S!DuplicateRow
  <2>3. \A i \in DOMAIN d.log : d.log[i] \in (SUBSET Switches) \ {{}}
    BY <2>1, <2>2 DEF GoodLog
  <2>4. Len(d.log) <= LogLimit
    BY <2>1 DEF GoodLog
  <2> QED BY <2>2, <2>3, <2>4 DEF d
<1>4. stored["types"] # None => GoodList(stored["types"])
  BY <1>1 DEF GoodRow, S!Keys
<1>5. S!TypeOK
  <2>1. stored["types"] \in (SUBSET S!TypeRow) \cup {None}
    BY <1>4 DEF GoodList
  <2>2. used \in SUBSET Shipped
    BY DEF SetInv, StoredSound
  <2> QED BY <1>2, <1>3, <2>1, <2>2 DEF S!TypeOK
<1>6. S!GoodFieldsSurvive
  <2>1. Default \in Values
    BY SettingsAssumptions DEF S!DefaultIsAValue
  <2> QED BY <2>1 DEF S!GoodFieldsSurvive, S!ReadForm
<1>7. S!ListSound
  BY <1>4, Counting DEF S!ListSound, GoodList
<1> QED BY <1>5, <1>6, <1>7

\* Whatever requests save over each other, and however often: a screen finds values it can show,
\* a field that is well stored is read whatever the others hold, and the list of follow-up types
\* is one that a request could have made, within its limit.
THEOREM SettingsStaySound == S!Spec => [](S!TypeOK /\ S!GoodFieldsSurvive /\ S!ListSound)
<1> QED BY InitSetInv, NextSetInv, SetInvSound, PTL DEF S!Spec

LEMMA StepReplaces ==
  ASSUME SetInv, [S!Next]_(S!vars), event' # None, event'.before # None, ~UNCHANGED S!vars
  PROVE  event'.before = stored[event'.key]
<1>1. PICK r \in Requests : S!Write(r)
  BY
  DEF S!Next, S!SaveForm, S!SaveDuplicate, S!BeginTypes, S!Lock, S!ChangeSeeded, S!Fail,
      S!FileActivity
<1> DEFINE c == setRequest[r]
<1>2. c.step = "write" /\ SavePlaced(c)
  BY <1>1 DEF S!Write, S!At, SetInv, RequestsPlaced
<1>3. event' = IF c.before = c.value THEN None
               ELSE [key |-> c.key, before |-> c.before, after |-> c.value]
  BY <1>1 DEF S!Write
<1> HIDE DEF c
<1>4. event'.before = c.before /\ event'.key = c.key
  BY <1>3
<1> QED BY <1>2, <1>4 DEF SavePlaced

\* What an audit event gives as the value before is what its save replaced: the row was locked.
THEOREM EventsTell == S!Spec => S!BeforeIsReplaced
<1> DEFINE Step == event' # None /\ event'.before # None => event'.before = stored[event'.key]
<1>1. SetInv /\ [S!Next]_(S!vars) => [Step]_(S!vars)
  BY StepReplaces
<1> QED BY InitSetInv, NextSetInv, <1>1, PTL DEF S!Spec, S!BeforeIsReplaced

LEMMA StepLogs ==
  ASSUME SetInv, [S!Next]_(S!vars), NEW r \in Requests, S!At(r, "write"),
         setRequest[r].key = "duplicate",
         setRequest[r].fresh, stored'["duplicate"] # stored["duplicate"], setRequest'[r] = None,
         S!ReadDuplicate.on # stored'["duplicate"].on
  PROVE  /\ Head(stored'["duplicate"].log)
              = S!Changes(S!ReadDuplicate.on, stored'["duplicate"].on)
         /\ \A i \in DOMAIN S!ReadDuplicate.log :
              i < LogLimit => stored'["duplicate"].log[i + 1] = S!ReadDuplicate.log[i]
<1> DEFINE c == setRequest[r]
           b == S!ReadDuplicate
<1>1. PICK q \in Requests : S!Write(q)
  BY
  DEF S!Next, S!vars, S!SaveForm, S!SaveDuplicate, S!BeginTypes, S!Lock, S!ChangeSeeded,
      S!Fail, S!FileActivity
<1>2. c \in S!Call /\ SavePlaced(c) /\ c.step = "write" /\ c.key = "duplicate" /\ c.fresh
  BY DEF S!At, SetInv, RequestsTyped, RequestsPlaced
<1>3. q = r
  <2> SUFFICES ASSUME q # r PROVE FALSE
    OBVIOUS
  <2>1. setRequest'[r] = setRequest[r] \/ setRequest'[r] = [setRequest[r] EXCEPT !.fresh = FALSE]
    BY <1>1 DEF S!Write
  <2>2. setRequest'[r].step = "write"
    BY <1>2, <2>1 DEF S!Call
  <2>3. [setRequest[r] EXCEPT !.fresh = FALSE] \in S!Call
    BY <1>2 DEF S!Call
  <2>4. None \notin S!Call
    BY SettingsAssumptions DEF S!NoneIsNothing
  <2> QED BY <1>2, <2>1, <2>3, <2>4
<1>4. stored'["duplicate"] = c.value
  BY <1>1, <1>2, <1>3 DEF S!Write, SetInv, StoredSound, S!Keys
<1>5. /\ b.on \in SUBSET Switches /\ b.log \in Seq(SUBSET Switches) /\ Len(b.log) <= LogLimit
  BY ReadDuplicateSound DEF S!DuplicateRow, GoodLog
<1>6. c.value.on \in SUBSET Switches
  BY <1>2 DEF SavePlaced, GoodRow, S!DuplicateRow
<1> DEFINE changes == S!Changes(b.on, c.value.on)
<1>7. changes # {} /\ changes \in SUBSET Switches
  BY <1>4, <1>5, <1>6 DEF S!Changes
<1>8. c.value.log = S!Logged(changes, b.log)
  BY <1>2, <1>7 DEF SavePlaced, ReadLog
<1> HIDE DEF changes, b, c
<1>9. /\ Head(c.value.log) = changes
      /\ \A i \in 1..Len(b.log) : i < LogLimit => c.value.log[i + 1] = b.log[i]
  <2> DEFINE T == SUBSET Switches
             old == b.log
  <2>1. old \in Seq(T) /\ changes \in T /\ Len(old) <= LogLimit
    BY <1>5, <1>7
  <2> HIDE DEF T, old
  <2>2. /\ Head(S!Logged(changes, old)) = changes
        /\ \A i \in 1..Len(old) : i < LogLimit => S!Logged(changes, old)[i + 1] = old[i]
    BY <2>1, LoggedFirst
  <2>3. c.value.log = S!Logged(changes, old)
    BY <1>8 DEF old
  <2> QED BY <2>2, <2>3 DEF old
<1> QED BY <1>4, <1>5, <1>9 DEF b, changes

\* The log of the duplicate settings continues the one it replaces, when nobody saved meanwhile.
THEOREM LogTells == S!Spec => S!LogTellsChange
<1> DEFINE Step == \A r \in Requests :
       /\ S!At(r, "write") /\ setRequest[r].key = "duplicate" /\ setRequest[r].fresh
       /\ stored'["duplicate"] # stored["duplicate"] /\ setRequest'[r] = None
       => LET before == S!ReadDuplicate
              after == stored'["duplicate"]
          IN before.on # after.on =>
             /\ Head(after.log) = S!Changes(before.on, after.on)
             /\ \A i \in DOMAIN before.log : i < LogLimit => after.log[i + 1] = before.log[i]
<1>1. SetInv /\ [S!Next]_(S!vars) => [Step]_(S!vars)
  BY StepLogs
<1> QED BY InitSetInv, NextSetInv, <1>1, PTL DEF S!Spec, S!LogTellsChange


-----------------------------------------------------------------------------
(* What is proved of the parts, proved of the whole. *)

LEMMA PartsSteps ==
  ASSUME [ScreensNext]_allVars
  PROVE  /\ [Next]_<<category, carries, change>>
         /\ [F!Next]_<<form, field, value, uses, formChange>>
         /\ [S!Next]_<<stored, event, used, setRequest>>
BY DEF ScreensNext, allVars, vars, formVars, settingVars

\* Whatever requests save and remove at the same time: forms and values stay sound.
THEOREM FormsAreSound == ScreensSpec => []FormsSound
<1>1. ScreensInit => F!Init
  BY DEF ScreensInit
<1>2. F!Spec => []F!FormsSound
  BY FormsStaySound
<1> QED BY <1>1, <1>2, PartsSteps, PTL DEF ScreensSpec, F!Spec, F!vars, FormsSound

\* Rows that come from the requests of many administrators are always rows the screens can show.
THEOREM ScreensStaySound == ScreensSpec => []ScreensSound
<1>1. ScreensInit => S!Init /\ Init
  BY DEF ScreensInit
<1>2. S!Spec => [](S!TypeOK /\ S!GoodFieldsSurvive /\ S!ListSound)
  BY SettingsStaySound
<1>3. Spec => [](TypeOK /\ ParentsExist)
  BY CategoriesAssumptions, CategoriesSound
<1> QED
  BY <1>1, <1>2, <1>3, PartsSteps, PTL DEF ScreensSpec, S!Spec, S!vars, Spec, vars, ScreensSound

\* A change that finds the forms as it read them keeps one default.
THEOREM DefaultStaysKept == ScreensSpec => DefaultKept
<1>1. ScreensInit => F!Init
  BY DEF ScreensInit
<1>2. F!Spec => F!DefaultKept
  BY DefaultStays
<1> QED BY <1>1, <1>2, PartsSteps, PTL DEF ScreensSpec, F!Spec, F!vars, DefaultKept

\* Events and logs tell what was changed, the tree of categories stays one, renames are complete.
THEOREM ScreensStayKept == ScreensSpec => ScreensKept
<1>1. ScreensInit => S!Init /\ Init
  BY DEF ScreensInit
<1>2. S!Spec => S!BeforeIsReplaced
  BY EventsTell
<1>3. S!Spec => S!LogTellsChange
  BY LogTells
<1>4. Spec => TreeKept
  BY CategoriesAssumptions, TreeStays
<1>5. Spec => RenameCarriesLeads
  BY CategoriesAssumptions, RenamesCarry
<1> QED
  BY <1>1, <1>2, <1>3, <1>4, <1>5, PartsSteps, PTL
  DEF ScreensSpec, S!Spec, S!vars, Spec, vars, ScreensKept
==============================================================================
