--------------------------- MODULE CatalogueProofs ---------------------------
(***************************************************************************)
(* How many requests meet, and what the catalogue keeps then, for any sets *)
(* of stages, pipelines, leads, members and names.  A behaviour is of one  *)
(* part: every operation with one request at a time, or the operations     *)
(* that meet the rename of a stage, at once.                               *)
(***************************************************************************)
EXTENDS Catalogue, FiniteSetTheorems, WellFoundedInduction, TLAPS

CONSTANT Parts

VARIABLE part

Busy(r) == pc[r] # "idle"
AloneAt(r) == \A q \in Requests \ {r} : ~Busy(q)

Alone(r) ==
  /\ AloneAt(r)
  /\ \/ Check(r) \/ Write(r) \/ Crash(r)
     \/ CountInStage(r) \/ CountOnPipeline(r) \/ ClearDefaults(r)

\* Pipelines are renamed one at a time: two renames of one pipeline leave its stages behind.
OneRename(r) == \A q \in Requests : Busy(q) => call[q].op # "RENAME_PIPELINE"

Meeting(r) ==
  \/ CheckRenameStage(r) \/ CheckReorder(r) \/ CheckRemoveStage(r)
  \/ CheckMoveLead(r) \/ CheckEditLead(r)
  \/ CheckRenamePipeline(r) /\ OneRename(r)
  \/ Write(r) \/ CountInStage(r) \/ Crash(r)

PartsInit ==
  /\ part \in Parts
  /\ Init
  /\ part = "renames" => grants = [u \in Users |-> {}]

PartsNext ==
  /\ \/ part = "alone" /\ \E r \in Requests : Alone(r)
     \/ part = "renames" /\ \E r \in Requests : Meeting(r)
  /\ UNCHANGED part

PartsSpec == PartsInit /\ [][PartsNext]_<<vars, part>>

\* Rows are well-formed; with one request at a time a lead is on a column of its board and one
\* pipeline is the default while there are any; no two stages of a board share a position as
\* renames, removals, moves and a new order meet.
CatalogueSound ==
  /\ TypeOK
  /\ part = "alone" => LeadsInColumn /\ OneDefault
  /\ part = "renames" => PositionsDistinct

\* A rename relabels the leads of its stage and no other, and who is WON stays WON.
LeadsKept == RenameCarriesLeads /\ ReservedStay

-----------------------------------------------------------------------------
(* What the calls hold. *)

CreateStageCall == [op: {"CREATE_STAGE"}, id: StageIds, board: Boards, name: Names \ Reserved,
                    position: Nat]
RenameStageCall == [op: {"RENAME_STAGE"}, id: StageIds, board: Boards, old: Names,
                    name: Names \ Reserved]
ReorderCall == [op: {"REORDER"}, board: Boards,
                order: UNION {[T -> Nat] : T \in SUBSET StageIds}]
RemoveStageCall == [op: {"REMOVE_STAGE"}, id: StageIds, board: Boards, name: Names]
CreatePipelineCall == [op: {"CREATE_PIPELINE"}, id: PipelineIds, name: Boards,
                       isDefault: BOOLEAN]
RenamePipelineCall == [op: {"RENAME_PIPELINE"}, id: PipelineIds, old: Boards, name: Boards,
                       holders: UNION {[U -> SUBSET Boards] : U \in SUBSET Users}]
SetDefaultCall == [op: {"SET_DEFAULT"}, id: PipelineIds, clears: SUBSET PipelineIds]
RemovePipelineCall == [op: {"REMOVE_PIPELINE"}, id: PipelineIds, name: Boards]
MoveLeadCall == [op: {"MOVE_LEAD"}, id: Leads, both: BOOLEAN, board: Boards,
                 name: Names \ Reserved, kept: BOOLEAN]
CreateLeadCall == [op: {"CREATE_LEAD"}, id: Leads, board: Boards, name: Names \ Reserved]
SetGrantsCall == [op: {"SET_GRANTS"}, id: Users, boards: SUBSET Boards]

Call == CreateStageCall \cup RenameStageCall \cup ReorderCall \cup RemoveStageCall
          \cup CreatePipelineCall \cup RenamePipelineCall \cup SetDefaultCall
          \cup RemovePipelineCall \cup MoveLeadCall \cup CreateLeadCall \cup SetGrantsCall

\* A request past its checks holds the inputs of its operation.
CallsTyped ==
  /\ call \in [Requests -> Call \cup {None}]
  /\ \A r \in Requests : Busy(r) => call[r] \in Call

Typed == TypeOK /\ CallsTyped

\* A row that a request is to fill is nobody else's until then.
IdsFree ==
  \A r \in Requests : Busy(r) /\ call[r].op = "CREATE_STAGE" =>
    /\ stage[call[r].id].is = "unused"
    /\ \A q \in Requests \ {r} : Busy(q) /\ call[q].op = "CREATE_STAGE"
                                   => call[q].id # call[r].id

\* What the checks of a call have found, and nobody takes from it before it is done: it names no
\* stage and no lead of the Logistics workflow, a new order is of whole boards, and a pipeline
\* has the name that was read and gets one that no pipeline has.
Whole(f) ==
  /\ \A s, t \in DOMAIN f : s # t => f[s] # f[t]
  /\ \A s \in DOMAIN f, t \in Stages :
       Live(stage[s]) /\ stage[s].board = stage[t].board => t \in DOMAIN f

Standing(c) ==
  /\ c.op \in {"RENAME_STAGE", "REMOVE_STAGE"} => stage[c.id].name \notin Reserved
  /\ c.op = "MOVE_LEAD" => Live(lead[c.id]) /\ lead[c.id].status \notin Reserved
  /\ c.op = "REORDER" => Whole(c.order)
  /\ c.op = "RENAME_PIPELINE" =>
       c.id \in Pipelines /\ pipeline[c.id].name = c.old /\ c.name \notin BoardNames

\* Where a lead that is moved goes: a column, or where it is.
Landing(c) ==
  IF c.kept THEN c.both /\ c.board = lead[c.id].board /\ c.name = lead[c.id].status
  ELSE Column(IF c.both THEN c.board ELSE lead[c.id].board, c.name)

\* What its checks have found besides, and only a request that is alone can rely on.
Fits(c) ==
  /\ c.op = "CREATE_STAGE" => stage[c.id].is = "unused"
  /\ c.op = "REMOVE_STAGE" => c.board = stage[c.id].board /\ c.name = stage[c.id].name
  /\ c.op = "CREATE_PIPELINE" => pipeline[c.id].is = "unused" /\ c.isDefault = (Pipelines = {})
  /\ c.op = "SET_DEFAULT" => c.clears = Defaults \ {c.id}
  /\ c.op = "REMOVE_PIPELINE" => c.id \in Pipelines \ Defaults /\ c.name = pipeline[c.id].name
  /\ c.op = "MOVE_LEAD" => Landing(c)
  /\ c.op = "CREATE_LEAD" => lead[c.id].is = "unused" /\ Column(c.board, c.name)

\* What the count before a removal has found.
Emptied(c) ==
  /\ c.op = "REMOVE_STAGE" => In(c.board, c.name) = {}
  /\ c.op = "REMOVE_PIPELINE" => \A l \in LiveLeads : lead[l].board # c.name

DistinctNames == \A p, q \in Pipelines : p # q => pipeline[p].name # pipeline[q].name
BoardsExist == \A s \in Stages : stage[s].board \in BoardNames

AloneInv ==
  /\ LeadsInColumn /\ OneDefault
  /\ \A r \in Requests : Busy(r) =>
       /\ AloneAt(r) /\ Standing(call[r]) /\ Fits(call[r])
       /\ pc[r] = "commit" => Emptied(call[r])

MeetingOps == {"RENAME_STAGE", "REMOVE_STAGE", "REORDER", "RENAME_PIPELINE", "MOVE_LEAD"}

MeetingInv ==
  /\ BoardsExist /\ PositionsDistinct
  /\ \A r \in Requests : Busy(r) =>
       /\ call[r].op \in MeetingOps /\ Standing(call[r])
       /\ call[r].op = "RENAME_PIPELINE" =>
            \A q \in Requests \ {r} : Busy(q) => call[q].op # "RENAME_PIPELINE"

PartsInv ==
  /\ Typed /\ IdsFree /\ DistinctNames
  /\ part = "alone" => AloneInv
  /\ part = "renames" => MeetingInv

-----------------------------------------------------------------------------
(* Sets of numbers. *)

\* A finite set of integers has a greatest.
LEMMA MaxOfSet ==
  ASSUME NEW S, IsFiniteSet(S), S \subseteq Int, S # {}
  PROVE  Max(S) \in S /\ \A x \in S : x <= Max(S)
<1> DEFINE Topped(A) == \E m \in A : \A x \in A : m >= x
           Bad == {A \in SUBSET S : A # {} /\ ~Topped(A)}
<1>1. Bad = {}
  <2> SUFFICES ASSUME Bad # {} PROVE FALSE
    OBVIOUS
  <2>1. IsWellFoundedOn(StrictSubsetOrdering(S), FiniteSubsetsOf(S))
    BY FS_StrictSubsetOrderingWellFounded
  <2>2. Bad \subseteq FiniteSubsetsOf(S)
    BY FS_FiniteSubsetsOfFinite
  <2>3. PICK A \in Bad : \A B \in Bad : <<B, A>> \notin StrictSubsetOrdering(S)
    BY <2>1, <2>2, WFMin
  <2>4. PICK a \in A : TRUE
    OBVIOUS
  <2>5. A \ {a} \notin Bad
    BY <2>3, <2>4 DEF StrictSubsetOrdering
  <2>6. CASE A = {a}
    BY <2>4, <2>6
  <2>7. CASE A # {a}
    <3>1. PICK m \in A \ {a} : \A x \in A \ {a} : m >= x
      BY <2>5, <2>7, <2>4
    <3>2. m \in Int /\ a \in Int
      BY <2>4
    <3>3. CASE m >= a
      BY <3>1, <3>2, <3>3
    <3>4. CASE a > m
      <4>1. \A x \in A : a >= x
        BY <3>1, <3>2, <3>4
      <4> QED BY <4>1, <2>4
    <3> QED BY <3>2, <3>3, <3>4
  <2> QED BY <2>6, <2>7
<1>2. \E m \in S : \A x \in S : m >= x
  BY <1>1
<1> QED BY <1>2 DEF Max

\* One pipeline is the default, or there is none.
LEMMA DefaultIsOne ==
  OneDefault <=> IF Pipelines = {} THEN Defaults = {} ELSE \E p \in Pipelines : Defaults = {p}
<1>1. IsFiniteSet(Defaults) /\ Defaults \subseteq Pipelines
  BY Sizes, FS_Subset DEF Defaults, Pipelines
<1>2. (Cardinality(Defaults) = 0 <=> Defaults = {}) /\ (Cardinality(Defaults) = 1 <=> \E p : Defaults = {p})
  BY <1>1, FS_EmptySet, FS_Singleton
<1> QED BY <1>1, <1>2 DEF OneDefault

-----------------------------------------------------------------------------
(* Types. *)

\* The requests keep their types when r begins, ends or moves on.
LEMMA RequestTyped ==
  ASSUME Typed, NEW r \in Requests
  PROVE  /\ End(r) => pc' \in [Requests -> {"idle", "count", "clear", "commit"}]
                      /\ rowLock' \in [PipelineIds -> Requests \cup {None}]
                      /\ CallsTyped'
         /\ \A op, c, w : c \in Call /\ w \in {"count", "clear", "commit"} /\ Begin(r, op, c, w)
              => Typed'
<1>1. End(r) => pc' \in [Requests -> {"idle", "count", "clear", "commit"}]
                /\ rowLock' \in [PipelineIds -> Requests \cup {None}]
                /\ CallsTyped'
  BY DEF End, Typed, TypeOK, CallsTyped, Busy
<1>2. ASSUME NEW op, NEW c \in Call, NEW w \in {"count", "clear", "commit"}, Begin(r, op, c, w)
      PROVE  Typed'
  <2>1. pc' \in [Requests -> {"idle", "count", "clear", "commit"}] /\ CallsTyped'
    BY <1>2 DEF Begin, Typed, TypeOK, CallsTyped, Busy
  <2> QED
    BY <1>2, <2>1 DEF Begin, Typed, TypeOK, tables, Stages, Pipelines, LiveLeads
<1> QED BY <1>1, <1>2

\* What r holds at its statement.
LEMMA CallOf ==
  ASSUME Typed, NEW r \in Requests, Busy(r)
  PROVE  /\ call[r].op = "CREATE_STAGE" => call[r] \in CreateStageCall
         /\ call[r].op = "RENAME_STAGE" => call[r] \in RenameStageCall
         /\ call[r].op = "REORDER" => call[r] \in ReorderCall
         /\ call[r].op = "REMOVE_STAGE" => call[r] \in RemoveStageCall
         /\ call[r].op = "CREATE_PIPELINE" => call[r] \in CreatePipelineCall
         /\ call[r].op = "RENAME_PIPELINE" => call[r] \in RenamePipelineCall
         /\ call[r].op = "SET_DEFAULT" => call[r] \in SetDefaultCall
         /\ call[r].op = "REMOVE_PIPELINE" => call[r] \in RemovePipelineCall
         /\ call[r].op = "MOVE_LEAD" => call[r] \in MoveLeadCall
         /\ call[r].op = "CREATE_LEAD" => call[r] \in CreateLeadCall
         /\ call[r].op = "SET_GRANTS" => call[r] \in SetGrantsCall
<1>1. call[r] \in Call
  BY DEF Typed, CallsTyped
<1>2. \A c \in CreateStageCall : c.op = "CREATE_STAGE"
  BY DEF CreateStageCall
<1>3. \A c \in RenameStageCall : c.op = "RENAME_STAGE"
  BY DEF RenameStageCall
<1>4. \A c \in ReorderCall : c.op = "REORDER"
  BY DEF ReorderCall
<1>5. \A c \in RemoveStageCall : c.op = "REMOVE_STAGE"
  BY DEF RemoveStageCall
<1>6. \A c \in CreatePipelineCall : c.op = "CREATE_PIPELINE"
  BY DEF CreatePipelineCall
<1>7. \A c \in RenamePipelineCall : c.op = "RENAME_PIPELINE"
  BY DEF RenamePipelineCall
<1>8. \A c \in SetDefaultCall : c.op = "SET_DEFAULT"
  BY DEF SetDefaultCall
<1>9. \A c \in RemovePipelineCall : c.op = "REMOVE_PIPELINE"
  BY DEF RemovePipelineCall
<1>10. \A c \in MoveLeadCall : c.op = "MOVE_LEAD"
  BY DEF MoveLeadCall
<1>11. \A c \in CreateLeadCall : c.op = "CREATE_LEAD"
  BY DEF CreateLeadCall
<1>12. \A c \in SetGrantsCall : c.op = "SET_GRANTS"
  BY DEF SetGrantsCall
<1> QED
  BY <1>1, <1>2, <1>3, <1>4, <1>5, <1>6, <1>7, <1>8, <1>9, <1>10, <1>11, <1>12 DEF Call

\* A request that passes its checks holds a call of its operation.
LEMMA CheckTyped ==
  ASSUME Typed, NEW r \in Requests, Check(r)
  PROVE  Typed'
<1> USE DEF Typed
<1>1. ASSUME CheckCreateStage(r) PROVE Typed'
  <2>1. PICK b \in Boards, n \in Names \ Reserved, s \in StageIds :
          Begin(r, "CREATE_STAGE",
                [op |-> "CREATE_STAGE", id |-> s, board |-> b, name |-> n,
                 position |-> 1 + Max({-1} \cup {stage[t].position : t \in On(b)})], "commit")
    BY <1>1 DEF CheckCreateStage
  <2> DEFINE places == {-1} \cup {stage[t].position : t \in On(b)}
             c == [op |-> "CREATE_STAGE", id |-> s, board |-> b, name |-> n,
                   position |-> 1 + Max(places)]
  <2>2. IsFiniteSet(places) /\ places \subseteq Int /\ places # {}
    <3>1. IsFiniteSet(On(b)) /\ On(b) \subseteq StageIds
      BY Sizes, FS_Subset DEF On, Stages
    <3>2. \A t \in On(b) : stage[t].position \in Nat
      BY <3>1 DEF TypeOK, StageRow
    <3> DEFINE held == {stage[t].position : t \in On(b)}
    <3>3. [t \in On(b) |-> stage[t].position] \in Surjection(On(b), held)
      BY DEF Surjection
    <3>4. IsFiniteSet(held)
      BY <3>1, <3>3, FS_Surjection
    <3>5. IsFiniteSet(held \cup {-1})
      BY <3>4, FS_AddElement
    <3>6. places = held \cup {-1} /\ held \subseteq Int
      BY <3>2
    <3> HIDE DEF held, places
    <3> QED BY <3>5, <3>6
  <2>3. Max(places) \in Int /\ -1 <= Max(places)
    BY <2>2, MaxOfSet
  <2>4. 1 + Max(places) \in Nat
    BY <2>3
  <2>5. c \in CreateStageCall
    BY <2>4 DEF CreateStageCall
  <2> QED BY <2>1, <2>5, RequestTyped DEF Call
<1>2. ASSUME CheckRenameStage(r) PROVE Typed'
  <2>1. PICK s \in Stages, n \in Names :
          /\ ~Guarded(n)
          /\ Begin(r, "RENAME_STAGE",
                   [op |-> "RENAME_STAGE", id |-> s, board |-> stage[s].board,
                    old |-> stage[s].name, name |-> n], "commit")
    BY <1>2 DEF CheckRenameStage
  <2>2. [op |-> "RENAME_STAGE", id |-> s, board |-> stage[s].board, old |-> stage[s].name,
         name |-> n] \in RenameStageCall
    BY <2>1 DEF RenameStageCall, Guarded, TypeOK, Stages, StageRow
  <2> QED BY <2>1, <2>2, RequestTyped DEF Call
<1>3. ASSUME CheckReorder(r) PROVE Typed'
  <2>1. PICK b \in Boards : \E T \in SUBSET On(b) : \E f \in Orders(T) :
          Begin(r, "REORDER", [op |-> "REORDER", board |-> b, order |-> f], "commit")
    BY <1>3 DEF CheckReorder
  <2>5. PICK T \in SUBSET On(b) : \E f \in Orders(T) :
          Begin(r, "REORDER", [op |-> "REORDER", board |-> b, order |-> f], "commit")
    BY <2>1
  <2>6. PICK f \in Orders(T) :
          Begin(r, "REORDER", [op |-> "REORDER", board |-> b, order |-> f], "commit")
    BY <2>5
  <2>2. IsFiniteSet(T) /\ T \in SUBSET StageIds
    BY Sizes, FS_Subset DEF On, Stages
  <2>3. f \in [T -> Nat]
    BY <2>2, FS_CardinalityType DEF Orders
  <2>4. [op |-> "REORDER", board |-> b, order |-> f] \in ReorderCall
    BY <2>2, <2>3 DEF ReorderCall
  <2> QED BY <2>4, <2>6, RequestTyped DEF Call
<1>4. ASSUME CheckRemoveStage(r) PROVE Typed'
  <2>1. PICK s \in Stages :
          Begin(r, "REMOVE_STAGE",
                [op |-> "REMOVE_STAGE", id |-> s, board |-> stage[s].board,
                 name |-> stage[s].name], "count")
    BY <1>4 DEF CheckRemoveStage
  <2>2. [op |-> "REMOVE_STAGE", id |-> s, board |-> stage[s].board, name |-> stage[s].name]
          \in RemoveStageCall
    BY DEF RemoveStageCall, TypeOK, Stages, StageRow
  <2> QED BY <2>1, <2>2, RequestTyped DEF Call
<1>5. ASSUME CheckCreatePipeline(r) PROVE Typed'
  <2>1. PICK p \in PipelineIds, b \in Boards :
          Begin(r, "CREATE_PIPELINE",
                [op |-> "CREATE_PIPELINE", id |-> p, name |-> b, isDefault |-> Pipelines = {}],
                "commit")
    BY <1>5 DEF CheckCreatePipeline
  <2>2. [op |-> "CREATE_PIPELINE", id |-> p, name |-> b, isDefault |-> Pipelines = {}]
          \in CreatePipelineCall
    BY DEF CreatePipelineCall
  <2> QED BY <2>1, <2>2, RequestTyped DEF Call
<1>6. ASSUME CheckRenamePipeline(r) PROVE Typed'
  <2>1. PICK p \in Pipelines, b \in Boards :
          Begin(r, "RENAME_PIPELINE",
             [op |-> "RENAME_PIPELINE", id |-> p, old |-> pipeline[p].name, name |-> b,
              holders |-> [u \in {v \in Users : pipeline[p].name \in grants[v]} |-> grants[u]]],
             "commit")
    BY <1>6 DEF CheckRenamePipeline
  <2> DEFINE U == {v \in Users : pipeline[p].name \in grants[v]}
  <2>2. [u \in U |-> grants[u]] \in [U -> SUBSET Boards] /\ U \in SUBSET Users
    BY DEF TypeOK
  <2>3. pipeline[p].name \in Boards /\ p \in PipelineIds
    BY DEF TypeOK, Pipelines, PipelineRow
  <2>4. [op |-> "RENAME_PIPELINE", id |-> p, old |-> pipeline[p].name, name |-> b,
         holders |-> [u \in U |-> grants[u]]] \in RenamePipelineCall
    BY <2>2, <2>3 DEF RenamePipelineCall
  <2> QED BY <2>1, <2>4, RequestTyped DEF Call
<1>7. ASSUME CheckSetDefault(r) PROVE Typed'
  <2>1. PICK p \in Pipelines :
          Begin(r, "SET_DEFAULT", [op |-> "SET_DEFAULT", id |-> p, clears |-> Defaults \ {p}],
                "clear")
    BY <1>7 DEF CheckSetDefault
  <2>2. [op |-> "SET_DEFAULT", id |-> p, clears |-> Defaults \ {p}] \in SetDefaultCall
    BY DEF SetDefaultCall, Defaults, Pipelines
  <2> QED BY <2>1, <2>2, RequestTyped DEF Call
<1>8. ASSUME CheckRemovePipeline(r) PROVE Typed'
  <2>1. PICK p \in Pipelines :
          Begin(r, "REMOVE_PIPELINE",
                [op |-> "REMOVE_PIPELINE", id |-> p, name |-> pipeline[p].name], "count")
    BY <1>8 DEF CheckRemovePipeline
  <2>2. [op |-> "REMOVE_PIPELINE", id |-> p, name |-> pipeline[p].name] \in RemovePipelineCall
    BY DEF RemovePipelineCall, TypeOK, Pipelines, PipelineRow
  <2> QED BY <2>1, <2>2, RequestTyped DEF Call
<1>9. ASSUME CheckMoveLead(r) \/ CheckEditLead(r) \/ CheckChangePipeline(r) PROVE Typed'
  <2>1. PICK l \in LiveLeads, both \in BOOLEAN, b \in Boards, n \in Names \ Reserved,
             kept \in BOOLEAN :
          \E op : Begin(r, op, PutOn(l, both, b, n, kept), "commit")
    <3>1. CASE CheckMoveLead(r)
      BY <3>1 DEF CheckMoveLead, LiveLeads, TypeOK, LeadRow
    <3>2. CASE CheckEditLead(r)
      BY <3>2 DEF CheckEditLead
    <3>3. CASE CheckChangePipeline(r)
      <4>1. PICK l \in LiveLeads, b \in Boards : \E s \in First(b) :
              /\ stage[s].name \notin Reserved
              /\ Begin(r, "CHANGE_PIPELINE", PutOn(l, TRUE, b, stage[s].name, FALSE), "commit")
        BY <3>3 DEF CheckChangePipeline
      <4>2. \A s \in First(b) : stage[s].name \in Names
        BY DEF First, On, Stages, TypeOK, StageRow
      <4> QED BY <4>1, <4>2
    <3> QED BY <1>9, <3>1, <3>2, <3>3
  <2>2. PutOn(l, both, b, n, kept) \in MoveLeadCall
    BY DEF PutOn, MoveLeadCall, LiveLeads
  <2> QED BY <2>1, <2>2, RequestTyped DEF Call
<1>10. ASSUME CheckCreateLead(r) PROVE Typed'
  <2>1. PICK b \in Boards, n \in Names \ Reserved, l \in Leads :
          Begin(r, "CREATE_LEAD", [op |-> "CREATE_LEAD", id |-> l, board |-> b, name |-> n],
                "commit")
    BY <1>10 DEF CheckCreateLead
  <2>2. [op |-> "CREATE_LEAD", id |-> l, board |-> b, name |-> n] \in CreateLeadCall
    BY DEF CreateLeadCall
  <2> QED BY <2>1, <2>2, RequestTyped DEF Call
<1>11. ASSUME CheckGrants(r) PROVE Typed'
  <2>1. PICK u \in Users, B \in SUBSET BoardNames :
          Begin(r, "SET_GRANTS", [op |-> "SET_GRANTS", id |-> u, boards |-> B], "commit")
    BY <1>11 DEF CheckGrants
  <2>2. B \in SUBSET Boards
    BY DEF BoardNames, Pipelines, TypeOK, PipelineRow
  <2>3. [op |-> "SET_GRANTS", id |-> u, boards |-> B] \in SetGrantsCall
    BY <2>2 DEF SetGrantsCall
  <2> QED BY <2>1, <2>3, RequestTyped DEF Call
<1> QED BY <1>1, <1>2, <1>3, <1>4, <1>5, <1>6, <1>7, <1>8, <1>9, <1>10, <1>11 DEF Check

\* A request that ends without a write leaves the rows alone.
LEMMA RefuseTyped ==
  ASSUME Typed, NEW r \in Requests, Refuse(r)
  PROVE  Typed'
BY RequestTyped DEF Refuse, tables, Typed, TypeOK, Stages, Pipelines, LiveLeads

\* What a request writes has the types of the columns.
LEMMA WriteTyped ==
  ASSUME Typed, NEW r \in Requests, Write(r)
  PROVE  Typed'
<1> DEFINE StagesOK == /\ stage \in [StageIds -> StageRow]
                       /\ \A s \in Stages : None \notin {stage[s].board, stage[s].name}
           PipelinesOK == /\ pipeline \in [PipelineIds -> PipelineRow]
                          /\ \A p \in Pipelines : pipeline[p].name # None
           LeadsOK == /\ lead \in [Leads -> LeadRow]
                      /\ \A l \in LiveLeads : None \notin {lead[l].board, lead[l].status}
           GrantsOK == grants \in [Users -> SUBSET Boards]
<1>1. StagesOK /\ PipelinesOK /\ LeadsOK /\ GrantsOK
  BY DEF Typed, TypeOK
<1>2. ASSUME StagesOK', PipelinesOK', LeadsOK', GrantsOK', End(r) PROVE Typed'
  BY <1>2, RequestTyped DEF Typed, TypeOK
<1>3. stage' = stage => StagesOK'
  BY <1>1 DEF Stages
<1>4. pipeline' = pipeline => PipelinesOK'
  BY <1>1 DEF Pipelines
<1>5. lead' = lead => LeadsOK'
  BY <1>1 DEF LiveLeads
<1>6. grants' = grants => GrantsOK'
  BY <1>1
<1> HIDE DEF StagesOK, PipelinesOK, LeadsOK, GrantsOK
<1> DEFINE c == call[r]
<1>7. CASE CreateStage(r)
  <2>1. c \in CreateStageCall
    BY <1>7, CallOf DEF CreateStage, At, Busy
  <2>2. CASE Refuse(r)
    BY <2>2, RefuseTyped
  <2>3. CASE ~Refuse(r)
    <3>1. /\ stage' = [stage EXCEPT ![c.id] = [is |-> "live", board |-> c.board,
                                               name |-> c.name, position |-> c.position]]
          /\ UNCHANGED <<pipeline, lead, grants>> /\ End(r)
      BY <1>7, <2>3 DEF CreateStage
    <3>2. StagesOK'
      BY <1>1, <2>1, <3>1, NoneIsNoName
         DEF StagesOK, CreateStageCall, StageRow, Life, Stages, Live
    <3> QED BY <1>2, <1>4, <1>5, <1>6, <3>1, <3>2
  <2> QED BY <2>2, <2>3
<1>8. CASE RenameStage(r)
  <2>1. c \in RenameStageCall
    BY <1>8, CallOf DEF RenameStage, At, Busy
  <2>2. CASE Refuse(r)
    BY <2>2, RefuseTyped
  <2>3. CASE ~Refuse(r)
    <3>1. /\ stage' = [stage EXCEPT ![c.id].name = c.name]
          /\ lead' = Relabelled(c)
          /\ UNCHANGED <<pipeline, grants>> /\ End(r)
      BY <1>8, <2>3 DEF RenameStage
    <3>2. StagesOK'
      BY <1>1, <2>1, <3>1, NoneIsNoName DEF StagesOK, RenameStageCall, StageRow, Stages, Live
    <3>3. LeadsOK'
      BY <1>1, <2>1, <3>1, NoneIsNoName
         DEF LeadsOK, RenameStageCall, LeadRow, LiveLeads, Live, Relabelled, In
    <3> QED BY <1>2, <1>4, <1>6, <3>1, <3>2, <3>3
  <2> QED BY <2>2, <2>3
<1>9. CASE Reorder(r)
  <2>1. c \in ReorderCall
    BY <1>9, CallOf DEF Reorder, At, Busy
  <2>2. CASE Refuse(r)
    BY <2>2, RefuseTyped
  <2>3. CASE ~Refuse(r)
    <3>1. /\ stage' = [s \in StageIds |-> IF s \in DOMAIN c.order
                                          THEN [stage[s] EXCEPT !.position = c.order[s]]
                                          ELSE stage[s]]
          /\ UNCHANGED <<pipeline, lead, grants>> /\ End(r)
      BY <1>9, <2>3 DEF Reorder
    <3>2. \A s \in DOMAIN c.order : c.order[s] \in Nat
      BY <2>1 DEF ReorderCall
    <3>3. StagesOK'
      BY <1>1, <3>1, <3>2 DEF StagesOK, StageRow, Stages, Live
    <3> QED BY <1>2, <1>4, <1>5, <1>6, <3>1, <3>3
  <2> QED BY <2>2, <2>3
<1>10. CASE RemoveStage(r)
  <2>2. CASE Refuse(r)
    BY <2>2, RefuseTyped
  <2>3. CASE ~Refuse(r)
    <3>1. /\ stage' = [stage EXCEPT ![c.id].is = "gone"]
          /\ UNCHANGED <<pipeline, lead, grants>> /\ End(r)
      BY <1>10, <2>3 DEF RemoveStage
    <3>2. StagesOK'
      BY <1>1, <3>1 DEF StagesOK, StageRow, Life, Stages, Live
    <3> QED BY <1>2, <1>4, <1>5, <1>6, <3>1, <3>2
  <2> QED BY <2>2, <2>3
<1>11. CASE CreatePipeline(r)
  <2>1. c \in CreatePipelineCall
    BY <1>11, CallOf DEF CreatePipeline, At, Busy
  <2>2. CASE Refuse(r)
    BY <2>2, RefuseTyped
  <2>3. CASE ~Refuse(r)
    <3>1. /\ pipeline' = [pipeline EXCEPT ![c.id] = [is |-> "live", name |-> c.name,
                                                     isDefault |-> c.isDefault]]
          /\ UNCHANGED <<stage, lead, grants>> /\ End(r)
      BY <1>11, <2>3 DEF CreatePipeline
    <3>2. PipelinesOK'
      BY <1>1, <2>1, <3>1, NoneIsNoName
         DEF PipelinesOK, CreatePipelineCall, PipelineRow, Life, Pipelines, Live
    <3> QED BY <1>2, <1>3, <1>5, <1>6, <3>1, <3>2
  <2> QED BY <2>2, <2>3
<1>12. CASE RenamePipeline(r)
  <2>1. c \in RenamePipelineCall
    BY <1>12, CallOf DEF RenamePipeline, At, Busy
  <2>2. CASE Refuse(r)
    BY <2>2, RefuseTyped
  <2>3. CASE ~Refuse(r)
    <3>1. /\ pipeline' = [pipeline EXCEPT ![c.id].name = c.name]
          /\ lead' = Moved(lead, c.old, c.name)
          /\ stage' = Moved(stage, c.old, c.name)
          /\ grants' = [u \in Users |->
                          IF u \in DOMAIN c.holders
                          THEN (c.holders[u] \ {c.old}) \cup {c.name} ELSE grants[u]]
          /\ End(r)
      BY <1>12, <2>3 DEF RenamePipeline, LeadsMoved
    <3>2. PipelinesOK'
      BY <1>1, <2>1, <3>1, NoneIsNoName
         DEF PipelinesOK, RenamePipelineCall, PipelineRow, Pipelines, Live
    <3>3. StagesOK'
      BY <1>1, <2>1, <3>1, NoneIsNoName
         DEF StagesOK, RenamePipelineCall, StageRow, Stages, Live, Moved
    <3>4. LeadsOK'
      BY <1>1, <2>1, <3>1, NoneIsNoName
         DEF LeadsOK, RenamePipelineCall, LeadRow, LiveLeads, Live, Moved
    <3>5. \A u \in DOMAIN c.holders : c.holders[u] \in SUBSET Boards
      BY <2>1 DEF RenamePipelineCall
    <3>6. c.name \in Boards
      BY <2>1 DEF RenamePipelineCall
    <3>7. GrantsOK'
      BY <1>1, <3>1, <3>5, <3>6 DEF GrantsOK
    <3> QED BY <1>2, <3>1, <3>2, <3>3, <3>4, <3>7
  <2> QED BY <2>2, <2>3
<1>13. CASE SetDefault(r)
  <2>2. CASE Refuse(r)
    BY <2>2, RefuseTyped
  <2>3. CASE ~Refuse(r)
    <3>1. /\ pipeline' = [p \in PipelineIds |->
                            IF p = c.id THEN [pipeline[p] EXCEPT !.isDefault = TRUE]
                            ELSE IF p \in Cleared(c)
                            THEN [pipeline[p] EXCEPT !.isDefault = FALSE]
                            ELSE pipeline[p]]
          /\ UNCHANGED <<stage, lead, grants>> /\ End(r)
      BY <1>13, <2>3 DEF SetDefault
    <3>2. PipelinesOK'
      BY <1>1, <3>1 DEF PipelinesOK, PipelineRow, Pipelines, Live
    <3> QED BY <1>2, <1>3, <1>5, <1>6, <3>1, <3>2
  <2> QED BY <2>2, <2>3
<1>14. CASE RemovePipeline(r)
  <2>2. CASE Refuse(r)
    BY <2>2, RefuseTyped
  <2>3. CASE ~Refuse(r)
    <3>1. /\ pipeline' = [pipeline EXCEPT ![c.id].is = "gone"]
          /\ stage' = [s \in StageIds |-> IF s \in On(c.name)
                                          THEN [stage[s] EXCEPT !.is = "gone"] ELSE stage[s]]
          /\ UNCHANGED <<lead, grants>> /\ End(r)
      BY <1>14, <2>3 DEF RemovePipeline
    <3>2. PipelinesOK'
      BY <1>1, <3>1 DEF PipelinesOK, PipelineRow, Life, Pipelines, Live
    <3>3. StagesOK'
      BY <1>1, <3>1 DEF StagesOK, StageRow, Life, Stages, Live
    <3> QED BY <1>2, <1>5, <1>6, <3>1, <3>2, <3>3
  <2> QED BY <2>2, <2>3
<1>15. CASE MoveLead(r)
  <2>1. c \in MoveLeadCall
    BY <1>15, CallOf DEF MoveLead, At, Busy
  <2>2. LeadsOK'
    BY <1>1, <1>15, <2>1, NoneIsNoName DEF MoveLead, LeadsOK, MoveLeadCall, LeadRow, LiveLeads, Live
  <2> QED BY <1>2, <1>3, <1>4, <1>6, <1>15, <2>2 DEF MoveLead
<1>16. CASE CreateLead(r)
  <2>1. c \in CreateLeadCall
    BY <1>16, CallOf DEF CreateLead, At, Busy
  <2>2. LeadsOK'
    BY <1>1, <1>16, <2>1, NoneIsNoName
       DEF CreateLead, LeadsOK, CreateLeadCall, LeadRow, Life, LiveLeads, Live
  <2> QED BY <1>2, <1>3, <1>4, <1>6, <1>16, <2>2 DEF CreateLead
<1>17. CASE SetGrants(r)
  <2>1. c \in SetGrantsCall
    BY <1>17, CallOf DEF SetGrants, At, Busy
  <2>2. GrantsOK'
    BY <1>1, <1>17, <2>1 DEF SetGrants, GrantsOK, SetGrantsCall
  <2> QED BY <1>2, <1>3, <1>4, <1>5, <1>17, <2>2 DEF SetGrants
<1> QED
  BY <1>7, <1>8, <1>9, <1>10, <1>11, <1>12, <1>13, <1>14, <1>15, <1>16, <1>17 DEF Write

\* Whatever requests meet.
LEMMA TypedStep ==
  ASSUME Typed, [Next]_vars
  PROVE  Typed'
<1>1. ASSUME NEW r \in Requests, CountInStage(r) \/ CountOnPipeline(r)
      PROVE  Typed'
  <2>1. CASE Refuse(r)
    BY <2>1, RefuseTyped
  <2>2. CASE ~Refuse(r)
    <3>1. pc' = [pc EXCEPT ![r] = "commit"] /\ UNCHANGED <<tables, call, rowLock>>
      BY <1>1, <2>2 DEF CountInStage, CountOnPipeline
    <3>2. pc[r] = "count"
      BY <1>1 DEF CountInStage, CountOnPipeline, At
    <3> QED
      BY <3>1, <3>2 DEF Typed, TypeOK, tables, CallsTyped, Busy, Stages, Pipelines, LiveLeads
  <2> QED BY <2>1, <2>2
<1>2. ASSUME NEW r \in Requests, ClearDefaults(r)
      PROVE  Typed'
  <2>1. call[r] \in SetDefaultCall /\ Busy(r)
    BY <1>2, CallOf DEF ClearDefaults, At, Busy
  <2>2. [call[r] EXCEPT !.clears = call[r].clears \cap Defaults] \in SetDefaultCall
    BY <2>1 DEF SetDefaultCall
  <2>3. CallsTyped'
    BY <1>2, <2>1, <2>2 DEF ClearDefaults, Typed, TypeOK, CallsTyped, Busy, Call
  <2> QED
    BY <1>2, <2>3 DEF ClearDefaults, Typed, TypeOK, tables, Stages, Pipelines, LiveLeads
<1>3. ASSUME UNCHANGED vars PROVE Typed'
  BY <1>3 DEF vars, Typed, TypeOK, CallsTyped, Busy, Stages, Pipelines, LiveLeads
<1> QED
  BY <1>1, <1>2, <1>3, CheckTyped, WriteTyped, RefuseTyped DEF Next, Crash

LEMMA InitTyped == Init => Typed
<1> SUFFICES ASSUME Init PROVE Typed
  OBVIOUS
<1>1. stage \in [StageIds -> StageRow] /\ \A s \in Stages : None \notin {stage[s].board, stage[s].name}
  <2>1. \A s \in StageIds : stage[s] \in StageRow
    <3>1. IsFiniteSet(StageIds)
      BY Sizes
    <3>2. \A i \in 0..Cardinality(StageIds) - 1 : i \in Nat
      BY <3>1, FS_CardinalityType
    <3>3. NoStage \in StageRow
      BY DEF NoStage, StageRow, Life
    <3>4. [is: {"live"}, board: Boards, name: Names, position: 0..Cardinality(StageIds) - 1]
            \subseteq StageRow
      BY <3>2 DEF StageRow, Life
    <3> QED BY <3>3, <3>4 DEF Init
  <2>2. \A s \in Stages : stage[s].board \in Boards /\ stage[s].name \in Names
    BY DEF Init, Stages, Live, NoStage
  <2> QED BY <2>1, <2>2, NoneIsNoName DEF Init
<1>2. pipeline \in [PipelineIds -> PipelineRow] /\ \A p \in Pipelines : pipeline[p].name # None
  <2>1. pipeline \in [PipelineIds -> PipelineRow]
    <3>1. NoPipeline \in PipelineRow
      BY DEF NoPipeline, PipelineRow, Life
    <3>2. [is: {"live"}, name: Boards, isDefault: BOOLEAN] \subseteq PipelineRow
      BY DEF PipelineRow, Life
    <3> QED BY <3>1, <3>2 DEF Init
  <2>2. \A p \in Pipelines : pipeline[p].name \in Boards
    BY DEF Init, Pipelines, Live, NoPipeline
  <2> QED BY <2>1, <2>2, NoneIsNoName
<1>3. lead \in [Leads -> LeadRow] /\ \A l \in LiveLeads : None \notin {lead[l].board, lead[l].status}
  BY NoneIsNoName DEF Init, NoLead, LeadRow, Life, LiveLeads, Live
<1>4. grants \in [Users -> SUBSET Boards]
  <2>1. BoardNames \subseteq Boards
    BY <1>2 DEF BoardNames, Init, NoPipeline, Pipelines, Live
  <2> QED BY <2>1 DEF Init
<1> QED BY <1>1, <1>2, <1>3, <1>4 DEF Init, Typed, TypeOK, CallsTyped, Busy

-----------------------------------------------------------------------------
(* Renames of stages. *)

\* What a request holds when its checks have passed.
Taken(r) ==
  \E c, w :
    /\ w \in {"count", "clear", "commit"}
    /\ call' = [call EXCEPT ![r] = c] /\ pc' = [pc EXCEPT ![r] = w]
    /\ Standing(c) /\ Fits(c)
    /\ w = "commit" => c.op \notin {"REMOVE_STAGE", "REMOVE_PIPELINE"}
    /\ c.op = "CREATE_STAGE" =>
         \A q \in Requests : Busy(q) /\ call[q].op = "CREATE_STAGE" => call[q].id # c.id

LEMMA Begun ==
  ASSUME Typed, NEW r \in Requests, Check(r)
  PROVE  UNCHANGED <<tables, rowLock>> /\ pc[r] = "idle" /\ Taken(r)
<1>0. ASSUME NEW op, NEW c, NEW w \in {"count", "clear", "commit"}, Begin(r, op, c, w),
             Standing(c), Fits(c),
             w = "commit" => c.op \notin {"REMOVE_STAGE", "REMOVE_PIPELINE"},
             c.op = "CREATE_STAGE" =>
               \A q \in Requests : Busy(q) /\ call[q].op = "CREATE_STAGE" => call[q].id # c.id
      PROVE  UNCHANGED <<tables, rowLock>> /\ Taken(r)
  BY <1>0 DEF Begin, Taken
<1> USE DEF Standing, Fits
<1>1. CASE CheckCreateStage(r)
  <2>1. PICK b \in Boards, n \in Names \ Reserved, s \in StageIds :
          /\ ~\E q \in Requests : pc[q] # "idle" /\ call[q].op = "CREATE_STAGE" /\ call[q].id = s
          /\ stage[s].is = "unused"
          /\ Begin(r, "CREATE_STAGE",
                [op |-> "CREATE_STAGE", id |-> s, board |-> b, name |-> n,
                 position |-> 1 + Max({-1} \cup {stage[t].position : t \in On(b)})], "commit")
    BY <1>1 DEF CheckCreateStage
  <2> QED BY <1>0, <1>1, <2>1 DEF Busy, CheckCreateStage, Idle
<1>2. CASE CheckRenameStage(r)
  <2>1. PICK s \in Stages, n \in Names :
          /\ ~Guarded(stage[s].name)
          /\ Begin(r, "RENAME_STAGE",
                   [op |-> "RENAME_STAGE", id |-> s, board |-> stage[s].board,
                    old |-> stage[s].name, name |-> n], "commit")
    BY <1>2 DEF CheckRenameStage
  <2> QED BY <1>0, <1>2, <2>1 DEF Guarded, CheckRenameStage, Idle
<1>3. CASE CheckReorder(r)
  <2>1. PICK b \in Boards : \E T \in SUBSET On(b) : \E f \in Orders(T) :
          WholeOrder(b, f) /\ Begin(r, "REORDER", [op |-> "REORDER", board |-> b, order |-> f], "commit")
    BY <1>3 DEF CheckReorder
  <2>2. PICK T \in SUBSET On(b) : \E f \in Orders(T) :
          WholeOrder(b, f) /\ Begin(r, "REORDER", [op |-> "REORDER", board |-> b, order |-> f], "commit")
    BY <2>1
  <2>3. PICK f \in Orders(T) :
          WholeOrder(b, f) /\ Begin(r, "REORDER", [op |-> "REORDER", board |-> b, order |-> f], "commit")
    BY <2>2
  <2>4. Whole(f)
    BY <2>3 DEF Whole, Orders, WholeOrder, On
  <2> QED BY <1>0, <1>3, <2>3, <2>4 DEF CheckReorder, Idle
<1>4. CASE CheckRemoveStage(r)
  <2>1. PICK s \in Stages :
          /\ ~Guarded(stage[s].name)
          /\ Begin(r, "REMOVE_STAGE",
                [op |-> "REMOVE_STAGE", id |-> s, board |-> stage[s].board,
                 name |-> stage[s].name], "count")
    BY <1>4 DEF CheckRemoveStage
  <2> QED BY <1>0, <1>4, <2>1 DEF Guarded, CheckRemoveStage, Idle
<1>5. CASE CheckCreatePipeline(r)
  <2>1. PICK p \in PipelineIds, b \in Boards :
          /\ pipeline[p].is = "unused"
          /\ Begin(r, "CREATE_PIPELINE",
                [op |-> "CREATE_PIPELINE", id |-> p, name |-> b, isDefault |-> Pipelines = {}],
                "commit")
    BY <1>5 DEF CheckCreatePipeline
  <2> QED BY <1>0, <1>5, <2>1 DEF CheckCreatePipeline, Idle
<1>6. CASE CheckRenamePipeline(r)
  <2>1. PICK p \in Pipelines, b \in Boards \ BoardNames :
          Begin(r, "RENAME_PIPELINE",
             [op |-> "RENAME_PIPELINE", id |-> p, old |-> pipeline[p].name, name |-> b,
              holders |-> [u \in {v \in Users : pipeline[p].name \in grants[v]} |-> grants[u]]],
             "commit")
    BY <1>6 DEF CheckRenamePipeline
  <2> QED BY <1>0, <1>6, <2>1 DEF CheckRenamePipeline, Idle
<1>7. CASE CheckSetDefault(r)
  <2>1. PICK p \in Pipelines :
          Begin(r, "SET_DEFAULT", [op |-> "SET_DEFAULT", id |-> p, clears |-> Defaults \ {p}],
                "clear")
    BY <1>7 DEF CheckSetDefault
  <2> QED BY <1>0, <1>7, <2>1 DEF CheckSetDefault, Idle
<1>8. CASE CheckRemovePipeline(r)
  <2>1. PICK p \in Pipelines \ Defaults :
          Begin(r, "REMOVE_PIPELINE",
                [op |-> "REMOVE_PIPELINE", id |-> p, name |-> pipeline[p].name], "count")
    BY <1>8 DEF CheckRemovePipeline
  <2> QED BY <1>0, <1>8, <2>1 DEF CheckRemovePipeline, Idle
<1>9. CASE CheckMoveLead(r)
  <2>1. PICK l \in LiveLeads, n \in Names \ Reserved :
          /\ lead[l].status \notin Reserved /\ Column(lead[l].board, n)
          /\ Begin(r, "MOVE_LEAD", PutOn(l, FALSE, lead[l].board, n, FALSE), "commit")
    BY <1>9 DEF CheckMoveLead
  <2> QED BY <1>0, <1>9, <2>1 DEF CheckMoveLead, Idle, PutOn, Landing, LiveLeads
<1>10. CASE CheckEditLead(r)
  <2> DEFINE same(l, b, n) == b = lead[l].board /\ n = lead[l].status
  <2>1. PICK l \in LiveLeads, b \in Boards, n \in Names :
          /\ lead[l].status \notin Reserved
          /\ same(l, b, n) \/ (n \notin Reserved /\ StageOf(b, n))
          /\ Begin(r, "EDIT_LEAD", PutOn(l, TRUE, b, n, same(l, b, n)), "commit")
    BY <1>10 DEF CheckEditLead
  <2> DEFINE c == PutOn(l, TRUE, b, n, same(l, b, n))
  <2>2. /\ c.op = "MOVE_LEAD" /\ c.id = l /\ c.both /\ c.board = b /\ c.name = n
        /\ c.kept = same(l, b, n)
    BY DEF PutOn
  <2>3. Begin(r, "EDIT_LEAD", c, "commit")
    BY <2>1
  <2> HIDE DEF c
  <2>4. Standing(c)
    BY <2>1, <2>2 DEF LiveLeads
  <2>5. Landing(c)
    BY <2>1, <2>2 DEF Landing, StageOf
  <2>6. Fits(c)
    BY <2>2, <2>5
  <2> QED BY <1>0, <1>10, <2>2, <2>3, <2>4, <2>6 DEF CheckEditLead, Idle
<1>11. CASE CheckChangePipeline(r)
  <2>1. PICK l \in LiveLeads, b \in Boards : \E s \in First(b) :
          /\ {lead[l].status, stage[s].name} \cap Reserved = {}
          /\ Begin(r, "CHANGE_PIPELINE", PutOn(l, TRUE, b, stage[s].name, FALSE), "commit")
    BY <1>11 DEF CheckChangePipeline
  <2>2. PICK s \in First(b) :
          /\ {lead[l].status, stage[s].name} \cap Reserved = {}
          /\ Begin(r, "CHANGE_PIPELINE", PutOn(l, TRUE, b, stage[s].name, FALSE), "commit")
    BY <2>1
  <2>3. Column(b, stage[s].name)
    BY DEF First, Column
  <2> QED BY <1>0, <1>11, <2>2, <2>3 DEF CheckChangePipeline, Idle, PutOn, Landing, LiveLeads
<1>12. CASE CheckCreateLead(r)
  <2>1. PICK b \in Boards, n \in Names \ Reserved, l \in Leads :
          /\ StageOf(b, n) /\ lead[l].is = "unused"
          /\ Begin(r, "CREATE_LEAD",
                [op |-> "CREATE_LEAD", id |-> l, board |-> b, name |-> n], "commit")
    BY <1>12 DEF CheckCreateLead
  <2> QED BY <1>0, <1>12, <2>1 DEF CheckCreateLead, Idle, StageOf
<1>13. CASE CheckGrants(r)
  <2>1. PICK u \in Users, B \in SUBSET BoardNames :
          Begin(r, "SET_GRANTS", [op |-> "SET_GRANTS", id |-> u, boards |-> B], "commit")
    BY <1>13 DEF CheckGrants
  <2> QED BY <1>0, <1>13, <2>1 DEF CheckGrants, Idle
<1> QED
  BY <1>1, <1>2, <1>3, <1>4, <1>5, <1>6, <1>7, <1>8, <1>9, <1>10, <1>11, <1>12, <1>13 DEF Check

\* A row is filled by the request that creates its stage, and by no other.
LEMMA UnfilledStay ==
  ASSUME Typed, NEW r \in Requests, Write(r), NEW s \in StageIds, stage[s].is = "unused"
  PROVE  \/ stage'[s].is = "unused"
         \/ At(r, "commit", "CREATE_STAGE") /\ s = call[r].id
<1>1. stage \in [StageIds -> StageRow]
  BY DEF Typed, TypeOK
<1>2. s \notin Stages
  BY DEF Stages, Live
<1>3. CASE UNCHANGED stage
  BY <1>3
<1>4. CASE CreateStage(r)
  BY <1>1, <1>4 DEF CreateStage, Refuse, tables
<1>5. CASE RenameStage(r)
  BY <1>1, <1>2, <1>5 DEF RenameStage, Refuse, tables, StageRow
<1>6. CASE Reorder(r)
  BY <1>1, <1>2, <1>6 DEF Reorder, Refuse, tables, StageRow
<1>7. CASE RemoveStage(r)
  BY <1>1, <1>2, <1>7 DEF RemoveStage, Refuse, tables, StageRow
<1>8. CASE RenamePipeline(r)
  BY <1>1, <1>2, <1>8 DEF RenamePipeline, Refuse, tables, StageRow, Moved, Live
<1>9. CASE RemovePipeline(r)
  BY <1>1, <1>2, <1>9 DEF RemovePipeline, Refuse, tables, StageRow, On
<1>10. CASE CreatePipeline(r) \/ SetDefault(r) \/ MoveLead(r) \/ CreateLead(r) \/ SetGrants(r)
  BY <1>3, <1>10 DEF CreatePipeline, SetDefault, MoveLead, CreateLead, SetGrants, Refuse, tables
<1> QED BY <1>4, <1>5, <1>6, <1>7, <1>8, <1>9, <1>10 DEF Write

LEMMA IdsFreeStep ==
  ASSUME Typed, IdsFree, [Next]_vars
  PROVE  IdsFree'
<1>0. /\ stage \in [StageIds -> StageRow] /\ call \in [Requests -> Call \cup {None}]
      /\ pc \in [Requests -> {"idle", "count", "clear", "commit"}]
  BY DEF Typed, TypeOK, CallsTyped
<1>1. ASSUME NEW r \in Requests, Check(r) PROVE IdsFree'
  <2>1. stage' = stage /\ pc[r] = "idle" /\ Taken(r)
    BY <1>1, Begun DEF tables
  <2>2. PICK c, w :
          /\ call' = [call EXCEPT ![r] = c] /\ pc' = [pc EXCEPT ![r] = w]
          /\ Fits(c)
          /\ c.op = "CREATE_STAGE" =>
               \A q \in Requests : Busy(q) /\ call[q].op = "CREATE_STAGE" => call[q].id # c.id
    BY <2>1 DEF Taken
  <2>3. call'[r] = c /\ \A q \in Requests \ {r} : call'[q] = call[q] /\ (Busy(q)' <=> Busy(q))
    BY <1>0, <2>2 DEF Busy
  <2> QED BY <2>1, <2>2, <2>3 DEF IdsFree, Fits
<1>2. ASSUME NEW r \in Requests, Write(r) PROVE IdsFree'
  <2>1. End(r)
    BY <1>2 DEF Write, CreateStage, RenameStage, Reorder, RemoveStage, CreatePipeline,
                RenamePipeline, SetDefault, RemovePipeline, MoveLead, CreateLead, SetGrants,
                Refuse
  <2>2. SUFFICES ASSUME NEW q \in Requests, Busy(q)', call'[q].op = "CREATE_STAGE"
                 PROVE  /\ stage'[call'[q].id].is = "unused"
                        /\ \A p \in Requests \ {q} : Busy(p)' /\ call'[p].op = "CREATE_STAGE"
                                                      => call'[p].id # call'[q].id
    BY DEF IdsFree
  <2>3. \A p \in Requests : Busy(p)' => p # r /\ Busy(p) /\ call'[p] = call[p]
    BY <1>0, <2>1 DEF End, Busy
  <2>4. q # r /\ Busy(q) /\ call[q].op = "CREATE_STAGE" /\ call'[q] = call[q]
    BY <2>2, <2>3
  <2>5. call[q].id \in StageIds
    BY <2>4, CallOf DEF CreateStageCall
  <2>6. stage[call[q].id].is = "unused"
    BY <2>4 DEF IdsFree
  <2>7. ~(At(r, "commit", "CREATE_STAGE") /\ call[q].id = call[r].id)
    BY <2>4 DEF IdsFree, At, Busy
  <2>8. stage'[call[q].id].is = "unused"
    BY <1>2, <2>5, <2>6, <2>7, UnfilledStay
  <2> QED BY <2>3, <2>4, <2>8 DEF IdsFree
<1>3. ASSUME NEW r \in Requests, \/ CountInStage(r) \/ CountOnPipeline(r) \/ ClearDefaults(r)
                                 \/ Crash(r)
      PROVE  IdsFree'
  <2>1. stage' = stage
    BY <1>3 DEF CountInStage, CountOnPipeline, ClearDefaults, Crash, Refuse, tables
  <2>2. \A q \in Requests : Busy(q)' => Busy(q)
    BY <1>0, <1>3 DEF CountInStage, CountOnPipeline, ClearDefaults, Crash, Refuse, End, Busy, At
  <2>3. ASSUME NEW q \in Requests, Busy(q)'
        PROVE  call'[q].op = call[q].op /\ call'[q].id = call[q].id
    <3>1. CASE ClearDefaults(r)
      <4>1. call[r] \in SetDefaultCall
        BY <3>1, CallOf DEF ClearDefaults, At, Busy
      <4>2. call' = [call EXCEPT ![r].clears = call[r].clears \cap Defaults]
        BY <3>1 DEF ClearDefaults
      <4> QED BY <1>0, <4>1, <4>2 DEF SetDefaultCall
    <3>2. CASE call' = call
      BY <3>2
    <3>3. CASE End(r)
      BY <1>0, <2>3, <3>3 DEF End, Busy
    <3> QED BY <1>3, <3>1, <3>2, <3>3 DEF CountInStage, CountOnPipeline, Crash, Refuse
  <2> QED BY <2>1, <2>2, <2>3 DEF IdsFree
<1>4. ASSUME UNCHANGED vars PROVE IdsFree'
  BY <1>4 DEF vars, IdsFree, Busy
<1> QED BY <1>1, <1>2, <1>3, <1>4 DEF Next

LEMMA CarriesStep ==
  ASSUME Typed, IdsFree, [Next]_vars,
         NEW s \in StageIds, Live(stage[s]), Live(stage'[s]), stage'[s].name # stage[s].name,
         NEW l \in LiveLeads
  PROVE  lead'[l] = IF l \in In(stage[s].board, stage[s].name)
                    THEN [lead[l] EXCEPT !.status = stage'[s].name] ELSE lead[l]
<1>0. stage \in [StageIds -> StageRow] /\ l \in Leads
  BY DEF Typed, TypeOK, LiveLeads
<1>1. PICK r \in Requests : Write(r)
  <2>1. stage' # stage
    OBVIOUS
  <2>2. \A r \in Requests : Check(r) => stage' = stage
    BY Begun DEF tables
  <2> QED BY <2>1, <2>2 DEF Next, vars, CountInStage, CountOnPipeline, ClearDefaults, Crash,
                            Refuse, tables
<1>2. ~Refuse(r)
  BY DEF Refuse, tables
<1>3. CASE RenameStage(r)
  <2>1. stage' = [stage EXCEPT ![call[r].id].name = call[r].name] /\ lead' = Relabelled(call[r])
    BY <1>2, <1>3 DEF RenameStage
  <2>2. s = call[r].id /\ stage'[s].name = call[r].name
    BY <1>0, <2>1 DEF StageRow
  <2> QED BY <1>0, <2>1, <2>2 DEF Relabelled
<1>4. CASE CreateStage(r)
  <2>1. s = call[r].id /\ Busy(r) /\ call[r].op = "CREATE_STAGE"
    BY <1>0, <1>2, <1>4 DEF CreateStage, At, Busy
  <2> QED BY <2>1 DEF IdsFree, Live
<1>5. CASE Reorder(r)
  BY <1>0, <1>2, <1>5 DEF Reorder, StageRow
<1>6. CASE RemoveStage(r)
  BY <1>0, <1>2, <1>6 DEF RemoveStage, StageRow
<1>7. CASE RenamePipeline(r)
  BY <1>0, <1>2, <1>7 DEF RenamePipeline, StageRow, Moved
<1>8. CASE RemovePipeline(r)
  BY <1>0, <1>2, <1>8 DEF RemovePipeline, StageRow
<1>9. CASE CreatePipeline(r) \/ SetDefault(r) \/ MoveLead(r) \/ CreateLead(r) \/ SetGrants(r)
  BY <1>2, <1>9 DEF CreatePipeline, SetDefault, MoveLead, CreateLead, SetGrants
<1> QED BY <1>1, <1>3, <1>4, <1>5, <1>6, <1>7, <1>8, <1>9 DEF Write

\* Whatever else is under way, the rename of a stage takes along exactly the leads of the
\* stage: StagesService.update cascades from the row it has locked.
THEOREM RenamesTakeTheirLeads == Spec => RenameCarriesLeads
<1>1. Init => IdsFree
  BY DEF Init, IdsFree, Busy
<1>2. Typed /\ IdsFree /\ [Next]_vars =>
        [\A s \in StageIds :
          Live(stage[s]) /\ Live(stage'[s]) /\ stage'[s].name # stage[s].name =>
            \A l \in LiveLeads :
              lead'[l] = IF l \in In(stage[s].board, stage[s].name)
                         THEN [lead[l] EXCEPT !.status = stage'[s].name] ELSE lead[l]]_vars
  BY CarriesStep
<1>3. Typed /\ IdsFree /\ [Next]_vars => (Typed /\ IdsFree)'
  BY TypedStep, IdsFreeStep
<1> QED
  BY <1>1, <1>2, <1>3, InitTyped, PTL DEF Spec, RenameCarriesLeads

-----------------------------------------------------------------------------
(* Names of pipelines. *)

\* A pipeline gets a name no live pipeline has, whatever was checked before.
LEMMA DistinctStep ==
  ASSUME Typed, DistinctNames, [Next]_vars
  PROVE  DistinctNames'
<1>0. pipeline \in [PipelineIds -> PipelineRow]
  BY DEF Typed, TypeOK
<1>1. CASE pipeline' = pipeline
  BY <1>1 DEF DistinctNames, Pipelines
<1>2. ASSUME NEW r \in Requests, CreatePipeline(r), ~Refuse(r) PROVE DistinctNames'
  <2>1. call[r].name \notin BoardNames
    BY <1>2 DEF CreatePipeline
  <2>2. pipeline' = [pipeline EXCEPT ![call[r].id] = [is |-> "live", name |-> call[r].name,
                                                      isDefault |-> call[r].isDefault]]
    BY <1>2 DEF CreatePipeline
  <2> QED BY <1>0, <2>1, <2>2 DEF DistinctNames, Pipelines, BoardNames, Live
<1>3. ASSUME NEW r \in Requests, RenamePipeline(r), ~Refuse(r) PROVE DistinctNames'
  <2>1. \A p \in Pipelines \ {call[r].id} : pipeline[p].name # call[r].name
    BY <1>3 DEF RenamePipeline
  <2>2. pipeline' = [pipeline EXCEPT ![call[r].id].name = call[r].name]
    BY <1>3 DEF RenamePipeline
  <2> QED BY <1>0, <2>1, <2>2 DEF DistinctNames, Pipelines, Live, PipelineRow
<1>4. ASSUME NEW r \in Requests, RemovePipeline(r), ~Refuse(r) PROVE DistinctNames'
  BY <1>0, <1>4 DEF RemovePipeline, DistinctNames, Pipelines, Live, PipelineRow
<1>5. ASSUME NEW r \in Requests, SetDefault(r), ~Refuse(r) PROVE DistinctNames'
  BY <1>0, <1>5 DEF SetDefault, DistinctNames, Pipelines, Live, PipelineRow
<1>6. ASSUME NEW r \in Requests, Check(r) PROVE pipeline' = pipeline
  BY <1>6, Begun DEF tables
<1>7. ASSUME NEW r \in Requests,
             \/ CreateStage(r) \/ RenameStage(r) \/ Reorder(r) \/ RemoveStage(r) \/ MoveLead(r)
             \/ CreateLead(r) \/ SetGrants(r) \/ Crash(r) \/ CountInStage(r)
             \/ CountOnPipeline(r) \/ ClearDefaults(r) \/ Refuse(r)
      PROVE  pipeline' = pipeline
  BY <1>7 DEF CreateStage, RenameStage, Reorder, RemoveStage, MoveLead, CreateLead, SetGrants,
              Crash, CountInStage, CountOnPipeline, ClearDefaults, Refuse, tables
<1> QED
  BY <1>1, <1>2, <1>3, <1>4, <1>5, <1>6, <1>7 DEF Next, Write, vars

\* A request that has written is over, and the others are where they were.
LEMMA WriteEnds ==
  ASSUME Typed, NEW r \in Requests, Write(r)
  PROVE  /\ Busy(r) /\ pc[r] = "commit" /\ End(r)
         /\ \A q \in Requests : Busy(q)' => q # r /\ Busy(q) /\ call'[q] = call[q]
<1>1. pc[r] = "commit" /\ End(r)
  BY DEF Write, CreateStage, RenameStage, Reorder, RemoveStage, CreatePipeline, RenamePipeline,
         SetDefault, RemovePipeline, MoveLead, CreateLead, SetGrants, Refuse, At
<1> QED BY <1>1 DEF End, Busy, Typed, TypeOK, CallsTyped

-----------------------------------------------------------------------------
(* One request at a time. *)

LEMMA ColumnsStay ==
  ASSUME Typed, LeadsInColumn, NEW r \in Requests, Write(r),
         Standing(call[r]), Fits(call[r]), Emptied(call[r])
  PROVE  LeadsInColumn'
<1> DEFINE c == call[r]
<1>0. /\ stage \in [StageIds -> StageRow] /\ lead \in [Leads -> LeadRow]
      /\ Busy(r) /\ Standing(c) /\ Fits(c) /\ Emptied(c)
  BY WriteEnds DEF Typed, TypeOK
<1>1. \A l \in LiveLeads : \E s \in Stages : stage[s].board = lead[l].board /\ stage[s].name = lead[l].status
  BY DEF LeadsInColumn, Column, On
<1>2. SUFFICES \A l \in LiveLeads' : \E s \in Stages' :
                 stage'[s].board = lead'[l].board /\ stage'[s].name = lead'[l].status
  BY DEF LeadsInColumn, Column, On
<1>3. CASE UNCHANGED <<stage, lead>>
  BY <1>1, <1>3 DEF LiveLeads, Stages
<1>4. CASE CreateStage(r) /\ ~Refuse(r)
  <2>1. stage' = [stage EXCEPT ![c.id] = [is |-> "live", board |-> c.board, name |-> c.name,
                                          position |-> c.position]] /\ lead' = lead
    BY <1>4 DEF CreateStage
  <2>2. stage[c.id].is = "unused"
    BY <1>0, <1>4 DEF CreateStage, At, Fits
  <2> QED BY <1>0, <1>1, <2>1, <2>2 DEF LiveLeads, Stages, Live
<1>5. CASE RenameStage(r) /\ ~Refuse(r)
  <2>1. /\ stage' = [stage EXCEPT ![c.id].name = c.name] /\ lead' = Relabelled(c)
        /\ c.id \in Stages
    BY <1>5 DEF RenameStage
  <2>2. \A s \in Stages : s \in Stages' /\ stage'[s].board = stage[s].board
    BY <1>0, <2>1 DEF Stages, Live, StageRow
  <2>3. SUFFICES ASSUME NEW l \in LiveLeads'
                 PROVE  \E s \in Stages' : stage'[s].board = lead'[l].board /\ stage'[s].name = lead'[l].status
    OBVIOUS
  <2>4. l \in LiveLeads /\ lead'[l].board = lead[l].board
    BY <1>0, <2>1, <2>3 DEF LiveLeads, Live, LeadRow, Relabelled
  <2>5. CASE l \in In(stage[c.id].board, stage[c.id].name)
    <3>1. lead'[l].status = c.name /\ lead[l].board = stage[c.id].board
      BY <1>0, <2>1, <2>4, <2>5 DEF Relabelled, LeadRow, LiveLeads, In
    <3>2. stage'[c.id].name = c.name
      BY <1>0, <2>1 DEF Stages
    <3> QED BY <2>1, <2>2, <2>4, <3>1, <3>2
  <2>6. CASE l \notin In(stage[c.id].board, stage[c.id].name)
    <3>1. lead'[l] = lead[l]
      BY <2>1, <2>4, <2>6 DEF Relabelled, LiveLeads
    <3>2. PICK s \in Stages : stage[s].board = lead[l].board /\ stage[s].name = lead[l].status
      BY <1>1, <2>4
    <3>3. s # c.id
      BY <2>4, <2>6, <3>2 DEF In
    <3>4. stage'[s] = stage[s]
      BY <1>0, <2>1, <3>3 DEF Stages
    <3> QED BY <2>2, <3>1, <3>2, <3>4
  <2> QED BY <2>5, <2>6
<1>6. CASE Reorder(r) /\ ~Refuse(r)
  <2>1. lead' = lead /\ \A s \in StageIds :
                          /\ stage'[s].board = stage[s].board /\ stage'[s].name = stage[s].name
                          /\ stage'[s].is = stage[s].is
    BY <1>0, <1>6 DEF Reorder, StageRow
  <2> QED BY <1>1, <2>1 DEF LiveLeads, Stages, Live
<1>7. CASE RemoveStage(r) /\ ~Refuse(r)
  <2>1. stage' = [stage EXCEPT ![c.id].is = "gone"] /\ lead' = lead
    BY <1>7 DEF RemoveStage
  <2>2. In(stage[c.id].board, stage[c.id].name) = {}
    BY <1>0, <1>7 DEF RemoveStage, At, Fits, Emptied
  <2> QED BY <1>0, <1>1, <2>1, <2>2 DEF LiveLeads, Stages, Live, In, StageRow
<1>8. CASE RenamePipeline(r) /\ ~Refuse(r)
  <2>1. stage' = Moved(stage, c.old, c.name) /\ lead' = Moved(lead, c.old, c.name)
    BY <1>8 DEF RenamePipeline, LeadsMoved
  <2>2. /\ \A s \in StageIds : Live(stage[s]) => Live(stage'[s]) /\ stage'[s].name = stage[s].name
             /\ stage'[s].board = IF stage[s].board = c.old THEN c.name ELSE stage[s].board
        /\ \A l \in Leads : Live(lead'[l]) => Live(lead[l]) /\ lead'[l].status = lead[l].status
             /\ lead'[l].board = IF lead[l].board = c.old THEN c.name ELSE lead[l].board
    BY <1>0, <2>1 DEF Moved, Live, StageRow, LeadRow
  <2>3. DOMAIN lead' = Leads
    BY <1>0, <2>1 DEF Moved
  <2> QED BY <1>1, <2>2 DEF LiveLeads, Stages
<1>9. CASE RemovePipeline(r) /\ ~Refuse(r)
  <2>1. /\ stage' = [s \in StageIds |-> IF s \in On(c.name)
                                        THEN [stage[s] EXCEPT !.is = "gone"] ELSE stage[s]]
        /\ lead' = lead
    BY <1>9 DEF RemovePipeline
  <2>2. \A l \in LiveLeads : lead[l].board # c.name
    BY <1>0, <1>9 DEF RemovePipeline, At, Emptied
  <2> QED BY <1>0, <1>1, <2>1, <2>2 DEF LiveLeads, Stages, On
<1>10. CASE MoveLead(r)
  <2>1. /\ lead' = [lead EXCEPT ![c.id].status = c.name,
                                ![c.id].board = IF c.both THEN c.board ELSE @]
        /\ stage' = stage
    BY <1>10 DEF MoveLead
  <2>2. c \in MoveLeadCall /\ Landing(c) /\ Live(lead[c.id])
    BY <1>0, <1>10, CallOf DEF MoveLead, At, Fits, Standing
  <2>3. c.id \in LiveLeads
    BY <2>2 DEF MoveLeadCall, LiveLeads
  <2> DEFINE b == IF c.both THEN c.board ELSE lead[c.id].board
  <2>4. \E s \in Stages : stage[s].board = b /\ stage[s].name = c.name
    BY <1>1, <2>2, <2>3 DEF Landing, Column, On
  <2>5. lead'[c.id].board = b /\ lead'[c.id].status = c.name
    BY <1>0, <2>1, <2>3 DEF LiveLeads, LeadRow
  <2>6. \A l \in LiveLeads' \ {c.id} : l \in LiveLeads /\ lead'[l] = lead[l]
    BY <1>0, <2>1 DEF LiveLeads
  <2>7. Stages' = Stages
    BY <2>1 DEF Stages
  <2> HIDE DEF b
  <2>8. ASSUME NEW l \in LiveLeads'
        PROVE  \E s \in Stages : stage[s].board = lead'[l].board /\ stage[s].name = lead'[l].status
    <3>1. CASE l = c.id
      BY <2>4, <2>5, <3>1
    <3>2. CASE l # c.id
      BY <1>1, <2>6, <3>2
    <3> QED BY <3>1, <3>2
  <2> QED BY <2>1, <2>7, <2>8
<1>11. CASE CreateLead(r)
  <2>1. /\ lead' = [lead EXCEPT ![c.id] = [is |-> "live", board |-> c.board, status |-> c.name]]
        /\ stage' = stage
    BY <1>11 DEF CreateLead
  <2>2. Column(c.board, c.name)
    BY <1>0, <1>11 DEF CreateLead, At, Fits
  <2>3. \A l \in LiveLeads' : l = c.id \/ (l \in LiveLeads /\ lead'[l] = lead[l])
    BY <1>0, <2>1 DEF LiveLeads
  <2>4. c.id \in Leads
    BY <1>0, <1>11, CallOf DEF CreateLead, At, CreateLeadCall
  <2> QED BY <1>0, <1>1, <2>1, <2>2, <2>3, <2>4 DEF Column, On, Stages
<1> QED
  BY <1>3, <1>4, <1>5, <1>6, <1>7, <1>8, <1>9, <1>10, <1>11
     DEF Write, CreatePipeline, SetDefault, SetGrants, Refuse, tables

\* One pipeline is the default, or there is none.
OneOrNone == IF Pipelines = {} THEN Defaults = {} ELSE \E p \in Pipelines : Defaults = {p}

LEMMA DefaultStays ==
  ASSUME Typed, OneOrNone, NEW r \in Requests, Write(r), Fits(call[r])
  PROVE  OneOrNone'
<1> DEFINE c == call[r]
<1>0. pipeline \in [PipelineIds -> PipelineRow] /\ Busy(r) /\ Fits(c)
  BY WriteEnds DEF Typed, TypeOK
<1>1. CASE Pipelines' = Pipelines /\ Defaults' = Defaults
  BY <1>1 DEF OneOrNone
<1>2. CASE UNCHANGED pipeline
  BY <1>1, <1>2 DEF Pipelines, Defaults
<1>3. CASE CreatePipeline(r) /\ ~Refuse(r)
  <2>1. /\ pipeline' = [pipeline EXCEPT ![c.id] = [is |-> "live", name |-> c.name,
                                                   isDefault |-> c.isDefault]]
        /\ c.id \in PipelineIds /\ pipeline[c.id].is = "unused" /\ c.isDefault = (Pipelines = {})
    BY <1>0, <1>3, CallOf DEF CreatePipeline, At, Fits, CreatePipelineCall
  <2>2. Pipelines' = Pipelines \cup {c.id} /\ c.id \notin Pipelines
    BY <1>0, <2>1 DEF Pipelines, Live
  <2>3. Defaults' = IF Pipelines = {} THEN {c.id} ELSE Defaults
    BY <1>0, <2>1, <2>2 DEF Defaults, Pipelines
  <2> QED BY <2>2, <2>3 DEF OneOrNone
<1>4. CASE RenamePipeline(r) /\ ~Refuse(r)
  <2>1. pipeline' = [pipeline EXCEPT ![c.id].name = c.name]
    BY <1>4 DEF RenamePipeline
  <2>2. Pipelines' = Pipelines /\ Defaults' = Defaults
    BY <1>0, <2>1 DEF Pipelines, Defaults, Live, PipelineRow
  <2> QED BY <1>1, <2>2
<1>5. CASE SetDefault(r) /\ ~Refuse(r)
  <2>1. /\ pipeline' = [p \in PipelineIds |->
                          IF p = c.id THEN [pipeline[p] EXCEPT !.isDefault = TRUE]
                          ELSE IF p \in c.clears THEN [pipeline[p] EXCEPT !.isDefault = FALSE]
                          ELSE pipeline[p]]
        /\ c.id \in Pipelines /\ c.clears = Defaults \ {c.id}
    BY <1>0, <1>5 DEF SetDefault, Cleared, At, Fits
  <2>2. Pipelines' = Pipelines
    BY <1>0, <2>1 DEF Pipelines, Live, PipelineRow
  <2>3. Defaults' = {c.id}
    BY <1>0, <2>1, <2>2 DEF Defaults, Pipelines, PipelineRow
  <2> QED BY <2>1, <2>2, <2>3 DEF OneOrNone
<1>6. CASE RemovePipeline(r) /\ ~Refuse(r)
  <2>1. /\ pipeline' = [pipeline EXCEPT ![c.id].is = "gone"]
        /\ c.id \in Pipelines \ Defaults
    BY <1>0, <1>6 DEF RemovePipeline, At, Fits
  <2>2. Pipelines' = Pipelines \ {c.id}
    BY <1>0, <2>1 DEF Pipelines, Live, PipelineRow
  <2>3. Defaults' = Defaults
    BY <1>0, <2>1, <2>2 DEF Defaults, Pipelines, PipelineRow
  <2> QED BY <2>1, <2>2, <2>3 DEF OneOrNone
<1> QED
  BY <1>2, <1>3, <1>4, <1>5, <1>6
     DEF Write, CreateStage, RenameStage, Reorder, RemoveStage, MoveLead, CreateLead, SetGrants,
         Refuse, tables

LEMMA DefaultPrimed ==
  (IF Pipelines = {} THEN Defaults = {} ELSE \E p \in Pipelines : Defaults = {p})'
    <=> OneDefault'
BY DefaultIsOne, PTL

LEMMA AloneStep ==
  ASSUME Typed, AloneInv, NEW r \in Requests, Alone(r)
  PROVE  AloneInv'
<1>0. /\ call \in [Requests -> Call \cup {None}]
      /\ pc \in [Requests -> {"idle", "count", "clear", "commit"}]
      /\ OneOrNone /\ LeadsInColumn
      /\ \A q \in Requests \ {r} : pc[q] = "idle"
  BY DefaultIsOne DEF Typed, TypeOK, CallsTyped, AloneInv, OneOrNone, Alone, AloneAt, Busy
<1>1. ASSUME UNCHANGED tables PROVE LeadsInColumn' /\ OneDefault'
  BY <1>1 DEF tables, AloneInv, LeadsInColumn, OneDefault, LiveLeads, Column, On, Stages, Pipelines,
              Defaults
<1>2. ASSUME End(r) PROVE \A q \in Requests : ~Busy(q)'
  BY <1>0, <1>2 DEF End, Busy
<1>3. CASE Check(r)
  <2>1. UNCHANGED tables /\ Taken(r)
    BY <1>3, Begun
  <2>2. PICK c, w :
          /\ w \in {"count", "clear", "commit"}
          /\ call' = [call EXCEPT ![r] = c] /\ pc' = [pc EXCEPT ![r] = w]
          /\ Standing(c) /\ Fits(c)
          /\ w = "commit" => c.op \notin {"REMOVE_STAGE", "REMOVE_PIPELINE"}
    BY <2>1 DEF Taken
  <2>3. call'[r] = c /\ pc'[r] = w /\ \A q \in Requests \ {r} : pc'[q] = "idle"
    BY <1>0, <2>2
  <2>4. Standing(call[r])'
    BY <2>1, <2>2, <2>3
       DEF Standing, tables, Whole, Stages, Live, Pipelines, BoardNames
  <2>5. Fits(call[r])'
    BY <2>1, <2>2, <2>3
       DEF Fits, tables, Stages, Live, Pipelines, Defaults, Landing, Column, On
  <2>6. pc'[r] = "commit" => Emptied(call[r])'
    BY <2>2, <2>3 DEF Emptied
  <2> QED BY <1>1, <2>1, <2>3, <2>4, <2>5, <2>6 DEF AloneInv, Busy, AloneAt
<1>4. CASE Write(r)
  <2>1. Standing(call[r]) /\ Fits(call[r]) /\ Emptied(call[r]) /\ End(r)
    BY <1>4, WriteEnds DEF AloneInv
  <2>2. LeadsInColumn'
    BY <1>0, <1>4, <2>1, ColumnsStay
  <2>3. OneOrNone'
    BY <1>0, <1>4, <2>1, DefaultStays
  <2>4. OneDefault'
    BY <2>3, DefaultPrimed DEF OneOrNone
  <2> QED BY <1>2, <2>1, <2>2, <2>4 DEF AloneInv
<1>5. CASE Crash(r) \/ Refuse(r)
  BY <1>1, <1>2, <1>5 DEF Crash, Refuse, AloneInv
<1>6. CASE (CountInStage(r) \/ CountOnPipeline(r)) /\ ~Refuse(r)
  <2>1. /\ pc' = [pc EXCEPT ![r] = "commit"] /\ UNCHANGED <<tables, call, rowLock>>
        /\ pc[r] = "count" /\ Emptied(call[r])
    BY <1>6 DEF CountInStage, CountOnPipeline, At, Emptied, Counted
  <2>2. Standing(call[r]) /\ Fits(call[r])
    BY <2>1 DEF AloneInv, Busy
  <2>3. (Standing(call[r]) /\ Fits(call[r]) /\ Emptied(call[r]))'
    BY <2>1, <2>2
       DEF Standing, tables, Whole, Stages, Live, Pipelines, BoardNames, Fits, Defaults, Landing,
           Column, On, Emptied, LiveLeads, In
  <2> QED BY <1>0, <1>1, <2>1, <2>3 DEF AloneInv, Busy, AloneAt
<1>7. CASE ClearDefaults(r)
  <2>1. Busy(r) /\ call[r].op = "SET_DEFAULT"
    BY <1>7 DEF ClearDefaults, At, Busy
  <2>2. call[r] \in SetDefaultCall /\ call[r].clears = Defaults \ {call[r].id}
    BY <2>1, CallOf DEF AloneInv, Fits
  <2>3. call[r].clears \cap Defaults = call[r].clears
    BY <2>2
  <2>4. /\ UNCHANGED tables /\ call' = [call EXCEPT ![r].clears = call[r].clears]
        /\ pc' = [pc EXCEPT ![r] = "commit"]
    BY <1>7, <2>3 DEF ClearDefaults
  <2>5. call'[r].op = "SET_DEFAULT" /\ call'[r].id = call[r].id /\ call'[r].clears = call[r].clears
    BY <1>0, <2>1, <2>2, <2>4 DEF SetDefaultCall
  <2>6. Fits(call[r])'
    BY <2>2, <2>4, <2>5 DEF Fits, tables, Defaults, Pipelines
  <2>7. (Standing(call[r]) /\ Emptied(call[r]))'
    BY <2>5 DEF Standing, Emptied
  <2> QED BY <1>0, <1>1, <2>4, <2>6, <2>7 DEF AloneInv, Busy, AloneAt
<1> QED
  BY <1>3, <1>4, <1>5, <1>6, <1>7 DEF Alone

-----------------------------------------------------------------------------
(* What meets the rename of a stage. *)

\* What the other requests have checked still holds when r has written.
LEMMA OthersStand ==
  ASSUME Typed, DistinctNames, MeetingInv, NEW r \in Requests, Write(r),
         NEW q \in Requests, Busy(q)'
  PROVE  Standing(call[q])'
<1> DEFINE c == call[r]
           d == call[q]
<1>0. /\ stage \in [StageIds -> StageRow] /\ pipeline \in [PipelineIds -> PipelineRow]
      /\ lead \in [Leads -> LeadRow]
      /\ Busy(r) /\ Busy(q) /\ q # r /\ call'[q] = d
      /\ c.op \in MeetingOps /\ Standing(c) /\ d.op \in MeetingOps /\ Standing(d)
      /\ ~(c.op = "RENAME_PIPELINE" /\ d.op = "RENAME_PIPELINE")
  BY WriteEnds DEF Typed, TypeOK, MeetingInv
<1>1. /\ d.op \in {"RENAME_STAGE", "REMOVE_STAGE"} => d.id \in StageIds
      /\ d.op = "MOVE_LEAD" => d.id \in Leads
      /\ d.op = "REORDER" => DOMAIN d.order \subseteq StageIds
  BY <1>0, CallOf DEF RenameStageCall, RemoveStageCall, MoveLeadCall, ReorderCall
<1>2. SUFFICES
        /\ d.op \in {"RENAME_STAGE", "REMOVE_STAGE"} => stage'[d.id].name \notin Reserved
        /\ d.op = "MOVE_LEAD" => Live(lead'[d.id]) /\ lead'[d.id].status \notin Reserved
        /\ d.op = "REORDER" => Whole(d.order)'
        /\ d.op = "RENAME_PIPELINE" =>
             d.id \in Pipelines' /\ pipeline'[d.id].name = d.old /\ d.name \notin BoardNames'
  BY <1>0 DEF Standing, Whole
<1>3. /\ d.op \in {"RENAME_STAGE", "REMOVE_STAGE"} => stage[d.id].name \notin Reserved
      /\ d.op = "MOVE_LEAD" => Live(lead[d.id]) /\ lead[d.id].status \notin Reserved
      /\ d.op = "REORDER" => Whole(d.order)
      /\ d.op = "RENAME_PIPELINE" =>
           d.id \in Pipelines /\ pipeline[d.id].name = d.old /\ d.name \notin BoardNames
  BY <1>0 DEF Standing
<1>10. call'[q] = call[q]
  BY <1>0
<1>4. CASE Refuse(r)
  BY <1>3, <1>4, <1>10 DEF Refuse, tables, Whole, Stages, Pipelines, BoardNames
<1>5. CASE RenameStage(r) /\ ~Refuse(r)
  <2>1. /\ stage' = [stage EXCEPT ![c.id].name = c.name] /\ lead' = Relabelled(c)
        /\ pipeline' = pipeline /\ c.name \notin Reserved
    BY <1>0, <1>5, CallOf DEF RenameStage, At, RenameStageCall
  <2>2. \A s \in StageIds :
          /\ stage'[s].is = stage[s].is /\ stage'[s].board = stage[s].board
          /\ stage'[s].name \in {stage[s].name, c.name}
    BY <1>0, <2>1 DEF StageRow
  <2>3. \A l \in Leads : lead'[l].is = lead[l].is /\ lead'[l].status \in {lead[l].status, c.name}
    BY <1>0, <2>1 DEF LeadRow, Relabelled
  <2>4. d.op = "REORDER" => Whole(d.order)'
    BY <1>1, <1>3, <1>10, <2>2 DEF Whole, Stages, Live
  <2> QED BY <1>1, <1>3, <1>10, <2>1, <2>2, <2>3, <2>4 DEF Live, Pipelines, BoardNames
<1>6. CASE Reorder(r) /\ ~Refuse(r)
  <2>1. /\ \A s \in StageIds :
             /\ stage'[s].is = stage[s].is /\ stage'[s].board = stage[s].board
             /\ stage'[s].name = stage[s].name
        /\ lead' = lead /\ pipeline' = pipeline
    BY <1>0, <1>6 DEF Reorder, StageRow
  <2>2. d.op = "REORDER" => Whole(d.order)'
    BY <1>1, <1>3, <1>10, <2>1 DEF Whole, Stages, Live
  <2> QED BY <1>1, <1>3, <1>10, <2>1, <2>2 DEF Pipelines, BoardNames
<1>7. CASE RemoveStage(r) /\ ~Refuse(r)
  <2>1. /\ \A s \in StageIds :
             /\ stage'[s].is \in {stage[s].is, "gone"} /\ stage'[s].board = stage[s].board
             /\ stage'[s].name = stage[s].name
        /\ lead' = lead /\ pipeline' = pipeline
    BY <1>0, <1>7 DEF RemoveStage, StageRow
  <2>2. d.op = "REORDER" => Whole(d.order)'
    BY <1>1, <1>3, <1>10, <2>1 DEF Whole, Stages, Live
  <2> QED BY <1>1, <1>3, <1>10, <2>1, <2>2 DEF Pipelines, BoardNames
<1>8. CASE RenamePipeline(r) /\ ~Refuse(r)
  <2>1. /\ stage' = Moved(stage, c.old, c.name) /\ lead' = Moved(lead, c.old, c.name)
        /\ c.op = "RENAME_PIPELINE" /\ c.name \notin BoardNames
    BY <1>0, <1>8 DEF RenamePipeline, LeadsMoved, At, Standing
  <2>2. \A s \in StageIds :
          /\ stage'[s].is = stage[s].is /\ stage'[s].name = stage[s].name
          /\ Live(stage[s]) =>
               stage'[s].board = IF stage[s].board = c.old THEN c.name ELSE stage[s].board
    BY <1>0, <2>1 DEF StageRow, Moved
  <2>3. \A l \in Leads : lead'[l].is = lead[l].is /\ lead'[l].status = lead[l].status
    BY <1>0, <2>1 DEF LeadRow, Moved
  <2>4. \A s \in Stages : stage[s].board # c.name
    BY <2>1 DEF MeetingInv, BoardsExist
  <2>5. d.op = "REORDER" => Whole(d.order)'
    BY <1>1, <1>3, <1>10, <2>2, <2>4 DEF Whole, Stages, Live
  <2> QED BY <1>0, <1>1, <1>3, <2>1, <2>2, <2>3, <2>5 DEF Live
<1>9. CASE MoveLead(r)
  <2>1. /\ lead' = [lead EXCEPT ![c.id].status = c.name,
                                ![c.id].board = IF c.both THEN c.board ELSE @]
        /\ stage' = stage /\ pipeline' = pipeline /\ c.name \notin Reserved
    BY <1>0, <1>9, CallOf DEF MoveLead, At, MoveLeadCall
  <2>2. \A l \in Leads : lead'[l].is = lead[l].is /\ lead'[l].status \in {lead[l].status, c.name}
    BY <1>0, <2>1 DEF LeadRow
  <2> QED BY <1>1, <1>3, <1>10, <2>1, <2>2 DEF Live, Whole, Stages, Pipelines, BoardNames
<1> QED
  BY <1>0, <1>4, <1>5, <1>6, <1>7, <1>8, <1>9
     DEF Write, MeetingOps, CreateStage, CreatePipeline, SetDefault, RemovePipeline, CreateLead,
         SetGrants, At

LEMMA BoardsStay ==
  ASSUME Typed, DistinctNames, MeetingInv, NEW r \in Requests, Write(r)
  PROVE  BoardsExist' /\ PositionsDistinct'
<1> DEFINE c == call[r]
<1>0. /\ stage \in [StageIds -> StageRow] /\ pipeline \in [PipelineIds -> PipelineRow]
      /\ Busy(r) /\ c.op \in MeetingOps /\ Standing(c) /\ BoardsExist /\ PositionsDistinct
  BY WriteEnds DEF Typed, TypeOK, MeetingInv
<1>1. CASE UNCHANGED <<stage, pipeline>>
  BY <1>0, <1>1 DEF BoardsExist, PositionsDistinct, Stages, Pipelines, BoardNames
<1>2. CASE (RenameStage(r) \/ RemoveStage(r)) /\ ~Refuse(r)
  <2>1. \A s \in StageIds :
          /\ stage'[s].is \in {stage[s].is, "gone"} /\ stage'[s].board = stage[s].board
          /\ stage'[s].position = stage[s].position
    BY <1>0, <1>2 DEF RenameStage, RemoveStage, StageRow
  <2>2. pipeline' = pipeline
    BY <1>2 DEF RenameStage, RemoveStage
  <2> QED BY <1>0, <2>1, <2>2 DEF BoardsExist, PositionsDistinct, Stages, Live, Pipelines, BoardNames
<1>3. CASE Reorder(r) /\ ~Refuse(r)
  <2>1. /\ stage' = [s \in StageIds |-> IF s \in DOMAIN c.order
                                        THEN [stage[s] EXCEPT !.position = c.order[s]]
                                        ELSE stage[s]]
        /\ pipeline' = pipeline /\ DOMAIN c.order \subseteq Stages /\ Whole(c.order)
    BY <1>0, <1>3 DEF Reorder, At, Standing
  <2>2. \A s \in StageIds :
          /\ stage'[s].is = stage[s].is /\ stage'[s].board = stage[s].board
          /\ stage'[s].position = IF s \in DOMAIN c.order THEN c.order[s] ELSE stage[s].position
    BY <1>0, <2>1 DEF StageRow
  <2>3. BoardsExist'
    BY <1>0, <2>1, <2>2 DEF BoardsExist, Stages, Live, Pipelines, BoardNames
  <2>4. PositionsDistinct'
    BY <1>0, <2>1, <2>2 DEF PositionsDistinct, Stages, Live, Whole
  <2> QED BY <2>3, <2>4
<1>4. CASE RenamePipeline(r) /\ ~Refuse(r)
  <2>1. /\ stage' = Moved(stage, c.old, c.name)
        /\ pipeline' = [pipeline EXCEPT ![c.id].name = c.name]
        /\ c.id \in Pipelines /\ pipeline[c.id].name = c.old /\ c.name \notin BoardNames
    BY <1>0, <1>4 DEF RenamePipeline, At, Standing
  <2>2. \A s \in StageIds :
          /\ stage'[s].is = stage[s].is /\ stage'[s].position = stage[s].position
          /\ Live(stage[s]) =>
               stage'[s].board = IF stage[s].board = c.old THEN c.name ELSE stage[s].board
    BY <1>0, <2>1 DEF StageRow, Moved
  <2>3. \A s \in Stages : stage[s].board # c.name
    BY <1>0, <2>1 DEF BoardsExist
  <2>4. PositionsDistinct'
    BY <1>0, <2>2, <2>3 DEF PositionsDistinct, Stages, Live
  <2>5. /\ Pipelines' = Pipelines /\ pipeline'[c.id].name = c.name
        /\ \A p \in Pipelines \ {c.id} : pipeline'[p].name = pipeline[p].name
    BY <1>0, <2>1 DEF Pipelines, Live, PipelineRow
  <2>6. \A s \in Stages : stage[s].board = c.old \/ \E p \in Pipelines \ {c.id} : pipeline[p].name = stage[s].board
    BY <1>0, <2>1 DEF BoardsExist, BoardNames
  <2>7. BoardsExist'
    BY <1>0, <2>1, <2>2, <2>5, <2>6 DEF BoardsExist, BoardNames, Stages, Live
  <2> QED BY <2>4, <2>7
<1>5. CASE MoveLead(r)
  BY <1>1, <1>5 DEF MoveLead
<1> QED
  BY <1>0, <1>1, <1>2, <1>3, <1>4, <1>5
     DEF Write, MeetingOps, CreateStage, CreatePipeline, SetDefault, RemovePipeline, CreateLead,
         SetGrants, At, Refuse, tables

LEMMA MeetingStep ==
  ASSUME Typed, DistinctNames, MeetingInv, NEW r \in Requests, Meeting(r)
  PROVE  MeetingInv'
<1>0. /\ call \in [Requests -> Call \cup {None}]
      /\ pc \in [Requests -> {"idle", "count", "clear", "commit"}]
  BY DEF Typed, TypeOK, CallsTyped
<1>1. ASSUME UNCHANGED tables PROVE BoardsExist' /\ PositionsDistinct'
  BY <1>1 DEF tables, MeetingInv, BoardsExist, PositionsDistinct, Stages, Pipelines, BoardNames
<1>2. ASSUME UNCHANGED tables, NEW q \in Requests, Busy(q), call'[q] = call[q]
      PROVE  Standing(call[q])'
  BY <1>2 DEF MeetingInv, tables, Standing, Whole, Stages, Pipelines, BoardNames
<1>3. ASSUME Check(r), call'[r].op \in MeetingOps,
             call'[r].op = "RENAME_PIPELINE" => OneRename(r)
      PROVE  MeetingInv'
  <2>1. UNCHANGED tables /\ pc[r] = "idle" /\ Taken(r)
    BY <1>3, Begun
  <2>2. PICK c, w :
          call' = [call EXCEPT ![r] = c] /\ pc' = [pc EXCEPT ![r] = w] /\ Standing(c)
    BY <2>1 DEF Taken
  <2>3. call'[r] = c /\ \A q \in Requests \ {r} : call'[q] = call[q] /\ (Busy(q)' <=> Busy(q))
    BY <1>0, <2>2 DEF Busy
  <2>4. Standing(call[r])'
    BY <2>1, <2>2, <2>3 DEF tables, Standing, Whole, Stages, Pipelines, BoardNames
  <2>5. \A q \in Requests : Busy(q)' => call'[q].op \in MeetingOps /\ Standing(call[q])'
    BY <1>2, <1>3, <2>1, <2>3, <2>4 DEF MeetingInv
  <2>6. \A p, q \in Requests :
          /\ Busy(p)' /\ call'[p].op = "RENAME_PIPELINE" /\ p # q /\ Busy(q)'
          => call'[q].op # "RENAME_PIPELINE"
    BY <1>3, <2>1, <2>3 DEF MeetingInv, OneRename, Busy
  <2> QED BY <1>1, <2>1, <2>5, <2>6 DEF MeetingInv
<1>4. CASE CheckRenameStage(r)
  <2>1. call'[r].op = "RENAME_STAGE"
    BY <1>0, <1>4 DEF CheckRenameStage, Begin
  <2> QED BY <1>3, <1>4, <2>1 DEF Check, MeetingOps
<1>5. CASE CheckReorder(r)
  <2>1. call'[r].op = "REORDER"
    BY <1>0, <1>5 DEF CheckReorder, Begin
  <2> QED BY <1>3, <1>5, <2>1 DEF Check, MeetingOps
<1>6. CASE CheckRemoveStage(r)
  <2>1. call'[r].op = "REMOVE_STAGE"
    BY <1>0, <1>6 DEF CheckRemoveStage, Begin
  <2> QED BY <1>3, <1>6, <2>1 DEF Check, MeetingOps
<1>7. CASE CheckMoveLead(r)
  <2>1. call'[r].op = "MOVE_LEAD"
    BY <1>0, <1>7 DEF CheckMoveLead, Begin, PutOn
  <2> QED BY <1>3, <1>7, <2>1 DEF Check, MeetingOps
<1>8. CASE CheckEditLead(r)
  <2>1. call'[r].op = "MOVE_LEAD"
    BY <1>0, <1>8 DEF CheckEditLead, Begin, PutOn
  <2> QED BY <1>3, <1>8, <2>1 DEF Check, MeetingOps
<1>9. CASE CheckRenamePipeline(r) /\ OneRename(r)
  BY <1>0, <1>3, <1>9 DEF CheckRenamePipeline, Begin, Check, MeetingOps
<1>10. ASSUME End(r)
       PROVE  \A q \in Requests : Busy(q)' => Busy(q) /\ call'[q] = call[q]
  BY <1>0, <1>10 DEF End, Busy
<1>11. CASE Write(r)
  <2>1. \A q \in Requests : Busy(q)' => Busy(q) /\ call'[q] = call[q] /\ Standing(call[q])'
    BY <1>11, WriteEnds, OthersStand
  <2>2. BoardsExist' /\ PositionsDistinct'
    BY <1>11, BoardsStay
  <2> QED BY <2>1, <2>2 DEF MeetingInv
<1>12. CASE Refuse(r)
  BY <1>1, <1>2, <1>10, <1>12 DEF Refuse, MeetingInv
<1>13. CASE CountInStage(r) /\ ~Refuse(r)
  <2>1. UNCHANGED <<tables, call>> /\ \A q \in Requests : Busy(q)' => Busy(q)
    BY <1>0, <1>13 DEF CountInStage, Busy, At
  <2> QED BY <1>1, <1>2, <2>1 DEF MeetingInv
<1> QED
  BY <1>4, <1>5, <1>6, <1>7, <1>8, <1>9, <1>11, <1>12, <1>13 DEF Meeting, Crash

-----------------------------------------------------------------------------
(* What an edit of the catalogue leaves alone. *)

ReservedStands ==
  /\ \A l \in LiveLeads :
       {lead[l].status, lead'[l].status} \cap Reserved # {} => lead'[l].status = lead[l].status
  /\ \A s \in Stages :
       stage[s].name \in Reserved
         => \/ Live(stage'[s]) /\ stage'[s].name = stage[s].name
            \/ stage[s].board \notin BoardNames'

LEMMA ReservedStep ==
  ASSUME Typed, IdsFree, DistinctNames, NEW r \in Requests, Write(r),
         Standing(call[r]), Fits(call[r]) \/ call[r].op \in MeetingOps
  PROVE  ReservedStands
<1> DEFINE c == call[r]
<1>0. /\ stage \in [StageIds -> StageRow] /\ pipeline \in [PipelineIds -> PipelineRow]
      /\ lead \in [Leads -> LeadRow] /\ Busy(r) /\ Standing(c)
  BY WriteEnds DEF Typed, TypeOK
<1>1. ASSUME \A l \in LiveLeads : lead'[l].status = lead[l].status,
             \A s \in Stages : Live(stage'[s]) /\ stage'[s].name = stage[s].name
      PROVE  ReservedStands
  BY <1>1 DEF ReservedStands
<1>2. CASE UNCHANGED <<stage, lead>>
  BY <1>1, <1>2 DEF Stages
<1>3. CASE CreateStage(r) /\ ~Refuse(r)
  <2>1. stage[c.id].is = "unused"
    BY <1>0, <1>3 DEF CreateStage, At, IdsFree
  <2>2. lead' = lead /\ \A s \in Stages : stage'[s] = stage[s]
    BY <1>0, <1>3, <2>1 DEF CreateStage, Stages, Live
  <2> QED BY <1>1, <2>2 DEF Stages
<1>4. CASE RenameStage(r) /\ ~Refuse(r)
  <2>1. /\ stage' = [stage EXCEPT ![c.id].name = c.name] /\ lead' = Relabelled(c)
        /\ c.id \in Stages /\ stage[c.id].name \notin Reserved /\ c.name \notin Reserved
    BY <1>0, <1>4, CallOf DEF RenameStage, At, Standing, RenameStageCall
  <2>2. \A l \in LiveLeads : \/ lead'[l].status = lead[l].status
                             \/ lead[l].status = stage[c.id].name /\ lead'[l].status = c.name
    BY <1>0, <2>1 DEF Relabelled, LeadRow, LiveLeads, In
  <2>3. \A s \in Stages : Live(stage'[s]) /\ (s # c.id => stage'[s].name = stage[s].name)
    BY <1>0, <2>1 DEF StageRow, Stages, Live
  <2> QED BY <2>1, <2>2, <2>3 DEF ReservedStands
<1>5. CASE Reorder(r) /\ ~Refuse(r)
  <2>1. lead' = lead /\ \A s \in Stages : Live(stage'[s]) /\ stage'[s].name = stage[s].name
    BY <1>0, <1>5 DEF Reorder, StageRow, Stages, Live
  <2> QED BY <1>1, <2>1
<1>6. CASE RemoveStage(r) /\ ~Refuse(r)
  <2>1. /\ stage' = [stage EXCEPT ![c.id].is = "gone"] /\ lead' = lead
        /\ stage[c.id].name \notin Reserved
    BY <1>0, <1>6 DEF RemoveStage, At, Standing
  <2>2. \A s \in Stages : s # c.id => Live(stage'[s]) /\ stage'[s].name = stage[s].name
    BY <1>0, <2>1 DEF StageRow, Stages, Live
  <2> QED BY <2>1, <2>2 DEF ReservedStands
<1>7. CASE RenamePipeline(r) /\ ~Refuse(r)
  <2>1. stage' = Moved(stage, c.old, c.name) /\ lead' = Moved(lead, c.old, c.name)
    BY <1>7 DEF RenamePipeline, LeadsMoved
  <2>2. \A s \in Stages : Live(stage'[s]) /\ stage'[s].name = stage[s].name
    BY <1>0, <2>1 DEF StageRow, Stages, Live, Moved
  <2>3. \A l \in LiveLeads : lead'[l].status = lead[l].status
    BY <1>0, <2>1 DEF LeadRow, LiveLeads, Moved
  <2> QED BY <1>1, <2>2, <2>3
<1>8. CASE RemovePipeline(r) /\ ~Refuse(r)
  <2>1. /\ pipeline' = [pipeline EXCEPT ![c.id].is = "gone"]
        /\ stage' = [s \in StageIds |-> IF s \in On(c.name)
                                        THEN [stage[s] EXCEPT !.is = "gone"] ELSE stage[s]]
        /\ lead' = lead
        /\ c.id \in Pipelines /\ c.name = pipeline[c.id].name
    BY <1>0, <1>8 DEF RemovePipeline, At, Fits, MeetingOps
  <2>2. \A p \in Pipelines' : p \in Pipelines /\ p # c.id /\ pipeline'[p].name = pipeline[p].name
    BY <1>0, <2>1 DEF Pipelines, Live, PipelineRow
  <2>3. c.name \notin BoardNames'
    BY <2>1, <2>2 DEF BoardNames, DistinctNames
  <2>4. \A s \in Stages : \/ stage[s].board = c.name
                          \/ Live(stage'[s]) /\ stage'[s].name = stage[s].name
    BY <1>0, <2>1 DEF Stages, On, Live
  <2> QED BY <2>1, <2>3, <2>4 DEF ReservedStands
<1>9. CASE MoveLead(r)
  <2>1. /\ lead' = [lead EXCEPT ![c.id].status = c.name,
                                ![c.id].board = IF c.both THEN c.board ELSE @]
        /\ stage' = stage /\ lead[c.id].status \notin Reserved /\ c.name \notin Reserved
    BY <1>0, <1>9, CallOf DEF MoveLead, At, Standing, MoveLeadCall
  <2>2. \A l \in LiveLeads : \/ lead'[l].status = lead[l].status
                             \/ l = c.id /\ lead'[l].status = c.name
    BY <1>0, <2>1 DEF LeadRow, LiveLeads
  <2> QED BY <2>1, <2>2 DEF ReservedStands, Stages
<1>10. CASE CreateLead(r)
  <2>1. /\ lead' = [lead EXCEPT ![c.id] = [is |-> "live", board |-> c.board, status |-> c.name]]
        /\ stage' = stage /\ lead[c.id].is = "unused"
    BY <1>0, <1>10 DEF CreateLead, At, Fits, MeetingOps
  <2>2. \A l \in LiveLeads : lead'[l] = lead[l]
    BY <1>0, <2>1 DEF LiveLeads, Live
  <2> QED BY <1>1, <2>1, <2>2 DEF Stages
<1> QED
  BY <1>2, <1>3, <1>4, <1>5, <1>6, <1>7, <1>8, <1>9, <1>10
     DEF Write, CreatePipeline, SetDefault, SetGrants, Refuse, tables

-----------------------------------------------------------------------------
(* Theorems. *)

LEMMA PartsStep ==
  ASSUME PartsInv, [PartsNext]_<<vars, part>>
  PROVE  PartsInv' /\ [Next]_vars
<1>1. [Next]_vars
  BY DEF PartsNext, Alone, Meeting, Next, Check, vars
<1>2. Typed' /\ IdsFree' /\ DistinctNames'
  BY <1>1, TypedStep, IdsFreeStep, DistinctStep DEF PartsInv
<1>3. CASE part = "alone"
  <2>1. CASE UNCHANGED <<vars, part>>
    BY <1>2, <1>3, <2>1
       DEF PartsInv, vars, AloneInv, LeadsInColumn, OneDefault, LiveLeads, Column, On, Stages,
           Pipelines, Defaults, Busy, AloneAt, Standing, Fits, Emptied, Whole, BoardNames,
           Landing, In
  <2>2. CASE \E r \in Requests : Alone(r)
    <3>1. PICK r \in Requests : Alone(r)
      BY <2>2
    <3>2. AloneInv'
      BY <1>3, <3>1, AloneStep DEF PartsInv
    <3>3. part' = part
      BY DEF PartsNext
    <3>4. part' = "alone" /\ part' # "renames"
      BY <1>3, <3>3
    <3> QED BY <1>1, <1>2, <3>2, <3>4 DEF PartsInv
  <2> QED BY <1>3, <2>1, <2>2 DEF PartsNext
<1>4. CASE part = "renames"
  <2>1. CASE UNCHANGED <<vars, part>>
    BY <1>2, <1>4, <2>1
       DEF PartsInv, vars, MeetingInv, BoardsExist, PositionsDistinct, Stages, Pipelines,
           BoardNames, Busy, Standing, Whole
  <2>2. CASE \E r \in Requests : Meeting(r)
    <3>1. PICK r \in Requests : Meeting(r)
      BY <2>2
    <3>2. MeetingInv'
      BY <1>4, <3>1, MeetingStep DEF PartsInv
    <3>3. part' = part
      BY DEF PartsNext
    <3>4. part' = "renames" /\ part' # "alone"
      BY <1>4, <3>3
    <3> QED BY <1>1, <1>2, <3>2, <3>4 DEF PartsInv
  <2> QED BY <1>4, <2>1, <2>2 DEF PartsNext
<1>5. CASE part \notin {"alone", "renames"}
  BY <1>2, <1>5 DEF PartsInv, PartsNext
<1> QED BY <1>1, <1>3, <1>4, <1>5

LEMMA PartsStart == PartsInit => PartsInv
<1> SUFFICES ASSUME PartsInit PROVE PartsInv
  OBVIOUS
<1>1. Typed /\ Init /\ \A r \in Requests : ~Busy(r)
  BY InitTyped DEF PartsInit, Init, Busy
<1>2. DistinctNames /\ BoardsExist /\ PositionsDistinct /\ LeadsInColumn /\ OneDefault
  BY <1>1 DEF Init, DistinctNames, BoardsExist, PositionsDistinct, LeadsInColumn, StageOf, OneDefault
<1> QED BY <1>1, <1>2 DEF PartsInv, IdsFree, AloneInv, MeetingInv

LEMMA PartsAlways == PartsSpec => []PartsInv
<1>1. PartsInv /\ [PartsNext]_<<vars, part>> => PartsInv'
  BY PartsStep
<1> QED BY <1>1, PartsStart, PTL DEF PartsSpec

\* While one request is at work at a time every lead stays on a column of its board and one
\* pipeline is the default, and the positions of a board stay distinct while renames, removals,
\* new orders and moves cross: the catalogue is sound, for any boards, stages and leads.
THEOREM CatalogueStaysSound == PartsSpec => []CatalogueSound
<1>1. PartsInv => CatalogueSound
  BY DEF PartsInv, CatalogueSound, Typed, AloneInv, MeetingInv
<1> QED BY <1>1, PartsAlways, PTL

\* A rename carries the leads of its stage and no other, and no edit of the catalogue touches
\* a lead or a stage of the Logistics workflow.
THEOREM LeadsStayKept == PartsSpec => LeadsKept
<1>1. PartsInv /\ [PartsNext]_<<vars, part>> =>
        [\A s \in StageIds :
          Live(stage[s]) /\ Live(stage'[s]) /\ stage'[s].name # stage[s].name =>
            \A l \in LiveLeads :
              lead'[l] = IF l \in In(stage[s].board, stage[s].name)
                         THEN [lead[l] EXCEPT !.status = stage'[s].name] ELSE lead[l]]_vars
  BY CarriesStep, PartsStep DEF PartsInv
<1>2. ASSUME PartsInv, PartsNext, vars' # vars PROVE ReservedStands
  <2>1. ASSUME UNCHANGED tables PROVE ReservedStands
    BY <2>1 DEF tables, ReservedStands, Stages
  <2>2. PICK r \in Requests : /\ Check(r) \/ Write(r) \/ UNCHANGED tables
                              /\ \/ part = "alone" /\ Alone(r)
                                 \/ part = "renames" /\ Meeting(r)
    BY <1>2 DEF PartsNext, Alone, Meeting, Check, Crash, CountInStage, CountOnPipeline,
                ClearDefaults, Refuse
  <2>3. CASE Check(r)
    BY <1>2, <2>1, <2>3, Begun DEF PartsInv
  <2>4. CASE Write(r)
    BY <1>2, <2>2, <2>4, WriteEnds, ReservedStep DEF PartsInv, AloneInv, MeetingInv
  <2> QED BY <2>1, <2>2, <2>3, <2>4
<1>3. PartsInv /\ [PartsNext]_<<vars, part>> => [ReservedStands]_vars
  BY <1>2
<1>4. PartsSpec => RenameCarriesLeads
  BY <1>1, PartsAlways, PTL DEF PartsSpec, RenameCarriesLeads
<1>5. PartsSpec => ReservedStay
  BY <1>3, PartsAlways, PTL DEF PartsSpec, ReservedStay, ReservedStands
<1> QED BY <1>4, <1>5 DEF LeadsKept

=============================================================================
