------------------------------ MODULE Catalogue ------------------------------
(***************************************************************************)
(* The pipelines and stages administrators edit while Sales moves leads    *)
(* over them.  They are joined by name only: a lead stores its pipeline's  *)
(* and its stage's names, a stage its pipeline's, a member the names of    *)
(* the pipelines granted to them.                                          *)
(*                                                                         *)
(* A request checks on unlocked reads, then writes in one transaction, so  *)
(* it is two or three steps: its reads, a count that guards a delete, and  *)
(* the transaction.  Leads that read WON or QC NOT APPROVED belong to the  *)
(* Logistics workflow (module Logistics) and no lead request moves them.   *)
(***************************************************************************)
EXTENDS Integers, FiniteSetsExt

CONSTANTS StageIds, PipelineIds, Leads, Users,
          Boards,      \* pipeline names
          Names,       \* stage names
          Requests,    \* the requests in flight at one time
          Operations,  \* the operations requests may be for
          None

WON == "WON"
QCNotApproved == "QC NOT APPROVED"
Reserved == {WON, QCNotApproved}

Life == {"unused", "live", "gone"}
StageRow    == [is: Life, board: Boards \cup {None}, name: Names \cup {None},
                position: Nat]
PipelineRow == [is: Life, name: Boards \cup {None}, isDefault: BOOLEAN]
LeadRow     == [is: Life, board: Boards \cup {None}, status: Names \cup {None}]

\* There are finitely many rows, and NULL is no name.
ASSUME Sizes == IsFiniteSet(StageIds) /\ IsFiniteSet(PipelineIds)
ASSUME NoneIsNoName == None \notin Boards \cup Names \cup Requests

NoStage    == [is |-> "unused", board |-> None, name |-> None, position |-> 0]
NoPipeline == [is |-> "unused", name |-> None, isDefault |-> FALSE]
NoLead     == [is |-> "unused", board |-> None, status |-> None]

VARIABLES stage,     \* [StageIds -> StageRow]        committed rows of stages
          pipeline,  \* [PipelineIds -> PipelineRow]  committed rows of pipelines
          lead,      \* [Leads -> LeadRow]            committed rows of leads
          grants,    \* [Users -> SUBSET Boards]      users.pipelines
          pc,        \* [Requests -> where the request is]
          call,      \* [Requests -> its operation, inputs and what it has read]
          rowLock    \* [PipelineIds -> the request whose open transaction wrote it]

vars == <<stage, pipeline, lead, grants, pc, call, rowLock>>
tables == <<stage, pipeline, lead, grants>>

Live(row) == row.is = "live"
Stages     == {s \in StageIds : Live(stage[s])}
Pipelines  == {p \in PipelineIds : Live(pipeline[p])}
LiveLeads  == {l \in Leads : Live(lead[l])}
BoardNames == {pipeline[p].name : p \in Pipelines}
On(b)      == {s \in Stages : stage[s].board = b}
In(b, n)   == {l \in LiveLeads : lead[l].board = b /\ lead[l].status = n}
Defaults   == {p \in Pipelines : pipeline[p].isDefault}

\* StagesService.exists: the pipeline's name is on a stage of this name.
Column(b, n) == \E s \in On(b) : stage[s].name = n

\* stageOfPipeline: and the pipeline itself exists.
StageOf(b, n) == b \in BoardNames /\ Column(b, n)

\* firstStageName: the stages a read ordered by position may return first.
First(b) == {s \in On(b) : \A t \in On(b) : stage[s].position <= stage[t].position}

\* Every column of a row holds a value of its type, and no row's name columns are null.
TypeOK ==
  /\ stage \in [StageIds -> StageRow]
  /\ pipeline \in [PipelineIds -> PipelineRow]
  /\ lead \in [Leads -> LeadRow]
  /\ \A s \in Stages : None \notin {stage[s].board, stage[s].name}
  /\ \A p \in Pipelines : pipeline[p].name # None
  /\ \A l \in LiveLeads : None \notin {lead[l].board, lead[l].status}
  /\ grants \in [Users -> SUBSET Boards]
  /\ pc \in [Requests -> {"idle", "count", "clear", "commit"}]
  /\ rowLock \in [PipelineIds -> Requests \cup {None}]

\* A catalogue the earlier requests left: one default, distinct names and positions,
\* every lead on a stage of its pipeline, every grant a pipeline's name.
Init ==
  /\ stage \in [StageIds -> {NoStage} \cup
                  [is: {"live"}, board: Boards, name: Names, position: 0..Cardinality(StageIds) - 1]]
  /\ pipeline \in [PipelineIds -> {NoPipeline} \cup
                     [is: {"live"}, name: Boards, isDefault: BOOLEAN]]
  /\ \A p, q \in Pipelines : p # q => pipeline[p].name # pipeline[q].name
  /\ \A s, t \in Stages : s # t /\ stage[s].board = stage[t].board
       => stage[s].name # stage[t].name /\ stage[s].position # stage[t].position
  /\ \A s \in Stages : stage[s].board \in BoardNames
                       /\ stage[s].position < Cardinality(On(stage[s].board))
  /\ Cardinality(Defaults) = (IF Pipelines = {} THEN 0 ELSE 1)
  /\ lead \in [Leads -> {NoLead} \cup [is: {"live"}, board: Boards, status: Names]]
  /\ \A l \in LiveLeads : StageOf(lead[l].board, lead[l].status)
  /\ grants \in [Users -> SUBSET BoardNames]
  /\ pc = [r \in Requests |-> "idle"]
  /\ call = [r \in Requests |-> None]
  /\ rowLock = [p \in PipelineIds |-> None]

-----------------------------------------------------------------------------
(* Requests *)

\* The checks have passed: the request holds its inputs and what it read.
Begin(r, op, c, where) ==
  /\ op \in Operations
  /\ call' = [call EXCEPT ![r] = c]
  /\ pc' = [pc EXCEPT ![r] = where]
  /\ UNCHANGED <<tables, rowLock>>

End(r) ==
  /\ pc' = [pc EXCEPT ![r] = "idle"]
  /\ call' = [call EXCEPT ![r] = None]
  /\ rowLock' = [p \in PipelineIds |-> IF rowLock[p] = r THEN None ELSE rowLock[p]]

Refuse(r) == End(r) /\ UNCHANGED tables

\* The process dies, the client goes away, or PostgreSQL aborts the transaction.
Crash(r) == pc[r] # "idle" /\ Refuse(r)

Idle(r, op) == pc[r] = "idle" /\ op \in Operations
At(r, where, op) == pc[r] = where /\ call[r].op = op

Free(p, r) == rowLock[p] \in {None, r}

-----------------------------------------------------------------------------
(* StagesService *)

\* The position after the last one; the name is checked again by its unique index.
CheckCreateStage(r) ==
  /\ Idle(r, "CREATE_STAGE")
  /\ \E b \in Boards, n \in Names \ Reserved, s \in StageIds :
       /\ ~Column(b, n)
       /\ ~\E q \in Requests : pc[q] # "idle" /\ call[q].op = "CREATE_STAGE" /\ call[q].id = s
       /\ stage[s].is = "unused"
       /\ Begin(r, "CREATE_STAGE",
                [op |-> "CREATE_STAGE", id |-> s, board |-> b, name |-> n,
                 position |-> 1 + Max({-1} \cup {stage[t].position : t \in On(b)})],
                "commit")

CreateStage(r) ==
  LET c == call[r]
  IN /\ At(r, "commit", "CREATE_STAGE")
     /\ IF Column(c.board, c.name) THEN Refuse(r)
        ELSE /\ stage' = [stage EXCEPT ![c.id] = [is |-> "live", board |-> c.board,
                                                  name |-> c.name, position |-> c.position]]
             /\ UNCHANGED <<pipeline, lead, grants>>
             /\ End(r)

\* Mutant: any stage can be renamed and deleted.
NothingReserved(n) == FALSE

\* guardReservedStageName
Guarded(n) == n \in Reserved

CheckRenameStage(r) ==
  /\ Idle(r, "RENAME_STAGE")
  /\ \E s \in Stages, n \in Names :
       /\ n # stage[s].name
       /\ ~Guarded(stage[s].name) /\ ~Guarded(n)
       /\ ~Column(stage[s].board, n)
       /\ Begin(r, "RENAME_STAGE",
                [op |-> "RENAME_STAGE", id |-> s, board |-> stage[s].board,
                 old |-> stage[s].name, name |-> n],
                "commit")

\* Mutant: the cascade uses the name read before the lock.
RelabelsRead(c) ==
  [l \in Leads |-> IF l \in In(c.board, c.old) THEN [lead[l] EXCEPT !.status = c.name]
                   ELSE lead[l]]

\* The cascade of a rename: the leads of the stage, by the name it has under its lock.
Relabelled(c) ==
  [l \in Leads |-> IF l \in In(stage[c.id].board, stage[c.id].name)
                   THEN [lead[l] EXCEPT !.status = c.name] ELSE lead[l]]

RenameStage(r) ==
  LET c == call[r]
  IN /\ At(r, "commit", "RENAME_STAGE")
     /\ IF c.id \notin Stages
           \/ \E s \in On(stage[c.id].board) \ {c.id} : stage[s].name = c.name
        THEN Refuse(r)
        ELSE /\ stage' = [stage EXCEPT ![c.id].name = c.name]
             /\ lead' = Relabelled(c)
             /\ UNCHANGED <<pipeline, grants>>
             /\ End(r)

\* Mutant: an order that lists only some of the stages is taken.
AnyOrder(b, f) == DOMAIN f \subseteq On(b)

\* sameSet: the new order lists every stage of the board, each once.
WholeOrder(b, f) == DOMAIN f = On(b)

Orders(T) == {f \in [T -> 0..Cardinality(T) - 1] : \A s, t \in T : s # t => f[s] # f[t]}

CheckReorder(r) ==
  /\ Idle(r, "REORDER")
  /\ \E b \in Boards : \E T \in (SUBSET On(b)) \ {{}} : \E f \in Orders(T) :
       /\ WholeOrder(b, f)
       /\ Begin(r, "REORDER", [op |-> "REORDER", board |-> b, order |-> f], "commit")

Reorder(r) ==
  LET f == call[r].order
  IN /\ At(r, "commit", "REORDER")
     /\ IF \E s \in DOMAIN f : s \notin Stages THEN Refuse(r)
        ELSE /\ stage' = [s \in StageIds |-> IF s \in DOMAIN f
                                             THEN [stage[s] EXCEPT !.position = f[s]]
                                             ELSE stage[s]]
             /\ UNCHANGED <<pipeline, lead, grants>>
             /\ End(r)

CheckRemoveStage(r) ==
  /\ Idle(r, "REMOVE_STAGE")
  /\ \E s \in Stages :
       /\ ~Guarded(stage[s].name)
       /\ Begin(r, "REMOVE_STAGE",
                [op |-> "REMOVE_STAGE", id |-> s, board |-> stage[s].board,
                 name |-> stage[s].name],
                "count")

\* Mutant: a stage that holds leads can be deleted.
NoneCounted(b, n) == {}

\* The leads, archived ones too, that a stage's removal counts.
Counted(b, n) == In(b, n)

CountInStage(r) ==
  /\ At(r, "count", "REMOVE_STAGE")
  /\ IF Counted(call[r].board, call[r].name) # {} THEN Refuse(r)
     ELSE /\ pc' = [pc EXCEPT ![r] = "commit"]
          /\ UNCHANGED <<tables, call, rowLock>>

RemoveStage(r) ==
  /\ At(r, "commit", "REMOVE_STAGE")
  /\ IF call[r].id \notin Stages THEN Refuse(r)
     ELSE /\ stage' = [stage EXCEPT ![call[r].id].is = "gone"]
          /\ UNCHANGED <<pipeline, lead, grants>>
          /\ End(r)

-----------------------------------------------------------------------------
(* PipelinesService *)

CheckCreatePipeline(r) ==
  /\ Idle(r, "CREATE_PIPELINE")
  /\ \E p \in PipelineIds, b \in Boards \ BoardNames :
       /\ pipeline[p].is = "unused"
       /\ ~\E q \in Requests : pc[q] # "idle" /\ call[q].op = "CREATE_PIPELINE" /\ call[q].id = p
       /\ Begin(r, "CREATE_PIPELINE",
                [op |-> "CREATE_PIPELINE", id |-> p, name |-> b,
                 isDefault |-> Pipelines = {}],
                "commit")

CreatePipeline(r) ==
  LET c == call[r]
  IN /\ At(r, "commit", "CREATE_PIPELINE")
     /\ IF c.name \in BoardNames THEN Refuse(r)
        ELSE /\ pipeline' = [pipeline EXCEPT ![c.id] = [is |-> "live", name |-> c.name,
                                                        isDefault |-> c.isDefault]]
             /\ UNCHANGED <<stage, lead, grants>>
             /\ End(r)

\* Reads the row, and the members whose grants the rename will rewrite.
CheckRenamePipeline(r) ==
  /\ Idle(r, "RENAME_PIPELINE")
  /\ \E p \in Pipelines, b \in Boards \ BoardNames :
       Begin(r, "RENAME_PIPELINE",
             [op |-> "RENAME_PIPELINE", id |-> p, old |-> pipeline[p].name, name |-> b,
              holders |-> [u \in {v \in Users : pipeline[p].name \in grants[v]} |-> grants[u]]],
             "commit")

Moved(rows, old, new) ==
  [i \in DOMAIN rows |-> IF Live(rows[i]) /\ rows[i].board = old
                         THEN [rows[i] EXCEPT !.board = new] ELSE rows[i]]

\* Mutants: the rename leaves the board's leads behind, or clears their pipeline.
LeadsStay(old, new) == lead
LeadsCleared(old, new) == Moved(lead, old, None)

LeadsMoved(old, new) == Moved(lead, old, new)

\* The pipeline by its id; its leads, stages and holders by the name that was read.
RenamePipeline(r) ==
  LET c == call[r]
      renamed == Moved(stage, c.old, c.name)
  IN /\ At(r, "commit", "RENAME_PIPELINE")
     /\ c.id \in Pipelines => Free(c.id, r)
     /\ IF \/ c.id \notin Pipelines
           \/ \E p \in Pipelines \ {c.id} : pipeline[p].name = c.name
           \/ \E s, t \in Stages : /\ s # t
                                   /\ renamed[s].board = renamed[t].board
                                   /\ renamed[s].name = renamed[t].name
        THEN Refuse(r)
        ELSE /\ pipeline' = [pipeline EXCEPT ![c.id].name = c.name]
             /\ lead' = LeadsMoved(c.old, c.name)
             /\ stage' = renamed
             /\ grants' = [u \in Users |->
                             IF u \in DOMAIN c.holders
                             THEN (c.holders[u] \ {c.old}) \cup {c.name} ELSE grants[u]]
             /\ End(r)

\* The statement that clears the other defaults sees the rows committed when it starts.
CheckSetDefault(r) ==
  /\ Idle(r, "SET_DEFAULT")
  /\ \E p \in Pipelines :
       Begin(r, "SET_DEFAULT", [op |-> "SET_DEFAULT", id |-> p, clears |-> Defaults \ {p}],
             "clear")

\* It waits for the rows it saw, skips one that is no longer a default, holds the rest.
ClearDefaults(r) ==
  LET c == call[r]
      still == c.clears \cap Defaults
  IN /\ At(r, "clear", "SET_DEFAULT")
     /\ \A p \in c.clears : Free(p, r)
     /\ rowLock' = [p \in PipelineIds |-> IF p \in still THEN r ELSE rowLock[p]]
     /\ call' = [call EXCEPT ![r].clears = still]
     /\ pc' = [pc EXCEPT ![r] = "commit"]
     /\ UNCHANGED tables

\* Mutant: the previous default keeps its flag.
ClearsNone(c) == {}

Cleared(c) == c.clears

SetDefault(r) ==
  LET c == call[r]
  IN /\ At(r, "commit", "SET_DEFAULT")
     /\ c.id \in Pipelines => Free(c.id, r)
     /\ IF c.id \notin Pipelines THEN Refuse(r)
        ELSE /\ pipeline' = [p \in PipelineIds |->
                               IF p = c.id THEN [pipeline[p] EXCEPT !.isDefault = TRUE]
                               ELSE IF p \in Cleared(c)
                               THEN [pipeline[p] EXCEPT !.isDefault = FALSE]
                               ELSE pipeline[p]]
             /\ UNCHANGED <<stage, lead, grants>>
             /\ End(r)

CheckRemovePipeline(r) ==
  /\ Idle(r, "REMOVE_PIPELINE")
  /\ \E p \in Pipelines \ Defaults :
       Begin(r, "REMOVE_PIPELINE",
             [op |-> "REMOVE_PIPELINE", id |-> p, name |-> pipeline[p].name], "count")

CountOnPipeline(r) ==
  /\ At(r, "count", "REMOVE_PIPELINE")
  /\ IF \E l \in LiveLeads : lead[l].board = call[r].name THEN Refuse(r)
     ELSE /\ pc' = [pc EXCEPT ![r] = "commit"]
          /\ UNCHANGED <<tables, call, rowLock>>

\* Its stages go with it; users.pipelines is not touched.
RemovePipeline(r) ==
  LET c == call[r]
  IN /\ At(r, "commit", "REMOVE_PIPELINE")
     /\ c.id \in Pipelines => Free(c.id, r)
     /\ IF c.id \notin Pipelines THEN Refuse(r)
        ELSE /\ pipeline' = [pipeline EXCEPT ![c.id].is = "gone"]
             /\ stage' = [s \in StageIds |-> IF s \in On(c.name)
                                             THEN [stage[s] EXCEPT !.is = "gone"] ELSE stage[s]]
             /\ UNCHANGED <<lead, grants>>
             /\ End(r)

-----------------------------------------------------------------------------
(* The requests that put leads on stages, and grants on members. *)

PutOn(l, both, b, n, kept) ==
  [op |-> "MOVE_LEAD", id |-> l, both |-> both, board |-> b, name |-> n, kept |-> kept]

\* The board's drag and the status action write the status alone.  The drag looks for
\* the stage only, the status action for the pipeline too.
CheckMoveLead(r) ==
  /\ Idle(r, "MOVE_LEAD")
  /\ \E l \in LiveLeads, n \in Names \ Reserved :
       /\ lead[l].status \notin Reserved
       /\ Column(lead[l].board, n)
       /\ Begin(r, "MOVE_LEAD", PutOn(l, FALSE, lead[l].board, n, FALSE), "commit")

\* An edit writes both columns, with the lead's own values when it leaves them out; it
\* looks the pair up only when it differs from what it read.
CheckEditLead(r) ==
  /\ Idle(r, "EDIT_LEAD")
  /\ \E l \in LiveLeads, b \in Boards, n \in Names :
       LET kept == b = lead[l].board /\ n = lead[l].status
       IN /\ lead[l].status \notin Reserved
          /\ kept \/ (n \notin Reserved /\ StageOf(b, n))
          /\ Begin(r, "EDIT_LEAD", PutOn(l, TRUE, b, n, kept), "commit")

\* Change Pipeline looks for the first stage under the name, never for the pipeline.
CheckChangePipeline(r) ==
  /\ Idle(r, "CHANGE_PIPELINE")
  /\ \E l \in LiveLeads, b \in Boards : \E s \in First(b) :
       /\ {lead[l].status, stage[s].name} \cap Reserved = {}
       /\ Begin(r, "CHANGE_PIPELINE", PutOn(l, TRUE, b, stage[s].name, FALSE), "commit")

MoveLead(r) ==
  LET c == call[r]
  IN /\ At(r, "commit", "MOVE_LEAD")
     /\ lead' = [lead EXCEPT ![c.id].status = c.name,
                             ![c.id].board = IF c.both THEN c.board ELSE @]
     /\ UNCHANGED <<stage, pipeline, grants>>
     /\ End(r)

CheckCreateLead(r) ==
  /\ Idle(r, "CREATE_LEAD")
  /\ \E b \in Boards, n \in Names \ Reserved, l \in Leads :
       /\ StageOf(b, n)
       /\ lead[l].is = "unused"
       /\ ~\E q \in Requests : pc[q] # "idle" /\ call[q].op = "CREATE_LEAD" /\ call[q].id = l
       /\ Begin(r, "CREATE_LEAD",
                [op |-> "CREATE_LEAD", id |-> l, board |-> b, name |-> n], "commit")

CreateLead(r) ==
  LET c == call[r]
  IN /\ At(r, "commit", "CREATE_LEAD")
     /\ lead' = [lead EXCEPT ![c.id] = [is |-> "live", board |-> c.board, status |-> c.name]]
     /\ UNCHANGED <<stage, pipeline, grants>>
     /\ End(r)

\* validateConfig: the pipelines of a member are pipelines when it looks.
CheckGrants(r) ==
  /\ Idle(r, "SET_GRANTS")
  /\ \E u \in Users, B \in SUBSET BoardNames :
       Begin(r, "SET_GRANTS", [op |-> "SET_GRANTS", id |-> u, boards |-> B], "commit")

SetGrants(r) ==
  /\ At(r, "commit", "SET_GRANTS")
  /\ grants' = [grants EXCEPT ![call[r].id] = call[r].boards]
  /\ UNCHANGED <<stage, pipeline, lead>>
  /\ End(r)

-----------------------------------------------------------------------------
Check(r) ==
  \/ CheckCreateStage(r) \/ CheckRenameStage(r) \/ CheckReorder(r) \/ CheckRemoveStage(r)
  \/ CheckCreatePipeline(r) \/ CheckRenamePipeline(r) \/ CheckSetDefault(r)
  \/ CheckRemovePipeline(r) \/ CheckMoveLead(r) \/ CheckEditLead(r)
  \/ CheckChangePipeline(r) \/ CheckCreateLead(r) \/ CheckGrants(r)

Write(r) ==
  \/ CreateStage(r) \/ RenameStage(r) \/ Reorder(r) \/ RemoveStage(r)
  \/ CreatePipeline(r) \/ RenamePipeline(r) \/ SetDefault(r) \/ RemovePipeline(r)
  \/ MoveLead(r) \/ CreateLead(r) \/ SetGrants(r)

Next ==
  \E r \in Requests :
    \/ Check(r) \/ Write(r) \/ Crash(r)
    \/ CountInStage(r) \/ CountOnPipeline(r) \/ ClearDefaults(r)

Spec == Init /\ [][Next]_vars

-----------------------------------------------------------------------------
(* What the catalogue must keep. *)

\* Every lead, archived ones too, is in a column of its own pipeline's board.
LeadsInColumn == \A l \in LiveLeads : Column(lead[l].board, lead[l].status)

\* A lead's pipeline exists.
LeadPipelinesExist == \A l \in LiveLeads : lead[l].board \in BoardNames

\* One pipeline is the default whenever there is a pipeline.
OneDefault == Cardinality(Defaults) = (IF Pipelines = {} THEN 0 ELSE 1)

\* A rename carries exactly the leads of the stage, whatever name the request read.
RenameCarriesLeads ==
  [][\A s \in StageIds :
      Live(stage[s]) /\ Live(stage'[s]) /\ stage'[s].name # stage[s].name =>
        \A l \in LiveLeads :
          lead'[l] = IF l \in In(stage[s].board, stage[s].name)
                     THEN [lead[l] EXCEPT !.status = stage'[s].name] ELSE lead[l]]_vars

\* No edit of the catalogue converts a lead, takes one out of WON or QC NOT APPROVED,
\* or loses one of the two stages from a pipeline that stays.
ReservedStay ==
  [][/\ \A l \in LiveLeads :
          {lead[l].status, lead'[l].status} \cap Reserved # {}
            => lead'[l].status = lead[l].status
     /\ \A s \in Stages :
          stage[s].name \in Reserved
            => \/ Live(stage'[s]) /\ stage'[s].name = stage[s].name
               \/ stage[s].board \notin BoardNames']_vars

\* The order of a board stays total: no two of its stages share a position.
PositionsDistinct ==
  \A s, t \in Stages :
    s # t /\ stage[s].board = stage[t].board => stage[s].position # stage[t].position

\* The catalogue never holds two default pipelines.
NeverTwoDefaults == Cardinality(Defaults) <= 1

\* An edit that leaves a lead's pipeline and status out keeps the lead's own.
EditKeepsColumn ==
  [][\A r \in Requests :
       At(r, "commit", "MOVE_LEAD") /\ call[r].kept /\ pc'[r] = "idle"
         => lead'[call[r].id] = lead[call[r].id]]_vars
==============================================================================
