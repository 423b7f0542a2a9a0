------------------------------- MODULE Funnel --------------------------------
(***************************************************************************)
(* The full view of the sales funnel report: the leads that have ever been *)
(* in each stage of a board, told from the status moves and stage renames  *)
(* that the audit log holds.  Leads, stages and the log know stages and    *)
(* boards by their names, which change: a rename of either relabels the    *)
(* leads without a move, and the log is never rewritten.                   *)
(*                                                                         *)
(* A change is one transaction here (what two of them can do to each other *)
(* is Catalogue's); a report reads statement by statement among them.      *)
(***************************************************************************)
EXTENDS Naturals, Sequences

CONSTANTS None,
          Boards,     \* the names of boards
          Stages,     \* the rows stages may come to hold
          Shipped,    \* [stages -> row or None], the stages there are at first
          Names,      \* the names of stages
          Leads,
          MaxEvents   \* bound: the moves and renames the log comes to hold

VARIABLES boards,   \* pipelines.name
          stage,    \* stages, None: no row yet or no more
          lead,     \* leads.pipeline and leads.status, None: no row yet
          log,      \* audit_events: the moves of leads and renames of stages, oldest first
          report,   \* the report that is being read, None: none
          visited,  \* history: the stages each lead has been in
          crossed,  \* history: the leads that changed their board
          settled,  \* history: the boards never renamed
          vacated   \* history: the names of removed stages, by board

vars == <<boards, stage, lead, log, report, visited, crossed, settled, vacated>>

\* reused: the name is one a removed stage of the board had (history).
StageRow == [pipeline: Boards, name: Names, reused: BOOLEAN]
LeadRow == [pipeline: Boards, status: Names]
Move == [kind: {"move"}, lead: Leads, from: Names, to: Names]
Rename == [kind: {"rename"}, pipeline: Boards, from: Names, to: Names]

\* late: a name changed since the report's first read (history).
Report == [step: {"renames", "leads", "done"}, pipeline: Boards, stages: SUBSET Stages,
           names: [Stages -> Names \cup {None}], renames: SUBSET (1 .. MaxEvents),
           counts: [Names -> SUBSET Leads], of: SUBSET Leads, late: BOOLEAN]

NoneIsNoRow == None \notin Names \cup StageRow \cup LeadRow \cup Report

\* A board's stages have names of their own.
ShippedAssumption ==
  /\ MaxEvents \in Nat /\ Shipped \in [Stages -> StageRow \cup {None}]
  /\ \A s, t \in {x \in Stages : Shipped[x] # None} :
       Shipped[s].pipeline = Shipped[t].pipeline /\ Shipped[s].name = Shipped[t].name => s = t

TypeOK ==
  /\ boards \subseteq Boards
  /\ stage \in [Stages -> StageRow \cup {None}]
  /\ lead \in [Leads -> LeadRow \cup {None}]
  /\ log \in Seq(Move \cup Rename)
  /\ report \in Report \cup {None}

Init ==
  /\ boards \in SUBSET Boards /\ \A s \in Stages : Shipped[s] # None => Shipped[s].pipeline \in boards
  /\ stage = Shipped
  /\ lead = [l \in Leads |-> None]
  /\ log = <<>>
  /\ report = None
  /\ visited = [l \in Leads |-> {}]
  /\ crossed = {} /\ settled = boards /\ vacated = {}

-----------------------------------------------------------------------------
On(b) == {s \in Stages : stage[s] # None /\ stage[s].pipeline = b}
LeadsOn(b) == {l \in Leads : lead[l] # None /\ lead[l].pipeline = b}
Taken(b) == {stage[s].name : s \in On(b)}

Record(event) == Len(log) < MaxEvents /\ log' = Append(log, event)

\* A report that is under way has read names that are no longer those.
NamesChange == report' = IF report = None THEN None ELSE [report EXCEPT !.late = TRUE]
Done == report # None /\ report.step = "done"

createStage(s, b, n) ==
  /\ stage[s] = None /\ n \notin Taken(b)
  /\ \A l \in Leads : s \notin visited[l]
  /\ stage' = [stage EXCEPT ![s] = [pipeline |-> b, name |-> n, reused |-> <<b, n>> \in vacated]]
  /\ NamesChange
  /\ UNCHANGED <<boards, lead, log, visited, crossed, settled, vacated>>

\* Relabels the leads in the stage; one event on the stage, with the board's name of the time.
renameStage(s, n) ==
  LET b == stage[s].pipeline  old == stage[s].name IN
  /\ stage[s] # None /\ n \notin Taken(b)
  /\ stage' = [stage EXCEPT ![s].name = n, ![s].reused = @ \/ <<b, n>> \in vacated]
  /\ lead' = [l \in Leads |-> IF l \in LeadsOn(b) /\ lead[l].status = old
                              THEN [lead[l] EXCEPT !.status = n] ELSE lead[l]]
  /\ Record([kind |-> "rename", pipeline |-> b, from |-> old, to |-> n])
  /\ NamesChange
  /\ UNCHANGED <<boards, visited, crossed, settled, vacated>>

\* Refused while a lead is in the stage.
removeStage(s) ==
  LET b == stage[s].pipeline IN
  /\ stage[s] # None /\ \A l \in LeadsOn(b) : lead[l].status # stage[s].name
  /\ stage' = [stage EXCEPT ![s] = None]
  /\ vacated' = vacated \cup {<<b, stage[s].name>>}
  /\ NamesChange
  /\ UNCHANGED <<boards, lead, log, visited, crossed, settled>>

\* Relabels the leads and the stages; the event is on the board, which the report does not read.
renamePipeline(b, c) ==
  LET named(x) == IF x = b THEN c ELSE x IN
  /\ b \in boards /\ c \notin boards
  /\ boards' = (boards \ {b}) \cup {c}
  /\ stage' = [s \in Stages |-> IF stage[s] = None THEN None
                                ELSE [stage[s] EXCEPT !.pipeline = named(@)]]
  /\ lead' = [l \in Leads |-> IF lead[l] = None THEN None
                              ELSE [lead[l] EXCEPT !.pipeline = named(@)]]
  /\ settled' = settled \ {b, c}
  /\ vacated' = {<<named(x[1]), x[2]>> : x \in vacated}
  /\ NamesChange
  /\ UNCHANGED <<log, visited, crossed>>

\* By the form or the import: the first stage of a lead is in no event.
createLead(l, s) ==
  /\ lead[l] = None /\ stage[s] # None
  /\ lead' = [lead EXCEPT ![l] = [pipeline |-> stage[s].pipeline, status |-> stage[s].name]]
  /\ visited' = [visited EXCEPT ![l] = {s}]
  /\ UNCHANGED <<boards, stage, log, report, crossed, settled, vacated>>

\* One event with both ends of the move.
Enter(l, s) ==
  /\ lead' = [lead EXCEPT ![l] = [pipeline |-> stage[s].pipeline, status |-> stage[s].name]]
  /\ visited' = [visited EXCEPT ![l] = @ \cup {s}]
  /\ IF stage[s].name = lead[l].status THEN UNCHANGED log
     ELSE Record([kind |-> "move", lead |-> l, from |-> lead[l].status, to |-> stage[s].name])

moveLead(l, s) ==
  /\ lead[l] # None /\ stage[s] # None
  /\ lead[l].pipeline = stage[s].pipeline /\ lead[l].status # stage[s].name
  /\ Enter(l, s)
  /\ UNCHANGED <<boards, stage, report, crossed, settled, vacated>>

\* To the first stage of the other board, whichever that is.
changePipeline(l, s) ==
  /\ lead[l] # None /\ stage[s] # None /\ lead[l].pipeline # stage[s].pipeline
  /\ Enter(l, s)
  /\ crossed' = crossed \cup {l}
  /\ UNCHANGED <<boards, stage, report, settled, vacated>>

-----------------------------------------------------------------------------
(* The report. *)

\* The renames recorded under the board's present name.
renames(b) == {i \in DOMAIN log : log[i].kind = "rename" /\ log[i].pipeline = b}

\* Mutant: whenever the rename was.
RenamedAtAnyTime(name, at, known) ==
  LET current[i \in 0 .. Len(log)] ==
        IF i = 0 THEN name
        ELSE IF i \in known /\ log[i].from = current[i - 1] THEN log[i].to ELSE current[i - 1]
  IN current[Len(log)]

\* What the stage an event names is called now: the later renames of that name, oldest first.
stageNameNow(name, at, known) ==
  LET current[i \in 0 .. Len(log)] ==
        IF i = 0 THEN name
        ELSE IF i \in known /\ i > at /\ log[i].from = current[i - 1] THEN log[i].to
        ELSE current[i - 1]
  IN current[Len(log)]

\* The names of the stages a lead has been in: the present one, and both ends of its moves.
stagesOf(l, known) ==
  {lead[l].status} \cup
    UNION {{stageNameNow(log[i].from, i, known), stageNameNow(log[i].to, i, known)} :
           i \in {j \in DOMAIN log : log[j].kind = "move" /\ log[j].lead = l}}

readStages(b) ==
  /\ report = None /\ b \in boards
  /\ report' = [step |-> "renames", pipeline |-> b, stages |-> On(b),
                names |-> [s \in Stages |-> IF s \in On(b) THEN stage[s].name ELSE None],
                renames |-> {}, counts |-> [n \in Names |-> {}], of |-> {}, late |-> FALSE]

readRenames ==
  /\ report # None /\ report.step = "renames"
  /\ report' = [report EXCEPT !.step = "leads", !.renames = renames(report.pipeline)]

\* The leads a batch at a time, each with its moves; a name no stage has is not shown.
progression ==
  LET of == LeadsOn(report.pipeline) IN
  /\ report # None /\ report.step = "leads"
  /\ report' = [report EXCEPT !.step = "done", !.of = of,
                  !.counts = [n \in Names |-> {l \in of : n \in stagesOf(l, report.renames)}]]

answered == Done /\ report' = None

Read ==
  /\ \/ \E b \in boards : readStages(b)
     \/ readRenames \/ progression \/ answered
  /\ UNCHANGED <<boards, stage, lead, log, visited, crossed, settled, vacated>>

Next ==
  \/ Read
  \/ ~Done /\
    (\/ \E s \in Stages, n \in Names :
          \/ \E b \in boards : createStage(s, b, n)
          \/ renameStage(s, n)
     \/ \E s \in Stages : removeStage(s)
     \/ \E b, c \in Boards : renamePipeline(b, c)
     \/ \E l \in Leads, s \in Stages :
          createLead(l, s) \/ moveLead(l, s) \/ changePipeline(l, s))

-----------------------------------------------------------------------------
(* Properties. *)

\* The full view counts in a stage exactly the leads that have been in it, whatever stages were
\* renamed, removed and added meanwhile - unless the report's own reads fell around such a
\* change, the stage took the name of a removed one, the lead came from another board, or the
\* board was renamed.
FunnelExact ==
  Done /\ ~report.late /\ report.pipeline \in settled =>
    \A s \in report.stages, l \in report.of \ crossed :
      ~stage[s].reused => (l \in report.counts[report.names[s]] <=> s \in visited[l])

\* sales-funnel-progression.ts:4: the view counts a lead in every stage it has ever been in.
EveryStageCounted ==
  Done /\ ~report.late =>
    \A s \in report.stages, l \in report.of : s \in visited[l] => l \in report.counts[report.names[s]]
=============================================================================
