-------------------------------- MODULE Reads --------------------------------
(***************************************************************************)
(* What is read of the leads: the reports and the dashboard (Reports,      *)
(* Worklist, Revenue, Calls), the sales funnel (Funnel), which reads the   *)
(* history of the leads instead, the exports (Exports), which read a list  *)
(* that changes, and the way of a request to its handler (Access).  They   *)
(* share no row that one of them writes, so a behaviour is of one part,    *)
(* chosen at its start.                                                    *)
(***************************************************************************)
EXTENDS Calls, Access

CONSTANTS Parts,                                                \* the parts to explore
          FunnelBoards, FunnelStages, Labels, FunnelLeads, Shipped, MaxEvents,  \* the funnel
          ExportRows, BatchSize, MaxRows, MaxListChanges                        \* the exports

VARIABLES part,
          boards, stage, lead, log, report, visited, crossed, settled, vacated,
          list, export, event, entered, left, kept

funnelVars == <<boards, stage, lead, log, report, visited, crossed, settled, vacated>>
exportVars == <<list, export, event, entered, left, kept>>
allVars == <<part, readVars, funnelVars, exportVars, accessVars>>

N == INSTANCE Funnel WITH
       None <- Null, Boards <- FunnelBoards, Stages <- FunnelStages, Names <- Labels, Leads <- FunnelLeads
E == INSTANCE Exports WITH None <- Null, Rows <- ExportRows, MaxChanges <- MaxListChanges

ASSUME ReadsConstants ==
  N!NoneIsNoRow /\ N!ShippedAssumption /\ E!BatchAssumption /\ AbsentIsNoRow

ReadsInit == part \in Parts /\ ReadInit /\ N!Init /\ E!Init /\ AccessInit

ReadsNext ==
  \/ /\ part = "reports" /\ (NextReports \/ NextFollowUps \/ NextRevenue \/ NextCalls)
     /\ UNCHANGED <<part, funnelVars, exportVars, accessVars>>
  \/ part = "funnel" /\ N!Next /\ UNCHANGED <<part, readVars, exportVars, accessVars>>
  \/ part = "exports" /\ E!Next /\ UNCHANGED <<part, readVars, funnelVars, accessVars>>
  \/ part = "access" /\ AccessNext /\ UNCHANGED <<part, readVars, funnelVars, exportVars>>

ReadsSpec == ReadsInit /\ [][ReadsNext]_allVars

-----------------------------------------------------------------------------
(* What the reports promise each other. *)

\* The owners' figures, the headings and the teams' subtotals agree with the reports they sum up.
ReportsAgree == OwnersMatchReports /\ HeadingsAgree /\ TeamsAddUp

\* Every answer stays within what its reader may see: the lists and the reports within the asker's
\* scope, and what a route serves within what the account behind the request allows.
SeenAsAllowed == WithinScope /\ (part = "access" => RequestsTyped /\ ServedAsAllowed)

\* The tables of routes: each route can be reached, a post-sale role reaches only its own path, and
\* who may change a record may read it.  They are constant: one state is enough.
RoutesSound == part = "access" /\ AccessInit => EachIsReached /\ OperationalShut /\ ReadsWhatItChanges

\* Money, conversions and calls add up to the same totals wherever they are shown, the tabs of the
\* worklist tile the follow-ups, and a counter is the length of its list.
FiguresAddUp ==
  RevenueAddsUp /\ BoardsMatchReports /\ CallsAddUp /\ TabsTile /\ CountersMatchLists

\* The pages of the deals make one list in groups, and an export is the list it was asked for but
\* for as many rows as changed under it.
ListsWhole == DealsInGroups /\ (part = "exports" => E!TypeOK /\ E!ExportKeeps)

\* The pages of the orders' export never repeat or skip a row.
NeverSkips == part = "exports" => E!NeverSkips

\* The sales funnel counts in a stage exactly the leads that have been in it.
FunnelExact == part = "funnel" => N!TypeOK /\ N!FunnelExact

==============================================================================
