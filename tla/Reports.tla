------------------------------- MODULE Reports -------------------------------
(***************************************************************************)
(* The reports (src/src/reports) and the dashboard's counters: what each   *)
(* endpoint answers over the leads table.  Each of them reads the table    *)
(* with a condition and groups of its own, and the same leads are counted  *)
(* under several headings: an owner's converted leads, the converted       *)
(* leads, a status, a team.                                                *)
(*                                                                         *)
(* A behaviour fixes the table and asks one question of it: every          *)
(* statement of an answer sees the same rows.  Pages are read by           *)
(* statements of their own, and the database may return rows that the      *)
(* ORDER BY does not tell apart in any order.                              *)
(***************************************************************************)
EXTENDS Queries, FiniteSetsExt

CONSTANTS Pool,       \* the leads a table may hold, by id
          Tables,     \* the tables: sets of ids
          Queries,    \* the filters a report is asked with
          Conditions, \* the conditions of the filter builder
          Trim        \* [phones -> the phone without the blanks around it]

\* What the columns hold: rows are keyed by id, a NOT NULL column is filled.
ASSUME PoolAssumption ==
  /\ \A id \in DOMAIN Pool :
       /\ id \in Nat /\ Pool[id].id = id
       /\ Pool[id].statusChangedAt \in Nat /\ Pool[id].actualAmount \in Nat \cup {Null}
  /\ \A id \in DOMAIN Pool, f \in DOMAIN Columns : Columns[f].required => Pool[id][f] # Null
\* The rows that hang on a lead: an assignment is to a member, a follow-up has an id and a due
\* date, a call an outcome and a direction.
Outcomes == {"ANSWERED", "BUSY", "NO_ANSWER"}
ASSUME RowsAssumption ==
  \A id \in DOMAIN Pool :
    LET l == Pool[id] IN
    /\ l.createdAt \in Nat
    /\ IsFiniteSet(l.assigned) /\ IsFiniteSet(l.activities) /\ IsFiniteSet(l.calls)
    /\ \A a \in l.assigned : a.user \in DOMAIN Staff /\ a.at \in Nat
    /\ \A a, b \in l.activities : a.due \in Nat /\ (a.id = b.id => a = b)
    /\ \A c \in l.calls : c.outcome \in Outcomes /\ c.direction \in {"INBOUND", "OUTBOUND"}
ASSUME TablesAssumption == \A T \in Tables : T \subseteq DOMAIN Pool /\ IsFiniteSet(T)

\* A query has every parameter, a condition its three parts.
ASSUME AskedAssumption ==
  /\ \A q \in Queries : q = [f \in DOMAIN Query |-> q[f]] /\ q.size \in Nat /\ IsFiniteSet(q.team)
  /\ \A q \in Queries : {q.from, q.to, q.span} \subseteq Nat \cup {Null} /\ q.edges \in Seq(Nat)
  /\ \A c \in Conditions : c = [field |-> c.field, op |-> c.op, values |-> c.values]

\* Null is no member, no number, no direction and no set of teams.
ASSUME StaffAssumption ==
  /\ IsFiniteSet(DOMAIN Staff) /\ Null \notin DOMAIN Staff /\ Null \notin Nat
  /\ Null \notin {"INBOUND", "OUTBOUND"}
  /\ \A S \in SUBSET ({Staff[u].team : u \in DOMAIN Staff} \cup UNION {q.team : q \in Queries}) :
       S # Null

VARIABLES table, answer
readVars == <<table, answer>>

leads == {Pool[id] : id \in table}
Ids(S) == {l.id : l \in S}

\* The answers that list follow-ups.
FollowUpLists == {"overdue", "todays", "upcoming"}

NoAnswer == [report |-> "none"]

ReadInit ==
  /\ table \in Tables
  /\ answer = NoAnswer

Say(report, me, q, fields) ==
  /\ answer = NoAnswer
  /\ answer' = Along([report |-> report, me |-> me, query |-> q], fields)
  /\ UNCHANGED table

-----------------------------------------------------------------------------
(* The conditions the reports add to buildLeadWhere. *)

Windowed(q) == q.from # Null \/ q.to # Null
InWindow(at, q) == Within(at, q.from, q.to)

\* The window is the leads list's own only if it is on the creation.
Undated(q) == IF q.dateField = "created" THEN q ELSE [q EXCEPT !.from = Null, !.to = Null]

dateWhere(l, q) ==
  \/ q.dateField = "created" \/ ~Windowed(q)
  \/ q.dateField = "statusChanged" /\ InWindow(l.statusChangedAt, q)
  \/ q.dateField = "orderCreated" /\ l.order # Null /\ InWindow(l.order.at, q)

teamWhere(l, teams) == Some(teams, TeamsOf(l))

\* Of the owners without a team if team is Null.
teamLeadsWhere(l, team) == \E u \in Assignees(l) : Staff[u].team = team

\* "none" stands for the leads without a reason.
reasonWhere(l, reasons) == OneOf(reasons, IF l.lostReason = Null THEN "none" ELSE l.lostReason)

Base(me, q) == {l \in leads : buildLeadWhere(me, l, FALSE, q.search, q.conditions, q)}

ByStatus(me, q) == {l \in Base(me, Undated(q)) : teamWhere(l, q.team) /\ dateWhere(l, q)}
BySource(me, q) == ByStatus(me, q)
ByOwnership(me, q) == ByStatus(me, q)
Lost(me, q) == {l \in ByStatus(me, [q EXCEPT !.status = {"LOST"}]) : reasonWhere(l, q.reason)}
\* Mutant: the window is always on the creation.
ConvertedOfCohort(me, q) == Base(me, [q EXCEPT !.status = {"WON"}])

Converted(me, q) ==
  {l \in Base(me, [Undated(q) EXCEPT !.status = {"WON"}]) : dateWhere(l, q)}

\* These two read the window as one on the engagement.
NoWindow(q) == [q EXCEPT !.from = Null, !.to = Null]
NoActivity(me, q) == {l \in Base(me, NoWindow(q)) : noEngagementWhere(l, q.from, q.to)}
TodayLeads(me, q) == {l \in Base(me, NoWindow(q)) : answeredCallWhere(l, q.from, q.to)}

Aging(me, q) == {l \in Base(me, q) : q.includeLost \/ l.status # "LOST"}

\* "Status changed" and "edited" compare the row's stamps.
activityTypeWhere(l, types) ==
  types # {} =>
    \/ "CALL" \in types /\ (LiveOf(l.calls) # {} \/ \E a \in LiveOf(l.activities) : a.type = "CALL")
    \/ "NOTE" \in types /\ l.notes > 0
    \/ "FOLLOW_UP" \in types /\ LiveOf(l.activities) # {}
    \/ "STATUS_CHANGED" \in types /\ l.statusChangedAt # l.createdAt
    \/ "LEAD_EDITED" \in types /\ l.updatedAt # l.createdAt

FirstResponse(me, q) ==
  {l \in Base(me, q) :
     /\ q.contact = "untouched" => noEngagementWhere(l, Null, Null)
     /\ q.contact = "contacted" => ~noEngagementWhere(l, Null, Null)
     /\ activityTypeWhere(l, q.activityType)}

-----------------------------------------------------------------------------
(* Counting. *)

Amount(l) == IF l.actualAmount = Null THEN 0 ELSE l.actualAmount
Value(S) == SumFunction([l \in S |-> Amount(l)])

\* GROUP BY: the leads of every group, by its key.
Groups(S, key(_)) == [k \in {key(l) : l \in S} |-> {l \in S : key(l) = k}]
Counts(groups) == [k \in DOMAIN groups |-> Cardinality(groups[k])]

Won(S) == {l \in S : l.status = "WON"}
Figures(S) ==
  [count |-> Cardinality(S),
   newCount |-> Cardinality({l \in S : l.status = "New"}),
   contactedCount |-> Cardinality({l \in S : answeredCallWhere(l, Null, Null)}),
   noActivityCount |-> Cardinality({l \in S : noEngagementWhere(l, Null, Null)}),
   convertedCount |-> Cardinality(Won(S)),
   lostCount |-> Cardinality({l \in S : l.status = "LOST"}),
   ordersCount |-> Cardinality({l \in S : l.order # Null}),
   leadValue |-> Value(S), won |-> Value(Won(S))]

OwnedBy(S, u) == {l \in S : u \in Assignees(l)}
Unassigned(S) == {l \in S : Assignees(l) = {}}
OwnersOf(S) == UNION {Assignees(l) : l \in S}

\* Mutant: an agent is answered like everybody else.
NobodyIsAlone(me) == FALSE

\* A sales agent only ever sees himself.
SeesOnlySelf(me) == Staff[me].role = "SALES_AGENT"

\* A row per owner, and one of the unassigned leads; an agent has one row, of all he sees.
RowsFor(me, S) ==
  IF SeesOnlySelf(me) THEN (IF S = {} THEN {} ELSE {me})
  ELSE OwnersOf(S) \cup (IF Unassigned(S) = {} THEN {} ELSE {Null})

RowLeads(me, S, u) ==
  IF SeesOnlySelf(me) THEN S ELSE IF u = Null THEN Unassigned(S) ELSE OwnedBy(S, u)

\* One subtotal per team among the owners, over the team's own leads.
TeamRows(S, owners) ==
  [team \in {Staff[u].team : u \in owners \ {Null}} |->
     LET own == {l \in S : teamLeadsWhere(l, team)}
     IN [owners |-> Cardinality({u \in owners \ {Null} : Staff[u].team = team}),
         figures |-> Figures(own)]]

\* The goals of the team's members who are active; none of the owners without a team.
Serving(u) == Staff[u].active /\ ~Staff[u].deleted
Goal(u) == IF Staff[u].goal = Null THEN 0 ELSE Staff[u].goal
Goals(users) == SumFunction([u \in users |-> Goal(u)])
Members(team) == {u \in DOMAIN Staff : Staff[u].team = team /\ Serving(u)}
TeamGoal(team) == IF team = Null THEN 0 ELSE Goals(Members(team))

\* An empty source counts as none.
NoSource == "No Source"
sourceLabel(l) == IF l.source \in {Null, Blank} THEN NoSource ELSE l.source

-----------------------------------------------------------------------------
(* The reports on leads. *)

leadsByStatus(me, q) ==
  /\ LeadsByStatusQueryDto(q)
  /\ LET S == ByStatus(me, q) rows == Counts(Groups(S, LAMBDA l : l.status)) IN
     Say("status", me, q, [list |-> Ids(S), rows |-> rows])

\* The share is of the filtered total, the conversion rate of the row's own leads.
leadsBySource(me, q) ==
  /\ LeadsBySourceQueryDto(q)
  /\ LET S == BySource(me, q)
         won == Counts(Groups(Won(S), sourceLabel))
         counts == Counts(Groups(S, sourceLabel))
     IN Say("source", me, q,
          [list |-> Ids(S), rows |-> counts,
           won |-> [s \in DOMAIN counts |-> IF s \in DOMAIN won THEN won[s] ELSE 0]])

leadsByOwnership(me, q) ==
  /\ LeadsByOwnershipQueryDto(q)
  /\ LET S == ByOwnership(me, q) rows == [u \in RowsFor(me, S) |-> Figures(RowLeads(me, S, u))] IN
     Say("ownership", me, q,
       [list |-> Ids(S), rows |-> rows, total |-> Cardinality(S),
        teams |-> IF SeesOnlySelf(me) THEN <<>> ELSE TeamRows(S, DOMAIN rows)])

lostLeads(me, q) ==
  /\ LostLeadsQueryDto(q)
  /\ LET S == Lost(me, q) IN
     Say("lost", me, q,
       [list |-> Ids(S), total |-> Cardinality(S),
        rows |-> Counts(Groups(S, LAMBDA l : IF l.lostReason = Null THEN "none" ELSE l.lostReason))])

convertedLeads(me, q) ==
  /\ ConvertedLeadsQueryDto(q)
  /\ Say("converted", me, q, [list |-> Ids(Converted(me, q))])

noActivity(me, q) ==
  /\ NoActivityQueryDto(q)
  /\ LET S == NoActivity(me, q) IN
     Say("noActivity", me, q,
       [list |-> Ids(S), total |-> Cardinality(S),
        rows |-> [u \in RowsFor(me, S) |-> Cardinality(RowLeads(me, S, u))]])

todayLeads(me, q) ==
  /\ TodayLeadsQueryDto(q)
  /\ LET S == TodayLeads(me, q) IN
     Say("todayLeads", me, q,
       [list |-> Ids(S), total |-> Cardinality(S),
        rows |-> [u \in RowsFor(me, S) |-> Cardinality(RowLeads(me, S, u))]])

\* Whole days; a stamp of the future counts as now.
daysBetween(from, to) == IF to < from THEN 0 ELSE (to - from) \div Day

healthOf(age, q) ==
  IF age <= q.green THEN "healthy" ELSE IF age <= q.amber THEN "attention" ELSE "stale"

Age(l) == daysBetween(l.createdAt, Now)

\* The last completed follow-up or call.
Engagements(l) == {a.completed : a \in {b \in LiveOf(l.activities) : b.completed # Null}}
                    \cup {c.at : c \in LiveOf(l.calls)}

Bands(S, q) ==
  [healthy |-> Cardinality({l \in S : healthOf(Age(l), q) = "healthy"}),
   attention |-> Cardinality({l \in S : healthOf(Age(l), q) = "attention"}),
   stale |-> Cardinality({l \in S : healthOf(Age(l), q) = "stale"}),
   never |-> Cardinality({l \in S : Engagements(l) = {}})]

\* Refused unless amber is above green.  Every owner of a lead has it in a row, whoever asks.
leadAging(me, q) ==
  /\ LeadAgingQueryDto(q)
  /\ LET S == Aging(me, q) IN
     /\ q.amber > q.green
     /\ Say("aging", me, q,
          [list |-> Ids(S), total |-> Cardinality(S), kpis |-> Bands(S, q),
           rows |-> [u \in OwnersOf(S) \cup (IF Unassigned(S) = {} THEN {} ELSE {Null}) |->
                       Bands(IF u = Null THEN Unassigned(S) ELSE OwnedBy(S, u), q)]])

\* The counters ignore the tab; how long the first engagement took.
leadFirstResponse(me, q) ==
  /\ LeadFirstResponseQueryDto(q)
  /\ LET S == FirstResponse(me, [q EXCEPT !.contact = "all"])
         touched == {l \in S : Engagements(l) # {}}
         took(l) == IF Min(Engagements(l)) < l.createdAt THEN 0 ELSE Min(Engagements(l)) - l.createdAt
     IN Say("firstResponse", me, q,
          [list |-> Ids(FirstResponse(me, q)), total |-> Cardinality(S),
           contacted |-> Cardinality(touched), untouched |-> Cardinality(S) - Cardinality(touched),
           late |-> Cardinality({l \in touched : took(l) > q.late})])

\* The phones, without the blanks around them, that several of the leads have.
PhoneGroups(S) ==
  LET byPhone == Groups({l \in S : Trim[l.primaryPhone] # Blank}, LAMBDA l : Trim[l.primaryPhone])
  IN [p \in {x \in DOMAIN byPhone : Cardinality(byPhone[x]) > 1} |-> byPhone[p]]

\* The leads of the groups with at least that many duplicates.
duplicateEnquiries(me, q) ==
  /\ DuplicateEnquiriesQueryDto(q)
  /\ LET groups == PhoneGroups(Base(me, q)) IN
     Say("duplicates", me, q,
       [rows |-> [p \in DOMAIN groups |-> Ids(groups[p])],
        leadsWithAtLeast |-> [n \in 1 .. 2 |->
          Cardinality(UNION {groups[p] : p \in {x \in DOMAIN groups : Cardinality(groups[x]) > n}})]])

-----------------------------------------------------------------------------
(* The team performance report. *)

\* A manager without a team is answered like an agent.
Alone(me) == SeesOnlySelf(me) \/ (Staff[me].role = "SALES_MANAGER" /\ Staff[me].team = Null)

Meet(teams, allowed) == IF teams = Null THEN allowed ELSE teams \cap allowed

\* The teams the report is over: Null, all of them; {}, no figures at all.
TeamsInScope(me, q) ==
  LET asked   == IF q.team = {} THEN Null ELSE q.team
      managed == IF q.manager = Null THEN asked ELSE Meet(asked, {Staff[q.manager].team})
  IN IF Staff[me].role = "SALES_MANAGER" THEN Meet(managed, {Staff[me].team}) ELSE managed

ASSIGNABLE_ROLES == {"SALES_AGENT", "SALES_MANAGER", "CUSTOMER_SERVICE_AGENT"}

Performance(S) == [leads |-> Cardinality(S), won |-> Cardinality(Won(S)),
                   orders |-> Cardinality({l \in S : l.order # Null}), wonValue |-> Value(Won(S)),
                   wonUnvalued |-> Cardinality({l \in Won(S) : l.actualAmount = Null})]

\* A member of the teams has a row even without a lead.
People(me, q, teams, S) ==
  IF Alone(me) THEN {me}
  ELSE {u \in DOMAIN Staff :
          /\ \/ u \in OwnersOf(S) \cup q.agent
             \/ /\ Staff[u].role \in ASSIGNABLE_ROLES /\ Serving(u)
                /\ Staff[u].team \in (IF teams = Null THEN {Staff[v].team : v \in DOMAIN Staff}
                                                       ELSE teams) \ {Null}
          /\ OneOf(q.agent, u)
          /\ teams = Null \/ Staff[u].team \in teams}

Managers == {u \in DOMAIN Staff : ~Staff[u].deleted /\ Staff[u].role = "SALES_MANAGER"
                                     /\ Staff[u].team # Null}

\* Refused for a manager who is none or has no team.
teamPerformance(me, q) ==
  /\ TeamPerformanceQueryDto(q)
  /\ LET teams  == IF Alone(me) THEN Null ELSE TeamsInScope(me, q)
         S      == ByOwnership(me, [q EXCEPT !.team = IF teams = Null THEN {} ELSE teams])
         people == People(me, q, teams, S)
         named  == IF teams = Null THEN {Staff[u].team : u \in people} ELSE teams
     IN /\ ~Alone(me) => q.manager \in Managers \cup {Null}
        /\ Say("teamPerformance", me, q,
             IF teams = {} THEN [total |-> Performance({}), rows |-> <<>>, teams |-> <<>>]
             ELSE [total |-> Performance(S),
                   rows |-> [u \in people |-> Performance(OwnedBy(S, u))],
                   teams |-> IF Alone(me) THEN <<>>
                             ELSE [t \in named |-> Performance({l \in S : teamLeadsWhere(l, t)})]])

-----------------------------------------------------------------------------

\* The leads list, under one condition of the builder.
leadList(me, c) ==
  LET q == [Query EXCEPT !.conditions = {c}] IN
  /\ ListLeadsQueryDto(q) /\ Valid(c)
  /\ Say("leads", me, q, [list |-> Ids(Base(me, q))])

Askers == {u \in DOMAIN Staff : Serving(u) /\ Staff[u].role \notin Operational}

Ask == answer = NoAnswer

NextReports ==
  \/ Ask /\ \E me \in Askers, c \in Conditions : leadList(me, c)
  \/ Ask /\ \E me \in Askers, q \in Queries :
    \/ leadsByStatus(me, q) \/ leadsBySource(me, q) \/ leadsByOwnership(me, q)
    \/ lostLeads(me, q) \/ convertedLeads(me, q)
    \/ noActivity(me, q) \/ todayLeads(me, q)
    \/ leadAging(me, q) \/ leadFirstResponse(me, q)
    \/ duplicateEnquiries(me, q) \/ teamPerformance(me, q)

-----------------------------------------------------------------------------
(* Properties. *)

Is(report) == answer.report = report

\* An owner's figures are the leads the reports behind them list for that owner: the leads
\* lost and converted in the same window, and those contacted or untouched at any time.
OwnersMatchReports ==
  Is("ownership") /\ ~SeesOnlySelf(answer.me) /\ answer.query.team = {} =>
    LET q == answer.query  any == NoWindow(q) IN
    \A u \in DOMAIN answer.rows \ {Null} :
      LET row == answer.rows[u]
          mine(S) == OwnedBy(S, u)
          inTime(S) == {l \in mine(S) : l.id \in answer.list}
      IN /\ row.lostCount = Cardinality(mine(Lost(answer.me, q)))
         /\ row.convertedCount = Cardinality(mine(Converted(answer.me, q)))
         /\ row.contactedCount = Cardinality(inTime(TodayLeads(answer.me, any)))
         /\ row.noActivityCount = Cardinality(inTime(NoActivity(answer.me, any)))

\* A heading counts the same leads in whichever report it stands: the lost and the won ones of
\* the status report, the won ones per source, the ones nobody ever engaged of the aging and of
\* the first-response report, whose counters are the lengths of its tabs.
HeadingsAgree ==
  LET me == answer.me  q == answer.query
      of(rows, k) == IF k \in DOMAIN rows THEN rows[k] ELSE 0
  IN /\ Is("status") /\ q.status = {} /\ q.team = {} =>
          /\ of(answer.rows, "LOST") = Cardinality(Lost(me, q))
          /\ of(answer.rows, "WON") = Cardinality(Converted(me, q))
     /\ Is("source") /\ q.team = {} =>
          SumFunction(answer.won) = Cardinality(Converted(me, q))
     /\ Is("aging") =>
          answer.kpis.never = Cardinality({l \in NoActivity(me, NoWindow(q)) : l.id \in answer.list})
     /\ Is("firstResponse") =>
          /\ answer.untouched = Cardinality(FirstResponse(me, [q EXCEPT !.contact = "untouched"]))
          /\ answer.contacted = Cardinality(FirstResponse(me, [q EXCEPT !.contact = "contacted"]))
          /\ answer.late <= answer.contacted
     /\ Is("duplicates") =>
          /\ \A p, r \in DOMAIN answer.rows : p # r => answer.rows[p] \cap answer.rows[r] = {}
          /\ UNION {answer.rows[p] : p \in DOMAIN answer.rows} \subseteq Ids(Base(me, q))

\* The summaries per owner show an agent himself only, over the leads he has, though he may share
\* them; a manager sees leads of his team only, and boards that are kept from him stay out.
WithinScope ==
  LET me == answer.me IN
  /\ answer # NoAnswer /\ "list" \in DOMAIN answer /\ answer.report \notin FollowUpLists =>
       \A id \in answer.list :
         /\ ~Pool[id].archived
         /\ Staff[me].role = "SALES_AGENT" => me \in Assignees(Pool[id])
         /\ Staff[me].role = "SALES_MANAGER" =>
              Pool[id].pipeline \notin Staff[me].denied /\ Assignees(Pool[id]) \cap TeamOrSelf(me) # {}
  /\ answer.report \in {"ownership", "noActivity", "todayLeads", "teamPerformance"}
       /\ Staff[me].role = "SALES_AGENT" =>
       /\ DOMAIN answer.rows \subseteq {me}
       /\ answer.report = "teamPerformance" => answer.teams = <<>>

\* Team performance: a team asked for alone is the total, a person's leads are among his team's,
\* and every lead counted is somebody's who has a row; the ownership report counts them alike.
TeamsAddUp ==
  LET me == answer.me  q == answer.query IN
  /\ Is("teamPerformance") /\ ~Alone(me) =>
       /\ Cardinality(DOMAIN answer.teams) = 1 /\ Null \notin DOMAIN answer.teams =>
            (q.team # {} \/ Staff[me].role = "SALES_MANAGER" =>
               \A t \in DOMAIN answer.teams : answer.teams[t] = answer.total)
       /\ \A u \in DOMAIN answer.rows :
            Staff[u].team \in DOMAIN answer.teams =>
              answer.rows[u].leads <= answer.teams[Staff[u].team].leads
       /\ q.agent = {} /\ DOMAIN answer.teams # {} /\ q.team # {} =>
            SumFunction([u \in DOMAIN answer.rows |-> answer.rows[u].leads]) >= answer.total.leads
  /\ Is("ownership") =>
       \A t \in DOMAIN answer.teams :
         answer.teams[t].figures.count =
           Cardinality({l \in ByOwnership(me, q) : \E u \in Assignees(l) : Staff[u].team = t})

\* The negative operators of a condition and the operators that deny them: one of the two holds
\* of a lead, whatever columns it leaves empty.
Denies == [isnt |-> "is", doesntContain |-> "contains", notEquals |-> "equals",
           notBetween |-> "between", isEmpty |-> "isNotEmpty"]

NegationCompletes ==
  Is("leads") =>
    \A c \in answer.query.conditions :
      c.op \in DOMAIN Denies =>
        answer.list = Ids(Base(answer.me, Query))
                        \ Ids(Base(answer.me, [Query EXCEPT !.conditions = {[c EXCEPT !.op = Denies[c.op]]}]))
=============================================================================
