------------------------------- MODULE Revenue -------------------------------
(***************************************************************************)
(* Money and conversion: the revenue report and its list of deals, the     *)
(* sales pipeline report (src/src/reports), and the boards of the          *)
(* dashboard that count won leads, sources and stages (src/src/dashboard). *)
(*                                                                         *)
(* A deal is a lead that is WON; it belongs to the period in which its     *)
(* status changed.  Amounts are whole; a rate is the pair it divides.      *)
(***************************************************************************)
EXTENDS Worklist

CONSTANTS Stages,     \* records of board, name, inclusion, closed and outcome
          DefaultPipeline,
          Joined,     \* [sets of users -> their names in one label, Null if there is none]
          Alphabet,   \* the labels of groups, in the order they sort in
          MaxDeals,   \* the deals a list holds
          MaxDays     \* the columns of the source summary

\* A board has one stage of a name.
ASSUME StagesAssumption ==
  /\ IsFiniteSet(Stages)
  /\ \A s, t \in Stages : s.board = t.board /\ s.name = t.name => s = t
ASSUME ColumnsAssumption == MaxDays \in Nat \ {0}

-----------------------------------------------------------------------------
(* Tallies. *)

Tally(S) == [count |-> Cardinality(S), amount |-> Value(S)]
tally(S, label(_)) == LET groups == Groups(S, label) IN [k \in DOMAIN groups |-> Tally(groups[k])]
Nothing == [count |-> 0, amount |-> 0]
Of(tallies, label) == IF label \in DOMAIN tallies THEN tallies[label] ELSE Nothing

boardOf(l) == l.pipeline

\* The report takes the board, the owners and the conditions from its filters; not its window.
leadsWhere(me, q) ==
  Base(me, [Query EXCEPT !.pipeline = q.pipeline, !.agent = q.agent, !.conditions = q.conditions])

\* Mutant: a deal belongs to the period its lead was created in.
closedWhenCreated(S, status, from, to) == {l \in S : l.status = status /\ Within(l.createdAt, from, to)}

closedIn(S, status, from, to) == {l \in S : l.status = status /\ Within(l.statusChangedAt, from, to)}
createdIn(S, from, to) == {l \in S : Within(l.createdAt, from, to)}

\* Whose goals a target adds up.
targetMembers(me) ==
  LET role == Staff[me].role  serving == {u \in DOMAIN Staff : Serving(u)} IN
  CASE role \in {"SUPERADMIN"} \cup OrgWide -> serving
    [] role = "SALES_MANAGER" /\ Staff[me].team # Null -> {u \in serving : Staff[u].team = Staff[me].team}
    [] role \in {"SALES_AGENT", "SALES_MANAGER"} -> {me}
    [] OTHER -> {}

Ascending(edges) == \A i \in 1 .. Len(edges) - 1 : edges[i] < edges[i + 1]

\* The figures of a period: what closed in it, and of the leads created in it how many are won.
PeriodFigures(S, from, to) ==
  LET cohort == createdIn(S, from, to) IN
  [revenue |-> Value(closedIn(S, "WON", from, to)), deals |-> Cardinality(closedIn(S, "WON", from, to)),
   leads |-> Cardinality(cohort), won |-> Cardinality(Won(cohort))]

\* A source without a deal has no row; a board has one if it won or lost a lead.  The edges cut
\* the trend into half-open buckets; edges that do not ascend are refused.
overview(me, q) ==
  /\ RevenueQueryDto(q)
  /\ LET S    == leadsWhere(me, q)
         won  == closedIn(S, "WON", q.from, q.to)
         lost == closedIn(S, "LOST", q.from, q.to)
         bought == tally(won, sourceLabel)
         before == IF q.prior = Null THEN Null
                   ELSE tally(closedIn(S, "WON", q.prior[1], q.prior[2]), sourceLabel)
         cohort == createdIn(S, q.from, q.to)
     IN /\ Ascending(q.edges)
        /\ Say("revenue", me, q,
             [current |-> PeriodFigures(S, q.from, q.to),
              prior |-> IF q.prior = Null THEN Null ELSE PeriodFigures(S, q.prior[1], q.prior[2]),
              target |-> Goals(IF q.agent = {} THEN targetMembers(me)
                               ELSE targetMembers(me) \cap q.agent),
              trend |-> [i \in 1 .. Later(Len(q.edges), 1) - 1 |->
                           Tally(closedIn(S, "WON", q.edges[i], q.edges[i + 1]))],
              sources |-> [s \in DOMAIN bought |->
                [deals |-> bought[s], prior |-> IF before = Null THEN Null ELSE Of(before, s).amount,
                 conversion |-> <<Of(tally(Won(cohort), sourceLabel), s).count,
                                  Of(tally(cohort, sourceLabel), s).count>>]],
              pipelines |-> [p \in DOMAIN tally(won, boardOf) \cup DOMAIN tally(lost, boardOf) |->
                [won |-> Of(tally(won, boardOf), p), lost |-> Of(tally(lost, boardOf), p).count]]])

-----------------------------------------------------------------------------
(* The list of deals. *)

\* A group's label: Null if the lead has none.
groupOf(group, l) ==
  CASE group = "pipeline" -> l.pipeline
    [] group = "status" -> l.status
    [] group = "source" -> sourceLabel(l)
    [] group = "agent" -> Joined[Assignees(l)]
    [] group = "none" -> "all"

\* The groupings there are, and the labels they give the leads there may be.
Groupings == {"pipeline", "status", "source", "agent", "none"}
ASSUME GroupsAssumption ==
  /\ \A q \in Queries : q.group \in Groupings
  /\ Len(Alphabet) \in Nat
  /\ \A id \in DOMAIN Pool, g \in Groupings :
       \E i \in 1 .. Len(Alphabet) : Alphabet[i] = groupOf(g, Pool[id])

Rank(label) == CHOOSE i \in 1 .. Len(Alphabet) : Alphabet[i] = label

\* Group by size, then label; then the sort asked for, the latest deal and the id.
GroupBefore(a, b, size(_)) == \/ size(a) > size(b)
                              \/ size(a) = size(b) /\ Rank(a) < Rank(b)

\* Empty values last, whichever the direction.
ValueBefore(a, b, up) ==
  \/ a # Null /\ b = Null
  \/ a # Null /\ b # Null /\ (IF up THEN a < b ELSE a > b)

LatestFirst(a, b) == \/ a.statusChangedAt > b.statusChangedAt
                     \/ a.statusChangedAt = b.statusChangedAt /\ a.id < b.id

\* Mutant: the sort asked for comes before the groups.
SortedFirst(S, q, a, b) ==
  LET before == q.sorted /\ ValueBefore(a.actualAmount, b.actualAmount, q.up)
      after  == q.sorted /\ ValueBefore(b.actualAmount, a.actualAmount, q.up)
  IN before \/ (~after /\ LatestFirst(a, b))

DealBefore(S, q, a, b) ==
  LET g == groupOf(q.group, a)  h == groupOf(q.group, b)
      size(k) == Cardinality({l \in S : groupOf(q.group, l) = k})
      before == q.sorted /\ ValueBefore(a.actualAmount, b.actualAmount, q.up)
      after  == q.sorted /\ ValueBefore(b.actualAmount, a.actualAmount, q.up)
  IN \/ g # h /\ GroupBefore(g, h, size)
     \/ g # h /\ ~GroupBefore(h, g, size) /\ LatestFirst(a, b)
     \/ g = h /\ before
     \/ g = h /\ ~before /\ ~after /\ LatestFirst(a, b)

\* Only the latest deals are listed.
Listed(S) == {l \in S : Cardinality({x \in S : LatestFirst(x, l)}) < MaxDeals}

orderDeals(S, q) ==
  LET place(l) == 1 + Cardinality({x \in S : DealBefore(S, q, x, l)})
  IN [i \in 1 .. Cardinality(S) |-> CHOOSE l \in S : place(l) = i]

\* A page, with a heading where a group begins and one where it continues from the page before.
dealPage(order, q, page) ==
  LET last == page * q.size
      rows == SubSeq(order, last - q.size + 1, IF last < Len(order) THEN last ELSE Len(order))
      label(i) == groupOf(q.group, rows[i])
      heads == {i \in DOMAIN rows : i = 1 \/ label(i) # label(i - 1)}
  IN [rows |-> [i \in DOMAIN rows |-> rows[i].id],
      heads |-> [i \in heads |-> <<label(i), Cardinality({l \in {order[j] : j \in DOMAIN order} :
                                                            groupOf(q.group, l) = label(i)})>>]]

dealsWhere(me, q) == closedIn(leadsWhere(me, q), "WON", q.from, q.to)

deals(me, q) ==
  /\ RevenueQueryDto(q)
  /\ LET S == dealsWhere(me, q)  order == orderDeals(Listed(S), q) IN
     Say("deals", me, q,
       [pages |-> [p \in 1 .. (Len(order) + q.size - 1) \div q.size |-> dealPage(order, q, p)],
        total |-> Len(order), truncated |-> Cardinality(S) > MaxDeals])

-----------------------------------------------------------------------------
(* Stages. *)

\* A row per open stage of the board's funnel.  The leads in them were created in the window,
\* the won leads were won in it, the revenue is the month's and of all boards.
salesPipeline(me, q) ==
  /\ SalesPipelineQueryDto(q)
  /\ LET S == Base(me, q)
         open == {s \in Stages : s.board = q.pipeline /\ s.inclusion /\ ~s.closed}
         on(s) == Tally({l \in S : l.status = s.name})
     IN /\ q.pipeline # Null
        /\ Say("salesPipeline", me, q,
             [stages |-> [n \in {s.name : s \in open} |-> Tally({l \in S : l.status = n})],
              leads |-> SumFunction([s \in open |-> on(s).count]),
              won |-> Cardinality(closedIn(Base(me, NoWindow(q)), "WON", q.from, q.to)),
              achieved |-> Value({l \in leads : /\ leadScopeWhere(me, l, FALSE) /\ l.status = "WON"
                                                /\ Within(l.statusChangedAt, q.month[1], q.month[2])}),
              target |-> Goals(targetMembers(me))])

\* The live view of the sales funnel: the included stages of one board that hold a lead, the open
\* ones in the table, and the lost ones on the funnel only if asked for.
liveFunnel(me, q) ==
  /\ SalesFunnelQueryDto(q)
  /\ LET board == IF q.pipeline = Null THEN DefaultPipeline ELSE q.pipeline
         S == Base(me, [q EXCEPT !.pipeline = board])
         on(s) == Tally({l \in S : l.status = s.name})
         shown == {s \in Stages : s.board = board /\ s.inclusion /\ on(s).count > 0}
         open == {s \in shown : ~s.closed}
         rows(R) == [n \in {s.name : s \in R} |-> Tally({l \in S : l.status = n})]
         won == {s \in Stages : s.board = board /\ s.closed /\ s.outcome = "WON"}
     IN Say("liveFunnel", me, q,
          [table |-> rows(open), board |-> board, overall |-> Cardinality(S),
           funnel |-> rows({s \in shown : q.includeLost \/ ~(s.closed /\ s.outcome = "LOST")}),
           leads |-> SumFunction([s \in open |-> on(s).count]),
           won |-> SumFunction([s \in won |-> on(s).count])])

\* The dashboard's stages are of all boards, the total of all the leads.
stageOverview(me, q) ==
  /\ DashboardPeriodQueryDto(q)
  /\ LET S == Base(me, Period(q))
         rows == {s \in Stages : s.inclusion}
     IN Say("stages", me, q,
          [stages |-> [s \in {<<r.board, r.name>> : r \in rows} |->
             Cardinality({l \in S : l.pipeline = s[1] /\ l.status = s[2]})],
           total |-> Cardinality(S)])

-----------------------------------------------------------------------------
(* The boards of the dashboard. *)

convertedInPeriod(me, q) ==
  {l \in leads : /\ leadScopeWhere(me, l, FALSE)
                 /\ l.status = "WON" /\ Within(l.statusChangedAt, q.from, q.to)}

\* Assignments, not leads: a lead two agents share counts twice.
assignedInPeriod(me, q) ==
  UNION {{<<l, a>> : a \in {x \in l.assigned : Within(x.at, q.from, q.to)}} :
         l \in {x \in leads : leadScopeWhere(me, x, FALSE)}}

teamRevenue(me, q) ==
  /\ DashboardPeriodQueryDto(q)
  /\ Say("teamRevenue", me, q,
       [totalLeads |-> Cardinality(assignedInPeriod(me, q)),
        totalCalls |-> Cardinality(callsWhere(me, [q EXCEPT !.agent = {}], Null)),
        totalConversion |-> Value(convertedInPeriod(me, q)),
        revenueTarget |-> Goals(targetMembers(me))])

\* A row per agent with a lead assigned or converted in the period.
salesLeaderboard(me, q) ==
  /\ DashboardPeriodQueryDto(q)
  /\ LET assigned == assignedInPeriod(me, q)  won == convertedInPeriod(me, q) IN
     Say("leaderboard", me, q,
       [rows |-> [u \in {x[2].user : x \in assigned} \cup OwnersOf(won) |->
          [leads |-> Cardinality({x \in assigned : x[2].user = u}),
           converted |-> Tally(OwnedBy(won, u))]]])

\* By source, or by owner with the unassigned leads last; the totals count a lead once.
leadsConversion(me, q) ==
  /\ LeadsConversionQueryDto(q)
  /\ LET all == Base(me, Period(q))
         won == Base(me, [Period(q) EXCEPT !.status = {"WON"}])
         source(S) == Groups(S, sourceLabel)
         nobody == IF Unassigned(all) = {} THEN {} ELSE {Null}
         Row(S, T) == [leadCount |-> Cardinality(S), convertedCount |-> Cardinality(T)]
     IN Say("conversion", me, q,
          [totals |-> Row(all, won),
           bySource |-> [s \in DOMAIN source(all) |->
             Row(source(all)[s], IF s \in DOMAIN source(won) THEN source(won)[s] ELSE {})],
           byOwner |-> [u \in OwnersOf(all) \cup nobody |->
             IF u = Null THEN Row(Unassigned(all), Unassigned(won))
             ELSE Row(OwnedBy(all, u), OwnedBy(won, u))]])

\* A day's column counts distinct leads; more columns than MaxDays are not shown.
DayOf(at, anchor) == (at - anchor) \div Day

Points(me, q) ==
  IF q.assigned THEN {[at |-> x[2].at, lead |-> x[1]] : x \in assignedInPeriod(me, q)}
  ELSE {[at |-> l.createdAt, lead |-> l] : l \in {x \in leads : /\ leadScopeWhere(me, x, FALSE)
                                                                /\ Within(x.createdAt, q.from, q.to)}}

\* The first and the last column: the period's, or those the points need.
dayWindow(q, points, anchor) ==
  LET days == {DayOf(p.at, anchor) : p \in points} IN
  IF q.from # Null /\ q.to # Null
  THEN LET last == Later(0, (q.to - anchor + Day - 1) \div Day - 1)
       IN <<0, IF last < MaxDays THEN last ELSE MaxDays - 1>>
  ELSE IF points = {} THEN <<DayOf(TodayStart, anchor), DayOf(TodayStart, anchor)>>
  ELSE <<Later(Min(days), Max(days) - MaxDays + 1), Max(days)>>

leadSourceSummary(me, q) ==
  /\ LeadSourceSummaryQueryDto(q)
  /\ LET anchor == IF q.from # Null THEN q.from ELSE TodayStart
         points == Points(me, q)
         window == dayWindow(q, points, anchor)
         columns == window[1] .. window[2]
         cell(s, d) == Cardinality({p.lead.id : p \in {x \in points : /\ sourceLabel(x.lead) = s
                                                                       /\ DayOf(x.at, anchor) = d}})
         shown == {sourceLabel(p.lead) : p \in {x \in points : DayOf(x.at, anchor) \in columns}}
     IN Say("sourceSummary", me, q,
          [days |-> [d \in columns |-> SumFunction([s \in shown |-> cell(s, d)])],
           sources |-> [s \in shown |-> SumFunction([d \in columns |-> cell(s, d)])]])

\* The leads with an overdue follow-up, without engagement, and lost, of those created in the
\* period; the follow-ups must be the caller's, their leads need not be of the period.
leadsAttention(me, q) ==
  /\ LeadsAttentionQueryDto(q)
  /\ LET p == Period(q) IN
     Say("attention", me, q,
       [overdue |-> Ids({x.lead : x \in OverdueReport(me, p)}),
        noActivity |-> Ids({l \in Base(me, p) : noEngagementWhere(l, Null, Null)}),
        lost |-> Ids(Base(me, [p EXCEPT !.status = {"LOST"}]))])

hotLeads(me, q) ==
  /\ HotLeadsQueryDto(q)
  /\ LET S == Base(me, [Period(q) EXCEPT !.status = HOT_LEAD_STATUSES]) IN
     Say("hotLeads", me, q, [list |-> Ids(S), total |-> Cardinality(S), totalValue |-> Value(S)])

\* A card per stage or source the workspace chose, at zero if no lead has it.
dashboardSummary(me, byStage, cards) ==
  LET S == {l \in leads : leadScopeWhere(me, l, FALSE)} IN
  Say("cards", me, Query,
    [byStage |-> byStage,
     cards |-> [c \in cards |-> Tally({l \in S : (IF byStage THEN l.status ELSE l.source) = c})]])

-----------------------------------------------------------------------------

NextRevenue ==
  \/ Ask /\ \E me \in Askers :
    \/ dashboardSummary(me, TRUE, {s.name : s \in Stages})
    \/ dashboardSummary(me, FALSE, {l.source : l \in leads} \ {Null, Blank})
  \/ Ask /\ \E me \in Askers, q \in Queries :
    \/ overview(me, q) \/ deals(me, q) \/ salesPipeline(me, q) \/ stageOverview(me, q)
    \/ liveFunnel(me, q)
    \/ teamRevenue(me, q) \/ salesLeaderboard(me, q) \/ leadsConversion(me, q)
    \/ leadSourceSummary(me, q) \/ leadsAttention(me, q) \/ hotLeads(me, q)

-----------------------------------------------------------------------------
(* Properties. *)

\* The rows' figures of that name.
Figure(rows, name) == [k \in DOMAIN rows |-> rows[k][name]]

\* However the revenue of a period is cut - by source, by board, by adjoining spans of time, by
\* deal - the parts add up to it, and the dashboard's converted value is the same.
RevenueAddsUp ==
  LET me == answer.me  q == answer.query IN
  /\ Is("revenue") =>
       /\ SumFunction(Figure(Figure(answer.sources, "deals"), "amount")) = answer.current.revenue
       /\ SumFunction(Figure(Figure(answer.pipelines, "won"), "amount")) = answer.current.revenue
       /\ SumFunction(Figure(Figure(answer.pipelines, "won"), "count")) = answer.current.deals
       /\ q.edges # <<>> /\ q.from = q.edges[1] /\ q.to = q.edges[Len(q.edges)] =>
            SumFunction(Figure(answer.trend, "amount")) = answer.current.revenue
       /\ answer.current.deals <= MaxDeals =>
            answer.current.deals = Cardinality(dealsWhere(me, q))
       /\ q.agent = {} /\ q.pipeline = Null /\ q.conditions = {} =>
            answer.current.revenue = Value(convertedInPeriod(me, q))
  /\ Is("leaderboard") =>
       /\ SumFunction(Figure(answer.rows, "leads")) = Cardinality(assignedInPeriod(me, q))
       /\ SumFunction(Figure(Figure(answer.rows, "converted"), "amount")) >=
            Value({l \in convertedInPeriod(me, q) : Assignees(l) # {}})

\* The spots of the pages, and the place of a spot in the whole list.
Spots(pages, size) ==
  {x \in {<<p, i>> : p \in DOMAIN pages, i \in 1 .. size} : x[2] \in DOMAIN pages[x[1]].rows}
SpotAt(x, size) == (x[1] - 1) * size + x[2]

ListedOnce(pages, q, S, total) ==
  LET shown == Spots(pages, q.size)
      id(x) == pages[x[1]].rows[x[2]]
  IN /\ Cardinality({id(x) : x \in shown}) = Cardinality(shown)
     /\ {id(x) : x \in shown} \subseteq Ids(S)
     /\ Cardinality(shown) = total

GroupsTogether(pages, q) ==
  LET shown == Spots(pages, q.size)
      place(x) == SpotAt(x, q.size)
      group(x) == groupOf(q.group, Pool[pages[x[1]].rows[x[2]]])
  IN \A x, y, z \in shown :
       place(x) < place(y) /\ place(y) < place(z) /\ group(x) = group(z) => group(y) = group(x)

HeadsCount(pages, q) ==
  LET shown == Spots(pages, q.size)
      group(x) == groupOf(q.group, Pool[pages[x[1]].rows[x[2]]])
  IN \A p \in DOMAIN pages : \A i \in DOMAIN pages[p].heads :
       pages[p].heads[i][2] = Cardinality({x \in shown : group(x) = pages[p].heads[i][1]})

\* The pages of the deals list every deal once, the members of a group follow one another over
\* all the pages, and each heading tells how many there are.
DealsInGroups ==
  Is("deals") =>
    LET q == answer.query IN
    /\ ListedOnce(answer.pages, q, dealsWhere(answer.me, q), answer.total)
    /\ GroupsTogether(answer.pages, q)
    /\ HeadsCount(answer.pages, q)

\* The dashboard's boards show the leads that the reports list for the same period.
BoardsMatchReports ==
  LET me == answer.me  q == answer.query IN
  /\ Is("conversion") =>
       /\ SumFunction(Figure(answer.bySource, "leadCount")) = answer.totals.leadCount
       /\ SumFunction(Figure(answer.bySource, "convertedCount")) = Cardinality(Converted(me, Period(q)))
       /\ SumFunction(Figure(answer.byOwner, "convertedCount")) >= answer.totals.convertedCount
  /\ Is("sourceSummary") =>
       /\ SumFunction(answer.days) = SumFunction(answer.sources)
       /\ ~q.assigned /\ Cardinality(DOMAIN answer.days) < MaxDays => 
            SumFunction(answer.days) = Cardinality(ByStatus(me, Period(q)))
  /\ Is("attention") =>
       /\ answer.lost = Ids(Lost(me, Period(q)))
       /\ \A id \in answer.overdue : \E x \in OverdueReport(me, Period(q)) : x.lead.id = id
       /\ ~Windowed(q) => answer.noActivity = Ids(NoActivity(me, Query))
  /\ Is("liveFunnel") =>
       LET listed == ByStatus(me, [q EXCEPT !.pipeline = answer.board, !.includeLost = FALSE]) IN
       /\ answer.leads <= answer.overall /\ answer.overall = Cardinality(listed)
       /\ \A n \in DOMAIN answer.funnel :
            answer.funnel[n].count = Cardinality({l \in listed : l.status = n})
       /\ (\A s \in Stages : s.board = answer.board /\ s.name = "LOST" => s.outcome # "WON") =>
            answer.won + Cardinality({l \in listed : l.status = "LOST"}) <= answer.overall
  /\ Is("stages") => SumFunction(answer.stages) <= answer.total
=============================================================================
