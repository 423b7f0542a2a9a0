------------------------------- MODULE Worklist -------------------------------
(***************************************************************************)
(* The reads over follow-ups: the tabs of the worklist (src/src/activities)*)
(* and of the dashboard's tracker, the overdue, today's and upcoming       *)
(* reports, and the dashboard's counters, which take their conditions from *)
(* all of the reports.                                                     *)
(*                                                                         *)
(* The day is the caller's: the requests carry its edges.  The workspace   *)
(* chooses when a follow-up is overdue: once its day has ended, or a span  *)
(* after it was due.  Only the worklist and the tracker ask for that rule. *)
(***************************************************************************)
EXTENDS Reports, Integers

TodayStart  == (Now \div Day) * Day
TodayEnd    == TodayStart + Day
TomorrowEnd == TodayEnd + Day

\* A follow-up with the lead it hangs on.
Pairs == UNION {{[lead |-> l, row |-> a] : a \in l.activities} : l \in leads}
Keys(S) == {<<x.lead.id, x.row.id>> : x \in S}

-----------------------------------------------------------------------------
(* Conditions. *)

\* The lead must be in scope; an agent further sees his own follow-ups, a manager his team's.
activityScopeWhere(me, x) ==
  /\ ~x.row.deleted /\ leadScopeWhere(me, x.lead, FALSE)
  /\ Staff[me].role = "SALES_AGENT" => me \in x.row.users
  /\ Staff[me].role = "SALES_MANAGER" => x.row.users \cap TeamOrSelf(me) # {}
  /\ Staff[me].role \notin Operational

\* The instant before which an open follow-up is overdue; no span is the end of its day.
overdueCutoff(span) == IF span = Null THEN TodayStart ELSE Now - span

Later(a, b) == IF a > b THEN a ELSE b

Buckets == {"overdue", "today", "tomorrow", "completed", "all"}

\* Mutant: today begins at midnight whatever the rule.
TodayFromMidnight(bucket, x, span) ==
  LET a == x.row IN
  CASE bucket = "overdue" -> a.completed = Null /\ a.due < overdueCutoff(span)
    [] bucket = "today" -> OpenIn(a, TodayStart, TodayEnd)
    [] bucket = "tomorrow" -> OpenIn(a, TodayEnd, TomorrowEnd)
    [] bucket = "completed" -> a.completed # Null
    [] bucket = "all" -> TRUE

activityBucketWhere(bucket, x, span) ==
  LET a == x.row IN
  CASE bucket = "overdue" -> a.completed = Null /\ a.due < overdueCutoff(span)
    [] bucket = "today" -> OpenIn(a, Later(overdueCutoff(span), TodayStart), TodayEnd)
    [] bucket = "tomorrow" -> OpenIn(a, TodayEnd, TomorrowEnd)
    [] bucket = "completed" -> a.completed # Null
    [] bucket = "all" -> TRUE

activityFilterWhere(x, q) ==
  /\ Some(q.agent, x.row.users)
  /\ OneOf(q.status, x.lead.status)
  /\ q.pipeline \in {Null, x.lead.pipeline}
  /\ OneOf(q.type, x.row.type)

\* The title of a follow-up is its type and the name of the customer.
activitySearchWhere(x, term) ==
  term = Null \/ Matching("contains", term) \cap {x.lead.name, x.row.type} # {}

\* The quick dates: overdue is open work, the others are plain due dates.
windowWhere(window, x, q) ==
  LET within(from, to) == Within(x.row.due, from, to) IN
  CASE window = "overdue" -> x.row.completed = Null /\ x.row.due < overdueCutoff(q.span)
    [] window = "today" -> within(TodayStart, TodayEnd)
    [] window = "tomorrow" -> within(TodayEnd, TomorrowEnd)
    [] window = "yesterday" -> within(TodayStart - Day, TodayStart)
    [] window = "thisMonth" -> within(q.month[1], q.month[2])

activityDateWindowWhere(x, q) == q.windows # {} => \E w \in q.windows : windowWhere(w, x, q)

activityDueRangeWhere(x, q) == Within(x.row.due, q.from, q.to)

activityTeamWhere(x, teams) == Some(teams, {Staff[u].team : u \in x.row.users} \ {Null})

-----------------------------------------------------------------------------
(* Rows. *)

Scoped(me) == {x \in Pairs : activityScopeWhere(me, x)}

\* What the tabs share: the badges count under the filters of the page.
Base0(me, q) ==
  {x \in Scoped(me) :
     /\ activitySearchWhere(x, q.search) /\ activityFilterWhere(x, q)
     /\ activityDateWindowWhere(x, q) /\ activityDueRangeWhere(x, q)}
Tab(bucket, me, q) == {x \in Base0(me, q) : activityBucketWhere(bucket, x, q.span)}

\* The three reports measure against the day only; their windows differ.
NoStatus(q) == [q EXCEPT !.status = {}]
OverdueReport(me, q) ==
  {x \in Scoped(me) : /\ activityFilterWhere(x, NoStatus(q))
                      /\ activityBucketWhere("overdue", x, Null)
                      /\ Within(x.row.createdAt, q.from, q.to) /\ activityTeamWhere(x, q.team)}
TodaysReport(me, q) ==
  {x \in Scoped(me) : activityFilterWhere(x, NoStatus(q)) /\ activityBucketWhere("today", x, Null)}
UpcomingReport(me, q) ==
  {x \in Scoped(me) : /\ activityFilterWhere(x, NoStatus(q))
                      /\ OpenIn(x.row, TodayEnd, Null) /\ activityDueRangeWhere(x, q)}

\* A row per assignee, one of the follow-ups nobody has; an agent's one row is of all he sees.
AssigneeRows(me, S) ==
  LET users == UNION {x.row.users : x \in S}
      nobody == {x \in S : x.row.users = {}}
  IN IF SeesOnlySelf(me) THEN [u \in (IF S = {} THEN {} ELSE {me}) |-> Cardinality(S)]
     ELSE [u \in users \cup (IF nobody = {} THEN {} ELSE {Null}) |->
             Cardinality(IF u = Null THEN nobody ELSE {x \in S : u \in x.row.users})]

worklist(me, q) ==
  /\ ListActivitiesQueryDto(q)
  /\ Say("worklist", me, q,
       [tabs |-> [b \in Buckets |-> Keys(Tab(b, me, q))],
        counts |-> [b \in Buckets |-> Cardinality(Tab(b, me, q))],
        overdueBefore |-> overdueCutoff(q.span)])

\* This month is a due date, done or not.
tracker(me, q) ==
  /\ ActivitiesTrackerQueryDto(q)
  /\ Say("tracker", me, q,
       [counts |-> [g \in {"overdue", "today", "tomorrow", "thisMonth"} |->
          Cardinality({x \in Scoped(me) :
            IF g = "thisMonth" THEN windowWhere(g, x, q) ELSE activityBucketWhere(g, x, q.span)})]])

FollowUpReport(report, me, q, S) ==
  Say(report, me, q, [list |-> Keys(S), total |-> Cardinality(S), rows |-> AssigneeRows(me, S)])

overdueFollowUps(me, q) ==
  OverdueFollowUpsQueryDto(q) /\ FollowUpReport("overdue", me, q, OverdueReport(me, q))
todaysFollowUps(me, q) ==
  TodaysFollowUpsQueryDto(q) /\ FollowUpReport("todays", me, q, TodaysReport(me, q))
upcomingFollowUps(me, q) ==
  UpcomingFollowUpsQueryDto(q) /\ FollowUpReport("upcoming", me, q, UpcomingReport(me, q))

-----------------------------------------------------------------------------
(* The counters of the dashboard. *)

HOT_LEAD_STATUSES == {"HOT", "SUPER HOT"}

Period(q) == [Query EXCEPT !.from = q.from, !.to = q.to]

callsWhere(me, q, direction) ==
  UNION {{<<l.id, c>> : c \in {x \in LiveOf(l.calls) :
                                 /\ Within(x.at, q.from, q.to)
                                 /\ direction \in {Null, x.direction}
                                 /\ OneOf(q.agent, x.agent)}} :
         l \in {x \in leads : leadScopeWhere(me, x, FALSE)}}

todaysLeadsWhere(me, q) ==
  {l \in leads : /\ leadScopeWhere(me, l, FALSE)
                 /\ \E a \in l.assigned : Within(a.at, q.from, q.to)}

todaysFollowUpsWhere(me, q) ==
  {x \in Scoped(me) : x.row.completed = Null /\ activityDueRangeWhere(x, q)}

\* Refused if the period ends before it begins.  The period is all a counter takes over from a
\* report's filters; the agents narrow what it counts.
kpis(me, q) ==
  /\ DashboardKpisQueryDto(q)
  /\ LET p == Period(q)
         owned(S) == Cardinality({l \in S : Some(q.agent, Assignees(l))})
         carried(S) == Cardinality({x \in S : Some(q.agent, x.row.users)})
         calls(direction) == Cardinality(callsWhere(me, q, direction))
     IN /\ q.from # Null /\ q.to # Null => q.to >= q.from
        /\ Say("kpis", me, q,
             [overdueFollowUps |-> carried(OverdueReport(me, p)),
              todaysFollowUps |-> carried(todaysFollowUpsWhere(me, p)),
              todaysLeads |-> owned(todaysLeadsWhere(me, p)),
              hotLeads |-> owned(Base(me, [p EXCEPT !.status = HOT_LEAD_STATUSES])),
              wonLeads |-> owned(Converted(me, p)), lostLeads |-> owned(Lost(me, p)),
              outboundCalls |-> calls("OUTBOUND"), inboundCalls |-> calls("INBOUND"),
              callsToday |-> calls(Null)])

-----------------------------------------------------------------------------

NextFollowUps ==
  Ask /\ \E me \in Askers, q \in Queries :
    \/ worklist(me, q) \/ tracker(me, q) \/ kpis(me, q)
    \/ overdueFollowUps(me, q) \/ todaysFollowUps(me, q) \/ upcomingFollowUps(me, q)

-----------------------------------------------------------------------------
(* Properties. *)

\* Under the shipped rule the tabs, the reports and the tracker agree on what is overdue, due
\* today and coming up; under any rule no follow-up is in two open tabs, and none that is due
\* before tomorrow is in neither unless the span reaches back before today.
TabsTile ==
  /\ Is("worklist") =>
       LET q == answer.query  tab == answer.tabs IN
       /\ tab["overdue"] \cap tab["today"] = {} /\ tab["today"] \cap tab["tomorrow"] = {}
       /\ \A b \in Buckets : tab[b] \subseteq tab["all"]
       /\ overdueCutoff(q.span) >= TodayStart =>
            tab["overdue"] \cup tab["today"] =
              Keys({x \in Base0(answer.me, q) : OpenIn(x.row, Null, TodayEnd)})
       /\ q.span = Null /\ q.status = {} /\ q.search = Null /\ ~Windowed(q) /\ q.windows = {} =>
            /\ tab["overdue"] = Keys(OverdueReport(answer.me, q))
            /\ tab["today"] = Keys(TodaysReport(answer.me, q))
            /\ tab["tomorrow"] \subseteq Keys(UpcomingReport(answer.me, q))
            /\ tab["completed"] = tab["all"] \ Keys(OverdueReport(answer.me, q) \cup
                 TodaysReport(answer.me, q) \cup UpcomingReport(answer.me, q))
  /\ Is("tracker") =>
       \A b \in {"overdue", "today", "tomorrow"} :
         answer.counts[b] = Cardinality(Tab(b, answer.me, [Query EXCEPT !.span = answer.query.span]))

\* A counter is the length of the list it opens: for every period and agent, the won, the lost,
\* the overdue and the calls; the hot leads are those of the leads report.
CountersMatchLists ==
  Is("kpis") =>
    LET me == answer.me  q == answer.query
        asked == [Period(q) EXCEPT !.agent = q.agent]
    IN /\ answer.wonLeads = Cardinality(Converted(me, asked))
       /\ answer.lostLeads = Cardinality(Lost(me, asked))
       /\ answer.overdueFollowUps = Cardinality(OverdueReport(me, asked))
       /\ answer.hotLeads = Cardinality({l \in ByStatus(me, asked) : l.status \in HOT_LEAD_STATUSES})
       /\ answer.callsToday = answer.inboundCalls + answer.outboundCalls

\* dashboard-kpis.ts:113-116: with the period set to the caller's today the counter of today's
\* follow-ups equals the worklist's Today tab.
TodayCounterIsTab ==
  Is("kpis") /\ answer.query.from = TodayStart /\ answer.query.to = TodayEnd
             /\ answer.query.agent = {} =>
    answer.todaysFollowUps =
      Cardinality(Tab("today", answer.me, [Query EXCEPT !.span = answer.query.span]))
=============================================================================
