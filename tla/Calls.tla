-------------------------------- MODULE Calls --------------------------------
(***************************************************************************)
(* The call dashboard (src/src/calls): panels, leaderboard, figures of a   *)
(* period beside the one before, the log and the lookup of a number.  A    *)
(* call is visible if its lead is in scope.                                *)
(***************************************************************************)
EXTENDS Revenue

CONSTANTS Initials,    \* [boards -> their initials]
          MaxRange     \* the longest period, in instants

\* A call with the lead it belongs to.
Line(l, c) == [lead |-> l, call |-> c]
CallScope(me) ==
  UNION {{Line(l, c) : c \in LiveOf(l.calls)} : l \in {x \in leads : leadScopeWhere(me, x, FALSE)}}
CallIds(S) == {<<x.lead.id, x.call.id>> : x \in S}

\* Today unless the caller says otherwise; a period that is inverted or too long is refused.
Start(q) == IF q.from = Null THEN TodayStart ELSE q.from
End(q) == IF q.to = Null THEN Start(q) + Day ELSE q.to
Resolved(q) == Start(q) <= End(q) /\ End(q) - Start(q) <= MaxRange

\* The calls of one agent, if q names one.
CallsIn(me, q, from, to) ==
  {x \in CallScope(me) : Within(x.call.at, from, to) /\ OneOf(q.agent, x.call.agent)}
PeriodCalls(me, q) == CallsIn(me, q, Start(q), End(q))

Having(S, outcome) == {x \in S : x.call.outcome = outcome}
Going(S, direction) == {x \in S : x.call.direction = direction}
\* A contact is a lead.
Contacts(S) == {x.lead.id : x \in S}
Minutes(S) == SumFunction([x \in S |-> x.call.duration])

-----------------------------------------------------------------------------

StageLabel(status, board) == <<status, Initials[board]>>
SourceOf(l) == IF l.source \in {Null, Blank} THEN "Unknown" ELSE l.source

\* A row per stage of the catalogue, whose label is all that says which calls are in it, and one
\* per label that no stage has.
callAnalytics(me, q) ==
  /\ CallSummaryQueryDto(q)
  /\ LET S == PeriodCalls(me, q)
         at(label) == Cardinality({x \in S : StageLabel(x.lead.status, x.lead.pipeline) = label})
         labels == {StageLabel(s.name, s.board) : s \in Stages}
         others == {StageLabel(x.lead.status, x.lead.pipeline) : x \in S} \ labels
     IN /\ Resolved(q)
        /\ Say("analytics", me, q,
             [byStatus |-> [o \in Outcomes |-> Cardinality(Having(S, o))],
              bySource |-> [s \in {SourceOf(x.lead) : x \in S} |->
                              Cardinality({x \in S : SourceOf(x.lead) = s})],
              byStage |-> [r \in {<<s.name, s.board>> : s \in Stages} |-> at(StageLabel(r[1], r[2]))],
              byOtherLabel |-> [label \in others |-> at(label)],
              total |-> Cardinality(S)])

AgentRow(S) ==
  [total |-> Cardinality(S), unique |-> Cardinality(Contacts(S)),
   answered |-> Cardinality(Having(S, "ANSWERED")),
   missed |-> Cardinality(Going(S, "INBOUND") \ Having(S, "ANSWERED")), minutes |-> Minutes(S)]

\* The dashboard's call activity board shows these rows, and its sales leaderboard their totals.
callLeaderboard(me, q) ==
  /\ CallSummaryQueryDto(q)
  /\ LET S == PeriodCalls(me, q) IN
     /\ Resolved(q)
     /\ Say("callLeaderboard", me, q,
          [rows |-> [u \in {x.call.agent : x \in S} |-> AgentRow({x \in S : x.call.agent = u})]])

\* Contacts of the period without any call before it, whoever made that call.
freshCalls(S, from) ==
  LET before(id) == \E c \in LiveOf(Pool[id].calls) : c.at < from
  IN Cardinality({id \in Contacts(S) : ~before(id)})

\* Completed follow-ups are of all the leads in scope, whoever they were assigned to.
followUpsCompleted(me, q, from, to) ==
  Cardinality({x \in Pairs : /\ ~x.row.deleted /\ leadScopeWhere(me, x.lead, FALSE)
                             /\ x.row.type = "CALL" /\ x.row.completed # Null
                             /\ Within(x.row.completed, from, to) /\ Some(q.agent, x.row.users)})

metrics(me, q, from, to) ==
  LET S == CallsIn(me, q, from, to)
      missed == Going(S, "INBOUND") \ Having(S, "ANSWERED")
  IN Along(AgentRow(S),
     [fresh |-> freshCalls(S, from), followUps |-> followUpsCompleted(me, q, from, to),
      outbound |-> Cardinality(Going(S, "OUTBOUND")), inbound |-> Cardinality(Going(S, "INBOUND")),
      abandoned |-> Cardinality({x \in missed : x.call.duration = 0})])

callSummary(me, q) ==
  /\ CallSummaryQueryDto(q)
  /\ LET from == Start(q)  to == End(q) IN
     /\ Resolved(q)
     /\ Say("callSummary", me, q, [current |-> metrics(me, q, from, to),
                                   previous |-> metrics(me, q, from - (to - from), from)])

-----------------------------------------------------------------------------
(* The log. *)

\* The next open follow-up of a call's lead.
nextFollowUp(l) ==
  LET open == {a.due : a \in {x \in LiveOf(l.activities) : x.completed = Null}}
  IN IF open = {} THEN Null ELSE Min(open)

LogRows(me, q) ==
  {x \in PeriodCalls(me, q) : leadSearchWhere(x.lead, q.search) /\ OneOf(q.status, x.lead.status)}

\* The rows in one of the orders ORDER BY allows: by the length of the call if asked, the latest
\* first, and the rows that agree on both in any order.
CallBefore(q, x, y) ==
  LET a == x.call  b == y.call IN
  \/ q.sorted /\ a.duration > b.duration
  \/ (q.sorted => a.duration = b.duration) /\ a.at > b.at

Orders(S, q) ==
  {s \in [1 .. Cardinality(S) -> S] :
     /\ \A i, j \in DOMAIN s : i # j => s[i] # s[j]
     /\ \A i, j \in DOMAIN s : i < j => ~CallBefore(q, s[j], s[i])}

\* Two pages are two requests: each statement has its own order.
callLog(me, q) ==
  /\ CallLogQueryDto(q)
  /\ LET S == LogRows(me, q) IN
     /\ Resolved(q)
     /\ Cardinality(S) <= 4
     /\ \E one, two \in Orders(S, q) :
          LET ids(s, from) == {<<s[i].lead.id, s[i].call.id>> :
                                 i \in {j \in DOMAIN s : from < j /\ j <= from + q.size}}
          IN Say("callLog", me, q,
               [total |-> Cardinality(S), first |-> ids(one, 0), second |-> ids(two, q.size),
                next |-> [id \in Contacts(S) |-> nextFollowUp(Pool[id])]])

\* Who has the number: the oldest lead in scope.
callHistory(me, number) ==
  LET found == {l \in leads : leadScopeWhere(me, l, FALSE) /\ l.primaryPhone = number}
      oldest == {l \in found : \A x \in found : l.createdAt <= x.createdAt}
  IN IF found = {} \/ Trim[number] = Blank
     THEN Say("history", me, Query, [contact |-> Null, calls |-> {}])
     ELSE \E l \in oldest : Say("history", me, Query,
                              [contact |-> l.id, calls |-> {c.id : c \in LiveOf(l.calls)}])

NextCalls ==
  \/ Ask /\ \E me \in Askers, q \in Queries :
       callAnalytics(me, q) \/ callLeaderboard(me, q) \/ callSummary(me, q) \/ callLog(me, q)
  \/ Ask /\ \E me \in Askers, number \in {Trim[p] : p \in DOMAIN Trim} : callHistory(me, number)

-----------------------------------------------------------------------------
(* Properties. *)

\* The call figures of a period agree whichever panel shows them: the agents' rows, the outcomes,
\* the sources and the figures above them; the period before ends where this one begins.
CallsAddUp ==
  LET me == answer.me  q == answer.query
      S == PeriodCalls(me, q)
  IN /\ Is("analytics") =>
          /\ SumFunction(answer.byStatus) = answer.total
          /\ SumFunction(answer.bySource) = answer.total
     /\ Is("callLeaderboard") =>
          /\ SumFunction(Figure(answer.rows, "total")) = metrics(me, q, Start(q), End(q)).total
          /\ SumFunction(Figure(answer.rows, "unique")) >= Cardinality(Contacts(S))
          /\ SumFunction(Figure(answer.rows, "missed")) = metrics(me, q, Start(q), End(q)).missed
     /\ Is("callSummary") =>
          /\ answer.current.inbound + answer.current.outbound = answer.current.total
          /\ answer.current.missed + answer.current.answered <= answer.current.total
          /\ answer.current.abandoned <= answer.current.missed
          /\ answer.current.fresh <= answer.current.unique
          /\ q.from # Null /\ q.to # Null =>
               answer.current.total = Cardinality(callsWhere(me, q, Null))
     /\ Is("history") /\ answer.contact # Null =>
          \A id \in answer.calls : \E c \in Pool[answer.contact].calls : c.id = id /\ ~c.deleted

\* call-analytics.service.ts:72-73: both panels sum to the same total.
PanelsSum ==
  Is("analytics") =>
    SumFunction(answer.byStage) + SumFunction(answer.byOtherLabel)
      = SumFunction(answer.bySource)

\* call-log.service.ts:117-119: the page order is stable, so two pages never show one call twice.
PagesStable == Is("callLog") => answer.first \cap answer.second = {}
==============================================================================
