------------------------------- MODULE Queries -------------------------------
(***************************************************************************)
(* The queries the reads accept.  Every endpoint validates its query       *)
(* against a class of its own before its handler runs (ValidationPipe with *)
(* whitelist and forbidNonWhitelisted): a parameter the class lacks, or    *)
(* one outside its values, is a 400.                                       *)
(*                                                                         *)
(* One record stands for all of them; a parameter that is not sent has its *)
(* default, and a class is what it allows to differ from it.               *)
(***************************************************************************)
EXTENDS LeadWhere

CONSTANTS Day, Now   \* the length of a day and the present
ASSUME ClockAssumption == Day \in Nat \ {0} /\ Now \in Nat

\* The fields of both; those they share are f's.
Along(f, g) == [x \in DOMAIN f \cup DOMAIN g |-> IF x \in DOMAIN f THEN f[x] ELSE g[x]]

\* Nothing chosen.  span is no parameter but the workspace's rule.
Query == Along(NoFilter,
  [team |-> {}, dateField |-> "created", reason |-> {}, conditions |-> {}, search |-> Null,
   includeLost |-> FALSE, contact |-> "all", activityType |-> {}, type |-> {},
   green |-> 1, amber |-> 2, late |-> 1, manager |-> Null,
   span |-> Null, windows |-> {}, month |-> <<0, 3 * Day>>,
   prior |-> Null, edges |-> <<>>, group |-> "none", sorted |-> FALSE, up |-> TRUE, size |-> 2,
   assigned |-> FALSE])

Only(q, fields) == \A f \in DOMAIN Query \ (fields \cup {"span"}) : q[f] = Query[f]

Window == {"from", "to"}
Dated(q) == q.dateField \in {"created", "statusChanged"}
Cohort == Window \cup {"dateField", "agent", "pipeline", "conditions"}
FromOne(q) == q.size >= 1

-----------------------------------------------------------------------------
(* The leads list, and what extends it. *)

LeadsFields == DOMAIN NoFilter \cup {"search", "conditions", "size"}

ListLeadsQueryDto(q) == Only(q, LeadsFields) /\ FromOne(q)
SalesFunnelQueryDto(q) == Only(q, LeadsFields \cup {"includeLost"}) /\ FromOne(q)
SalesPipelineQueryDto(q) == Only(q, LeadsFields \cup {"month"}) /\ FromOne(q)

-----------------------------------------------------------------------------
(* The reports. *)

LeadsByStatusQueryDto(q) == Only(q, Cohort \cup {"team", "status", "size"}) /\ Dated(q) /\ FromOne(q)
LeadsBySourceQueryDto(q) == Only(q, Cohort \cup {"team", "source", "size"}) /\ Dated(q) /\ FromOne(q)

LeadsByOwnershipQueryDto(q) ==
  Only(q, Cohort \cup {"team", "source", "unassigned", "size"}) /\ Dated(q) /\ FromOne(q)

LostLeadsQueryDto(q) ==
  Only(q, Cohort \cup {"team", "source", "reason", "size"}) /\ Dated(q) /\ FromOne(q)

ConvertedLeadsQueryDto(q) == Only(q, Cohort \cup {"source", "size"}) /\ Dated(q) /\ FromOne(q)

NoActivityQueryDto(q) ==
  Only(q, Window \cup {"source", "pipeline", "unassigned", "agent", "size"}) /\ FromOne(q)

TodayLeadsQueryDto(q) == Only(q, Window \cup {"source", "pipeline", "agent", "size"}) /\ FromOne(q)

DuplicateEnquiriesQueryDto(q) == Only(q, Window \cup {"source", "agent", "size"}) /\ FromOne(q)

\* Thresholds of a day or more; that they ascend is the service's to refuse.
LeadAgingQueryDto(q) ==
  /\ Only(q, Window \cup {"agent", "status", "unassigned", "includeLost", "green", "amber", "size"})
  /\ q.green >= 1 /\ q.amber >= 1 /\ FromOne(q)

LeadFirstResponseQueryDto(q) ==
  /\ Only(q, Window \cup {"search", "agent", "source", "activityType", "contact", "late", "size"})
  /\ q.contact \in {"all", "contacted", "untouched"} /\ q.late >= 1 /\ FromOne(q)

TeamPerformanceQueryDto(q) ==
  /\ Only(q, Window \cup {"dateField", "team", "agent", "manager", "source"})
  /\ q.dateField \in {"created", "statusChanged", "orderCreated"}

OverdueFollowUpsQueryDto(q) ==
  Only(q, Window \cup {"agent", "team", "pipeline", "type", "size"}) /\ FromOne(q)
TodaysFollowUpsQueryDto(q) == Only(q, {"agent", "pipeline", "type", "size"}) /\ FromOne(q)
UpcomingFollowUpsQueryDto(q) == Only(q, Window \cup {"agent", "pipeline", "type", "size"}) /\ FromOne(q)

RevenueQueryDto(q) ==
  /\ Only(q, Window \cup {"prior", "edges", "agent", "pipeline", "conditions",
                          "group", "sorted", "up", "size"})
  /\ FromOne(q)

-----------------------------------------------------------------------------
(* The worklist, the dashboard and the calls. *)

ListActivitiesQueryDto(q) ==
  /\ Only(q, Window \cup {"search", "agent", "status", "pipeline", "windows", "month", "type", "size"})
  /\ FromOne(q)

DashboardPeriodQueryDto(q) == Only(q, Window)
DashboardKpisQueryDto(q) == Only(q, Window \cup {"agent"})
HotLeadsQueryDto(q) == Only(q, Window \cup {"size"}) /\ FromOne(q)
LeadsAttentionQueryDto(q) == Only(q, Window \cup {"size"}) /\ FromOne(q)
LeadsConversionQueryDto(q) == Only(q, Window)
LeadSourceSummaryQueryDto(q) == Only(q, Window \cup {"assigned"})
ActivitiesTrackerQueryDto(q) == Only(q, {"month", "size"}) /\ FromOne(q)

\* One agent, one outcome of a lead, one order.
CallSummaryQueryDto(q) == Only(q, Window \cup {"agent"}) /\ Cardinality(q.agent) <= 1
CallLogQueryDto(q) ==
  /\ Only(q, Window \cup {"search", "status", "agent", "sorted", "size"})
  /\ Cardinality(q.agent) <= 1 /\ Cardinality(q.status) <= 1 /\ FromOne(q)
=============================================================================
