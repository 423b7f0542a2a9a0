------------------------------ MODULE LeadWhere ------------------------------
(***************************************************************************)
(* Which leads a read of the leads table returns: the scope of the reader, *)
(* the search, the conditions of the filter builder and the quick filters  *)
(* (src/src/leads/lead-where.ts and the fragments it composes), as the     *)
(* database evaluates them.                                                *)
(*                                                                         *)
(* A column that is NULL compares as unknown, NOT leaves it unknown and a  *)
(* row is returned only if its condition is true, so a fragment has one of *)
(* three truth values.                                                     *)
(*                                                                         *)
(* Texts are opaque: Like says of which texts a term is the whole, a part, *)
(* the beginning or the end, whatever the case.  Instants and numbers are  *)
(* naturals.  One column stands for all of its kind and nullability.       *)
(***************************************************************************)
EXTENDS Naturals, Sequences, FiniteSets

CONSTANTS Null,
          Staff,     \* [user -> [role, team, denied: the boards kept from it, active, deleted, goal]]
          Blank,     \* the empty text
          Like,      \* [{"is", "contains", "startsWith", "endsWith"} -> pairs of text and term]
          Whole      \* the numbers an Int column holds

ASSUME BlankIsATerm == <<Blank, Blank>> \in Like["is"] /\ Null # Blank

Unknown == "unknown"
Sql(b) == IF b THEN "true" ELSE "false"
Not(x) == CASE x = "true" -> "false" [] x = "false" -> "true" [] OTHER -> Unknown
Or(xs) == IF "true" \in xs THEN "true" ELSE IF Unknown \in xs THEN Unknown ELSE "false"
And(xs) == Not(Or({Not(x) : x \in xs}))

\* A column against the values a comparison accepts.
Among(value, accepted) == IF value = Null THEN Unknown ELSE Sql(value \in accepted)

-----------------------------------------------------------------------------
(* Engagement, and what a half-open window [from, to) accepts; an absent bound is Null. *)

Within(at, from, to) == (from # Null => at >= from) /\ (to # Null => at < to)

LiveOf(rows) == {x \in rows : ~x.deleted}

answeredCallWhere(l, from, to) ==
  \E c \in LiveOf(l.calls) : c.outcome = "ANSWERED" /\ Within(c.at, from, to)

noEngagementWhere(l, from, to) ==
  /\ \A a \in LiveOf(l.activities) : a.completed = Null \/ ~Within(a.completed, from, to)
  /\ \A c \in LiveOf(l.calls) : ~Within(c.at, from, to)

-----------------------------------------------------------------------------
(* The condition builder. *)

Column(kind, required, integer) == [kind |-> kind, required |-> required, integer |-> integer]

\* The columns of the lead itself, then those read through a join.
Columns == [name |-> Column("text", TRUE, FALSE), source |-> Column("text", FALSE, FALSE),
            status |-> Column("enum", TRUE, FALSE), category |-> Column("enum", FALSE, FALSE),
            actualAmount |-> Column("numeric", FALSE, FALSE),
            callAttempts |-> Column("numeric", TRUE, TRUE),
            createdAt |-> Column("date", TRUE, FALSE), bookingDate |-> Column("date", FALSE, FALSE)]
Joins == [assignedAgent |-> "user", team |-> "team", activity |-> "activity", tags |-> "tags",
          assignedDate |-> "date", followUpDate |-> "date", complaints |-> "text"]

KindOf(field) == IF field \in DOMAIN Columns THEN Columns[field].kind ELSE Joins[field]
IsInteger(field) == field \in DOMAIN Columns /\ Columns[field].integer

Valueless == {"isEmpty", "isNotEmpty"}
RangeOps  == {"between", "notBetween", "on"}

OPERATORS_FOR ==
  [numeric |-> {"equals", "notEquals", "lessThan", "lessThanOrEqual", "greaterThan",
                "greaterThanOrEqual", "between", "notBetween"} \cup Valueless,
   date |-> {"on", "before", "after", "between", "notBetween"} \cup Valueless,
   text |-> {"is", "isnt", "contains", "doesntContain", "startsWith", "endsWith"} \cup Valueless,
   enum |-> {"is", "isnt"} \cup Valueless,
   user |-> {"is", "isnt"} \cup Valueless, tags |-> {"is", "isnt"} \cup Valueless,
   team |-> {"is", "isnt"} \cup Valueless, activity |-> {"is", "isnt"}]

ActivityKeys == {"contacted", "noactivity"}

\* parseLeadConditions refuses everything else with a 400.
Valid(c) ==
  LET kind == KindOf(c.field) IN
  /\ c.field \in DOMAIN Columns \cup DOMAIN Joins
  /\ c.op \in OPERATORS_FOR[kind]
  /\ c.op \in Valueless => c.values = <<>>
  /\ c.op \in RangeOps => Len(c.values) = 2
  /\ c.op \notin Valueless \cup RangeOps => c.values # <<>>
  /\ IsInteger(c.field) => \A i \in DOMAIN c.values : c.values[i] \in Whole
  /\ kind = "date" /\ c.op \in RangeOps => c.values[1] < c.values[2]
  /\ kind = "activity" => \A i \in DOMAIN c.values : c.values[i] \in ActivityKeys

ValuesOf(c) == {c.values[i] : i \in DOMAIN c.values}

\* Mutant: a negative match leaves out the rows without a value.
SqlNegation(spec, value, x) == x

\* A negative match keeps the rows without a value; a NOT NULL column has none.
orEmpty(spec, value, x) == IF spec.required THEN x ELSE Or({x, Sql(value = Null)})

emptyString(spec, value) ==
  IF spec.required THEN Among(value, {Blank}) ELSE Or({Sql(value = Null), Among(value, {Blank})})

\* The texts a term matches.
Matching(op, term) == {t \in {p[1] : p \in Like[op]} : <<t, term>> \in Like[op]}

textScalarWhere(spec, x, op, v) ==
  CASE op = "isnt" -> orEmpty(spec, x, Not(Among(x, Matching("is", v[1]))))
    [] op = "doesntContain" -> orEmpty(spec, x, Not(Among(x, Matching("contains", v[1]))))
    [] op = "isEmpty" -> emptyString(spec, x)
    [] op = "isNotEmpty" -> Not(emptyString(spec, x))
    [] OTHER -> Among(x, Matching(op, v[1]))

\* x < n and its like of a nullable number or instant.
Below(x, n) == IF x = Null THEN Unknown ELSE Sql(x < n)
AtMost(x, n) == IF x = Null THEN Unknown ELSE Sql(x <= n)

numericScalarWhere(spec, x, op, v) ==
  CASE op = "equals" -> Among(x, {v[1]})
    [] op = "notEquals" -> orEmpty(spec, x, Not(Among(x, {v[1]})))
    [] op = "lessThan" -> Below(x, v[1])
    [] op = "lessThanOrEqual" -> AtMost(x, v[1])
    [] op = "greaterThan" -> Not(AtMost(x, v[1]))
    [] op = "greaterThanOrEqual" -> Not(Below(x, v[1]))
    [] op = "between" -> And({Not(Below(x, v[1])), AtMost(x, v[2])})
    [] op = "notBetween" -> orEmpty(spec, x, Or({Below(x, v[1]), Not(AtMost(x, v[2]))}))
    [] op = "isEmpty" -> Sql(~spec.required /\ x = Null)
    [] op = "isNotEmpty" -> Sql(spec.required \/ x # Null)

enumScalarWhere(spec, x, op, values) ==
  CASE op = "is" -> Among(x, values)
    [] op = "isnt" -> orEmpty(spec, x, Not(Among(x, values)))
    [] op = "isEmpty" -> emptyString(spec, x)
    [] op = "isNotEmpty" -> Not(emptyString(spec, x))

dateComparison(x, op, v) ==
  CASE op \in {"on", "between"} -> And({Not(Below(x, v[1])), Below(x, v[2])})
    [] op = "before" -> Below(x, v[1])
    [] op = "after" -> Not(Below(x, v[1]))

dateScalarWhere(spec, x, op, v) ==
  CASE op = "notBetween" -> orEmpty(spec, x, Or({Below(x, v[1]), Not(Below(x, v[2]))}))
    [] op = "isEmpty" -> Sql(~spec.required /\ x = Null)
    [] op = "isNotEmpty" -> Sql(spec.required \/ x # Null)
    [] OTHER -> dateComparison(x, op, v)

\* Assignees, tags and the assignees' teams: EXISTS, or NOT EXISTS.
joinWhere(ids, op, values) ==
  CASE op = "is" -> Sql(ids \cap values # {})
    [] op = "isnt" -> Sql(ids \cap values = {})
    [] op = "isEmpty" -> Sql(ids = {})
    [] op = "isNotEmpty" -> Sql(ids # {})

\* Dates of rows of another table; no row inside is what notBetween asks.
relationDateWhere(dates, op, v) ==
  CASE op = "isEmpty" -> Sql(dates = {})
    [] op = "isNotEmpty" -> Sql(dates # {})
    [] op = "notBetween" -> Sql(\A d \in dates : dateComparison(d, "between", v) # "true")
    [] OTHER -> Sql(\E d \in dates : dateComparison(d, op, v) = "true")

complaintsTextWhere(texts, op, v) ==
  CASE op = "isEmpty" -> Sql(texts = {})
    [] op = "isNotEmpty" -> Sql(texts # {})
    [] op = "isnt" -> Sql(texts \cap Matching("is", v[1]) = {})
    [] op = "doesntContain" -> Sql(texts \cap Matching("contains", v[1]) = {})
    [] OTHER -> Sql(texts \cap Matching(op, v[1]) # {})

activityWhere(l, op, values) ==
  LET any == \/ "contacted" \in values /\ answeredCallWhere(l, Null, Null)
             \/ "noactivity" \in values /\ noEngagementWhere(l, Null, Null)
  IN  IF op = "isnt" THEN Sql(~any) ELSE Sql(any)

Assignees(l) == {a.user : a \in l.assigned}
TeamsOf(l) == {Staff[u].team : u \in Assignees(l)} \ {Null}

\* One fragment of leadConditionWhere.
ConditionWhere(l, c) ==
  LET f == c.field  op == c.op  v == c.values  spec == Columns[f] IN
  CASE f = "assignedAgent" -> joinWhere(Assignees(l), op, ValuesOf(c))
    [] f = "team" -> joinWhere(TeamsOf(l), op, ValuesOf(c))
    [] f = "tags" -> joinWhere(l.tags, op, ValuesOf(c))
    [] f = "activity" -> activityWhere(l, op, ValuesOf(c))
    [] f = "assignedDate" -> relationDateWhere({a.at : a \in l.assigned}, op, v)
    [] f = "followUpDate" -> relationDateWhere({a.due : a \in LiveOf(l.activities)}, op, v)
    [] f = "complaints" -> complaintsTextWhere({x.details : x \in LiveOf(l.complaints)}, op, v)
    [] f \in DOMAIN Columns /\ KindOf(f) = "text" -> textScalarWhere(spec, l[f], op, v)
    [] f \in DOMAIN Columns /\ KindOf(f) = "numeric" -> numericScalarWhere(spec, l[f], op, v)
    [] f \in DOMAIN Columns /\ KindOf(f) = "date" -> dateScalarWhere(spec, l[f], op, v)
    [] f \in DOMAIN Columns /\ KindOf(f) = "enum" -> enumScalarWhere(spec, l[f], op, ValuesOf(c))

-----------------------------------------------------------------------------
(* Scope, search and the quick filters. *)

Team(team) == {u \in DOMAIN Staff : Staff[u].team = team}

openPipelinesWhere(u, l) == u.role = "SUPERADMIN" \/ l.pipeline \notin u.denied

\* The colleagues a manager answers for; without a team, himself.
TeamOrSelf(me) ==
  IF Staff[me].team = Null THEN {me} ELSE Team(Staff[me].team)

OrgWide     == {"CUSTOMER_SERVICE_AGENT", "MARKETING_ANALYST"}
Operational == {"LOGISTICS_MANAGER", "LOGISTICS_EXECUTIVE", "ACCOUNTS_EXECUTIVE", "QC"}

leadScopeWhere(me, l, archived) ==
  LET role == Staff[me].role IN
  /\ l.archived = archived
  /\ \/ role = "SUPERADMIN"
     \/ role = "SALES_AGENT" /\ me \in Assignees(l)
     \/ role = "SALES_MANAGER" /\ openPipelinesWhere(Staff[me], l)
                               /\ Assignees(l) \cap TeamOrSelf(me) # {}
     \/ role \in OrgWide /\ openPipelinesWhere(Staff[me], l)

\* The term as a part of the name or the phone.
leadSearchWhere(l, term) ==
  term = Null \/ Matching("contains", term) \cap {l.name, l.primaryPhone} # {}

\* The worklist's buckets; no rule is the shipped one, overdue once its day has ended.
OpenIn(a, from, to) == a.completed = Null /\ Within(a.due, from, to)

HasOpen(l, from, to) == \E a \in LiveOf(l.activities) : OpenIn(a, from, to)

\* A filter that is not set is absent: {} for the sets, Null for the others.
NoFilter == [source |-> {}, status |-> {}, agent |-> {}, tag |-> {}, pipeline |-> Null,
             from |-> Null, to |-> Null, unassigned |-> FALSE,
             todays |-> FALSE, overdue |-> FALSE, noActivity |-> FALSE, day |-> Null]

OneOf(wanted, x) == wanted = {} \/ x \in wanted
Some(wanted, xs) == wanted = {} \/ wanted \cap xs # {}

leadFilterWhere(l, q) ==
  /\ OneOf(q.source, l.source)
  /\ OneOf(q.status, l.status)
  /\ Some(q.agent, Assignees(l))
  /\ Some(q.tag, l.tags)
  /\ q.pipeline \in {Null, l.pipeline}
  /\ Within(l.createdAt, q.from, q.to)
  /\ q.unassigned => Assignees(l) = {}
  /\ q.day # Null /\ q.todays => HasOpen(l, q.day[1], q.day[2])
  /\ q.day # Null /\ q.overdue => HasOpen(l, Null, q.day[1])
  /\ q.noActivity => LiveOf(l.activities) = {}

buildLeadWhere(me, l, archived, term, conditions, q) ==
  /\ leadScopeWhere(me, l, archived)
  /\ leadSearchWhere(l, term)
  /\ \A c \in conditions : ConditionWhere(l, c) = "true"
  /\ leadFilterWhere(l, q)

\* The duplicate search scope: phones more than one lead of the whole scope holds.
duplicatePhones(leads) ==
  {l.primaryPhone : l \in {x \in leads : \E y \in leads \ {x} : y.primaryPhone = x.primaryPhone}}
=============================================================================
