------------------------------ MODULE MCReports ------------------------------
(***************************************************************************)
(* Instances of Reads: small tables and what is asked of them, a funnel of *)
(* three stages, files of two batches and a route of each kind.            *)
(***************************************************************************)
EXTENDS Reads, TLC

CONSTANTS s1, s2, s3, n1, n2, n3, b1, b2

-----------------------------------------------------------------------------
(* The staff: every role that reads reports, an agent who left, and a manager without a team. *)

User(role, team, denied, active, goal) ==
  [role |-> role, team |-> team, denied |-> denied, active |-> active, deleted |-> ~active,
   goal |-> goal]
MCStaff == [boss |-> User("SUPERADMIN", Null, {}, TRUE, Null),
          lead |-> User("SALES_MANAGER", "north", {"East"}, TRUE, 5),
          ann  |-> User("SALES_AGENT", "north", {}, TRUE, 3),
          bob  |-> User("SALES_AGENT", "south", {}, TRUE, Null),
          solo |-> User("SALES_MANAGER", Null, {}, TRUE, Null),
          gone |-> User("SALES_AGENT", "north", {}, FALSE, 4),
          desk |-> User("CUSTOMER_SERVICE_AGENT", Null, {"West"}, TRUE, Null)]

-----------------------------------------------------------------------------
(* The leads.  Instants are hours of days of ten; it is hour 25.  The columns of lead i run *)
(* through their values at different paces, so that thirty leads meet most pairs of them. *)

Turn(i, column) == column[1 + (i % Len(column))]
On(user, at) == [user |-> user, at |-> at]
FollowUp(id, type, createdAt, due, completed, users) ==
  [id |-> id, type |-> type, createdAt |-> createdAt, due |-> due, completed |-> completed,
   deleted |-> FALSE, users |-> users]
PhoneCall(id, at, outcome, duration, direction, agent) ==
  [id |-> id, at |-> at, outcome |-> outcome, duration |-> duration, deleted |-> FALSE,
   direction |-> direction, agent |-> agent]
Gone(row) == [row EXCEPT !.deleted = TRUE]

Owners == <<{On("ann", 3)}, {On("bob", 12)}, {}, {On("ann", 13), On("bob", 21)},
            {On("gone", 4)}, {On("solo", 21), On("lead", 22)}>>
FollowUps ==
  <<{},
    {FollowUp(1, "CALL", 12, 19, Null, {"ann"})},
    {FollowUp(2, "TASK", 12, 20, Null, {"ann"}), FollowUp(3, "CALL", 12, 29, Null, {})},
    {Gone(FollowUp(4, "MEETING", 2, 30, Null, {"ann"}))},
    {FollowUp(5, "CALL", 2, 12, 13, {"ann", "bob"}), FollowUp(6, "CALL", 21, 31, Null, {"lead"})}>>
PhoneCalls ==
  <<{},
    {PhoneCall(1, 12, "ANSWERED", 2, "INBOUND", "ann")},
    {PhoneCall(2, 20, "BUSY", 0, "OUTBOUND", "ann"),
     PhoneCall(3, 20, "NO_ANSWER", 0, "INBOUND", "bob")},
    {Gone(PhoneCall(4, 21, "ANSWERED", 1, "INBOUND", "bob")),
     PhoneCall(5, 9, "ANSWERED", 3, "OUTBOUND", "bob")}>>
Complaint(details, deleted) == [details |-> details, deleted |-> deleted]

Lead(i) ==
  [id |-> i, name |-> Turn(i, <<"n1", "n2">>), primaryPhone |-> Turn(i, <<"p1", "p2", " p1", "">>),
   source |-> Turn(i \div 2, <<Null, "web", "">>),
   status |-> Turn(i, <<"New", "WON", "LOST", "HOT", "WON">>),
   category |-> Turn(i, <<Null, "dates", "">>), pipeline |-> Turn(i, <<"West", "East", "West">>),
   archived |-> i % 11 = 10, assigned |-> Turn(i, Owners),
   tags |-> Turn(i, <<{}, {"vip"}, {"vip", "cold"}>>), createdAt |-> Turn(i, <<2, 12, 19, 20>>),
   statusChangedAt |-> Turn(i, <<20, 12, 25>>), updatedAt |-> Turn(i, <<20, 12>>),
   lostReason |-> Turn(i \div 2, <<Null, "price">>),
   order |-> Turn(i, <<Null, [at |-> 12], [at |-> 22]>>),
   actualAmount |-> Turn(i \div 3, <<Null, 0, 4>>), callAttempts |-> i % 3,
   bookingDate |-> Turn(i, <<Null, 15, 25>>),
   activities |-> Turn(i \div 2, FollowUps), calls |-> Turn(i \div 3, PhoneCalls),
   notes |-> i % 2,
   complaints |-> Turn(i, <<{}, {Complaint("n1", FALSE)}, {Complaint("n2", TRUE)}>>)]

MCPool == [i \in 0 .. 29 |-> Lead(i)]

\* No lead, three that are near each other, and two larger tables.
MCTables == {{}, {1, 4, 6, 9, 14}, {1, 4, 9, 11, 16, 19}}
              \cup {{i, (i + 1) % 30, (i + d) % 30} : i \in 0 .. 29, d \in {4, 11}}

MCLike == [is |-> {<<t, t>> : t \in {"", "n1", "n2", "web", "p1"}},
           contains |-> {<<t, "">> : t \in {"", "n1", "n2", "web"}}
                          \cup {<<"n1", "n1">>, <<"web", "web">>, <<" p1", "p1">>, <<"p1", "p1">>},
           startsWith |-> {<<"n1", "n1">>}, endsWith |-> {<<"n1", "n1">>}]
MCTrim == [p \in {"p1", "p2", " p1", ""} |-> IF p = " p1" THEN "p1" ELSE p]

-----------------------------------------------------------------------------
(* What is asked. *)

Windowing(dateField) == [Query EXCEPT !.from = 10, !.to = 20, !.dateField = dateField]

\* Each is accepted by some of the classes of Queries, and every class accepts several.
MCQueries ==
  {Query, Windowing("created"), Windowing("statusChanged"), Windowing("orderCreated"),
   [Query EXCEPT !.team = {"north"}], [Query EXCEPT !.agent = {"ann"}],
   [Query EXCEPT !.contact = "untouched"], [Query EXCEPT !.search = "n1", !.status = {"HOT"}],
   [Query EXCEPT !.manager = "lead", !.from = 12],
   [Query EXCEPT !.includeLost = TRUE, !.to = 20],
   [Query EXCEPT !.from = 20, !.to = 30, !.span = 2],
   [Query EXCEPT !.span = 9, !.windows = {"overdue", "yesterday"}],
   [Query EXCEPT !.from = 12, !.to = 30, !.edges = <<12, 20, 30>>, !.prior = <<0, 12>>,
                 !.group = "agent", !.size = 1],
   [Query EXCEPT !.pipeline = "West", !.includeLost = TRUE],
   [Query EXCEPT !.pipeline = "West", !.group = "source", !.sorted = TRUE, !.up = FALSE],
   [Query EXCEPT !.sorted = TRUE, !.size = 1], [Query EXCEPT !.assigned = TRUE, !.from = 10]}

Condition(field, op, values) == [field |-> field, op |-> op, values |-> values]
Sample == [name |-> "n1", source |-> "web", status |-> "HOT", category |-> "dates",
           assignedAgent |-> "ann", team |-> "north", tags |-> "vip", complaints |-> "n1"]
Operands(op, sample) ==
  IF op \in Valueless THEN <<>> ELSE IF op \in RangeOps THEN <<2, 20>> ELSE <<sample>>

\* A field of every kind, required or not, with the operators of the kind.
MCConditions ==
  UNION {{Condition(f, op, Operands(op, 4)) :
            op \in OPERATORS_FOR[KindOf(f)] \ {"on", "lessThan", "before"}} :
         f \in {"actualAmount", "callAttempts", "bookingDate", "followUpDate"}}
  \cup UNION {{Condition(f, op, Operands(op, Sample[f])) :
                 op \in OPERATORS_FOR[KindOf(f)] \ {"startsWith"}} : f \in DOMAIN Sample}
  \cup {Condition("activity", op, <<k>>) : op \in {"is", "isnt"}, k \in ActivityKeys}

StageRow(board, name, inclusion, outcome) ==
  [board |-> board, name |-> name, inclusion |-> inclusion, closed |-> outcome # Null,
   outcome |-> outcome]
MCStages == {StageRow("West", "New", TRUE, Null), StageRow("West", "HOT", TRUE, Null),
             StageRow("West", "WON", TRUE, "WON"), StageRow("East", "New", TRUE, Null),
             StageRow("East", "LOST", FALSE, "LOST"), StageRow("West", "LOST", TRUE, "LOST")}
MCInitials == [West |-> "LP", East |-> "EP"]

MCAlphabet == <<"all", "No Source", "East", "HOT", "LOST", "New", "WON", "web", "West", Null,
                "ann", "ann, bob", "bob", "gone", "lead, solo">>
MCJoined == {} :> Null @@ {"ann"} :> "ann" @@ {"bob"} :> "bob" @@ {"ann", "bob"} :> "ann, bob"
              @@ {"gone"} :> "gone" @@ {"lead", "solo"} :> "lead, solo"

-----------------------------------------------------------------------------
(* The funnel: a board of two stages, and another board or none. *)

MCShipped == (s1 :> [pipeline |-> b1, name |-> n1, reused |-> FALSE])
               @@ (s2 :> [pipeline |-> b1, name |-> n2, reused |-> FALSE]) @@ (s3 :> Null)

-----------------------------------------------------------------------------
(* The requests: a route of each kind, and a member who may be given three of the roles. *)

MCGiven == {"SUPERADMIN", "SALES_AGENT", "QC"}

Sort(r) == <<{role \in MCGiven : Admits(r, role)}, r.roles = Public, r.verb = "GET">>
MCAsked ==
  {AppController[1], AuthController[1], RolesController[1], RolesController[2], TagsController[2],
   ActivitiesController[1], DocumentsController[1], DocumentsController[3],
   LogisticsOrdersController[7]}

ASSUME OneOfEachSort == {Sort(r) : r \in MCAsked} = {Sort(r) : r \in Routes}

-----------------------------------------------------------------------------

\* The tables of the other parts are as they are at first, whichever part is explored.
MCInit ==
  /\ ReadsInit
  /\ part # "reports" => table = {}
  /\ part # "funnel" => boards = {b1}
  /\ part # "exports" => list = <<>> /\ export.kind = "leads"
  /\ part # "access" => member.role = "QC"

Spec == MCInit /\ [][ReadsNext]_allVars

\* A funnel report whose names changed promises nothing; one stage is removed, one lead changes
\* its board or one board is renamed, and then an event less is recorded.
Exceptions == Cardinality(vacated) + Cardinality(crossed) + Cardinality(boards \ settled)
FunnelBounds ==
  /\ report # Null => ~report.late
  /\ Exceptions <= 1 /\ Len(log) + Exceptions <= 3
==============================================================================
