------------------------------- MODULE Rotation -------------------------------
(***************************************************************************)
(* Who a lead is assigned to: by a manager, by the agent who creates it,   *)
(* or by the round robin of the assignment rules                           *)
(* (src/src/assignment-rules, LeadsService.create, the reassign).          *)
(*                                                                         *)
(* The round robin stores no cursor.  It reads, statement by statement,    *)
(* the settings, the active rule and the users' latest assignments, and    *)
(* the lead is written later, in a transaction of its own.  An assignment  *)
(* is stamped when its row is inserted and seen by others from the commit. *)
(***************************************************************************)
EXTENDS Naturals, Sequences, FiniteSets, SequencesExt

CONSTANTS None,
          ByName,     \* the users in a role leads may be assigned to, in name order
          Leads, Rules, Requests

Users == {ByName[i] : i \in DOMAIN ByName}
Earlier(u, v) == \E i, j \in DOMAIN ByName : i < j /\ ByName[i] = u /\ ByName[j] = v

Sizes == /\ ByName \in Seq(Users) /\ ByName # <<>> /\ IsInjective(ByName)
         /\ IsFiniteSet(Requests) /\ Requests # {}

VARIABLES
  active, loggedIn,  \* the users who are active and not deleted; who have signed in
  config,            \* [automatic, requireLogin], two of the assignment settings
  rule,              \* [Rules -> an assignment rule or None]
  created,           \* the leads that exist
  rows,              \* lead_assignments in the order of their stamps
  request,           \* [Requests -> what each one is about to do]
  passed             \* [Users -> [Users -> leads the second got in turn since the first
                     \* last got one or was last not to get any]]

people == <<active, loggedIn>>
setup  == <<config, rule>>
leadRows == <<created, rows>>
vars == <<people, setup, leadRows, request, passed>>

\* "config", "rule", "users": what an automatic create reads next.
Steps == {"idle", "config", "rule", "users", "insert", "commit", "assign", "save", "remove"}
Idle == [step |-> "idle", lead |-> None, users |-> {}, needsLogin |-> FALSE, auto |-> FALSE,
         rule |-> None, status |-> None]

Row(l, u, auto, visible) == [lead |-> l, user |-> u, auto |-> auto, visible |-> visible]
Statuses == {"ACTIVE", "INACTIVE"}
Rule(status) == [status |-> status, removed |-> FALSE]
NoneIsNothing == None \notin Leads \cup Rules \cup [status : Statuses, removed : BOOLEAN]

TypeOK ==
  /\ active \subseteq Users /\ loggedIn \subseteq Users
  /\ config \in [automatic : BOOLEAN, requireLogin : BOOLEAN]
  /\ rule \in [Rules -> {None} \cup [status : Statuses, removed : BOOLEAN]]
  /\ created \subseteq Leads
  /\ rows \in Seq([lead : Leads, user : Users, auto : BOOLEAN, visible : BOOLEAN])
  /\ request \in [Requests -> [step : Steps, lead : Leads \cup {None}, users : SUBSET Users,
                               needsLogin : BOOLEAN, auto : BOOLEAN, rule : Rules \cup {None},
                               status : Statuses \cup {None}]]
  /\ passed \in [Users -> [Users -> Nat]]

Init ==
  /\ active = Users /\ loggedIn = {}
  /\ config \in [automatic : {TRUE}, requireLogin : {FALSE}]
  /\ rule \in [Rules -> {None, Rule("ACTIVE")}]
  /\ created = {} /\ rows = <<>>
  /\ request = [r \in Requests |-> Idle]
  /\ passed = [u \in Users |-> [v \in Users |-> 0]]

Begin(r, c) == request[r].step = "idle" /\ request' = [request EXCEPT ![r] = c]
Goto(r, step) == request' = [request EXCEPT ![r].step = step]
End(r) == request' = [request EXCEPT ![r] = Idle]

-----------------------------------------------------------------------------
(* Eligibility and turns. *)

\* ASSIGNABLE_USER_WHERE, and the sign-in the setting may ask for.
Candidates(needsLogin) == {u \in active : needsLogin => u \in loggedIn}

\* The places of the user's rows that others can see.
Places(u) == {i \in DOMAIN rows : rows[i].visible /\ rows[i].user = u}

\* u was last assigned before v was, or never and v was.
Before(u, v) == \E j \in Places(v) : \A i \in Places(u) : i < j

\* Never assigned first, then the oldest last assignment; the name breaks ties.
Goes(u, v) == Before(u, v) \/ (Places(u) = {} /\ Places(v) = {} /\ Earlier(u, v))

\* nextInRotation: nobody if there are no candidates.
NextInRotation(candidates) ==
  {u \in candidates : \A v \in candidates \ {u} : Goes(u, v)}

-----------------------------------------------------------------------------
(* Creating a lead. *)

\* Nobody was chosen: the round robin may fill the gap.
CreateUnassigned(r) ==
  Begin(r, [Idle EXCEPT !.step = "config"]) /\ UNCHANGED <<people, setup, leadRows>>

\* assertMayAssign: a manager's choice, or the agent's own lead.
CreateAssigned(r) ==
  /\ \E u \in active : Begin(r, [Idle EXCEPT !.step = "insert", !.users = {u}])
  /\ UNCHANGED <<people, setup, leadRows>>

\* pickAssignee, statement by statement; it never refuses the lead.
ReadConfig(r) ==
  /\ request[r].step = "config"
  /\ request' = [request EXCEPT ![r].step = IF config.automatic THEN "rule" ELSE "insert",
                                ![r].needsLogin = config.requireLogin]
  /\ UNCHANGED <<people, setup, leadRows>>

Applies(x) == rule[x] # None /\ rule[x].status = "ACTIVE" /\ ~rule[x].removed

\* Every rule has a group for all records and all users, so any active one applies.
ReadRule(r) ==
  /\ request[r].step = "rule"
  /\ Goto(r, IF \E x \in Rules : Applies(x) THEN "users" ELSE "insert")
  /\ UNCHANGED <<people, setup, leadRows>>

ReadUsers(r) ==
  /\ request[r].step = "users"
  /\ LET next == NextInRotation(Candidates(request[r].needsLogin))
     IN request' = [request EXCEPT ![r].step = "insert", ![r].users = next,
                                   ![r].auto = next # {}]
  /\ UNCHANGED <<people, setup, leadRows>>

Fresh == Leads \ (created \cup {request[r].lead : r \in Requests})

\* The lead and its assignment, stamped now, in a transaction that is still open.
Insert(r) ==
  LET c == request[r] IN
  /\ c.step = "insert"
  /\ \E l \in Fresh :
       /\ rows' = rows \o SetToSeq({Row(l, u, c.auto, FALSE) : u \in c.users})
       /\ request' = [request EXCEPT ![r].step = "commit", ![r].lead = l]
  /\ UNCHANGED <<people, setup, created>>

Commit(r) ==
  LET l == request[r].lead IN
  /\ request[r].step = "commit"
  /\ created' = created \cup {l}
  /\ rows' = [i \in DOMAIN rows |-> [rows[i] EXCEPT !.visible = @ \/ rows[i].lead = l]]
  /\ End(r)
  /\ UNCHANGED <<people, setup>>

\* The rows at the places P, in their order, and those of no given lead.
Nth(P, n) == CHOOSE i \in P : Cardinality({k \in P : k <= i}) = n
Kept(P) == [n \in 1..Cardinality(P) |-> rows[Nth(P, n)]]
Without(l) == Kept({i \in DOMAIN rows : rows[i].lead # l})

\* The request fails, or its process dies: an open transaction is rolled back.
Fail(r) ==
  LET c == request[r] IN
  /\ c.step # "idle"
  /\ rows' = IF c.step = "commit" THEN Without(c.lead) ELSE rows
  /\ End(r)
  /\ UNCHANGED <<people, setup, created>>

-----------------------------------------------------------------------------
(* Assigning a lead that exists. *)

Assignees(l) == {rows[i].user : i \in {j \in DOMAIN rows : rows[j].lead = l}}

\* Edit and reassign: the added assignees are checked before the lead is locked.
CheckAssign(r) ==
  /\ \E l \in created, us \in SUBSET Users :
       /\ us \ Assignees(l) \subseteq active
       /\ us # Assignees(l)
       /\ Begin(r, [Idle EXCEPT !.step = "assign", !.lead = l, !.users = us])
  /\ UNCHANGED <<people, setup, leadRows>>

\* Mutant: every row of the lead is deleted and written again.
AllAnew(l, us) == Without(l) \o SetToSeq({Row(l, u, FALSE, TRUE) : u \in us})

\* deleteMany of the others and createMany with skipDuplicates: an assignee that stays keeps
\* its row.
Assigned(l, us) ==
  Kept({i \in DOMAIN rows : rows[i].lead = l => rows[i].user \in us})
    \o SetToSeq({Row(l, u, FALSE, TRUE) : u \in us \ Assignees(l)})

Assign(r) ==
  LET c == request[r] IN
  /\ c.step = "assign"
  /\ rows' = IF c.lead \in created THEN Assigned(c.lead, c.users) ELSE rows
  /\ End(r)
  /\ UNCHANGED <<people, setup, created>>

\* The assignments of a deleted lead go with it.
DeleteLead(l) ==
  /\ l \in created
  /\ created' = created \ {l}
  /\ rows' = Without(l)
  /\ UNCHANGED <<people, setup, request>>

-----------------------------------------------------------------------------
(* What the round robin reads: accounts, settings, rules. *)

SetActive(u) ==
  /\ active' = IF u \in active THEN active \ {u} ELSE active \cup {u}
  /\ UNCHANGED <<loggedIn, setup, leadRows, request>>

Login(u) ==
  /\ u \in active
  /\ loggedIn' = loggedIn \cup {u}
  /\ UNCHANGED <<active, setup, leadRows, request>>

\* saveAssignmentGeneral
SaveConfig(c) ==
  /\ config' = c
  /\ UNCHANGED <<people, rule, leadRows, request>>

CreateRule(x, status) ==
  /\ rule[x] = None
  /\ rule' = [rule EXCEPT ![x] = Rule(status)]
  /\ UNCHANGED <<people, config, leadRows, request>>

Live(x) == rule[x] # None /\ ~rule[x].removed

\* requireLive, before the rule is locked.
CheckRule(r) ==
  /\ \E x \in {y \in Rules : Live(y)} :
       \/ \E s \in Statuses :
            Begin(r, [Idle EXCEPT !.step = "save", !.rule = x, !.status = s])
       \/ Begin(r, [Idle EXCEPT !.step = "remove", !.rule = x])
  /\ UNCHANGED <<people, setup, leadRows>>

Updated(x, status) == [rule[x] EXCEPT !.status = status]

UpdateRule(r) ==
  LET c == request[r] IN
  /\ c.step = "save"
  /\ rule' = [rule EXCEPT ![c.rule] = Updated(c.rule, c.status)]
  /\ End(r)
  /\ UNCHANGED <<people, config, leadRows>>

RemoveRule(r) ==
  LET c == request[r] IN
  /\ c.step = "remove"
  /\ rule' = [rule EXCEPT ![c.rule].removed = TRUE]
  /\ End(r)
  /\ UNCHANGED <<people, config, leadRows>>

-----------------------------------------------------------------------------
(* Who is passed over. *)

Seen(table) == {table[i] : i \in {j \in DOMAIN table : table[j].visible}}

\* A user who gets a lead, or may not get one, starts waiting anew; so does everybody when an
\* assignment is taken back, which moves its user forward.
CountTurns ==
  LET got == Seen(rows)' \ Seen(rows)
  IN passed' = [u \in Users |-> [v \in Users |->
       IF \/ Seen(rows) \ Seen(rows)' # {}
          \/ u \notin Candidates(config.requireLogin)'
          \/ \E x \in got : x.user = u
       THEN 0
       ELSE passed[u][v] + Cardinality({x \in got : x.user = v /\ x.auto})]]

Step ==
  \/ \E r \in Requests :
       \/ CreateUnassigned(r) \/ CreateAssigned(r)
       \/ ReadConfig(r) \/ ReadRule(r) \/ ReadUsers(r) \/ Insert(r) \/ Commit(r) \/ Fail(r)
       \/ CheckAssign(r) \/ Assign(r) \/ CheckRule(r) \/ UpdateRule(r) \/ RemoveRule(r)
  \/ \E l \in Leads : DeleteLead(l)
  \/ \E u \in Users : SetActive(u) \/ Login(u)
  \/ \E c \in [automatic : BOOLEAN, requireLogin : BOOLEAN] : SaveConfig(c)
  \/ \E x \in Rules, s \in Statuses : CreateRule(x, s)

Next == Step /\ CountTurns

Spec == Init /\ [][Next]_vars

-----------------------------------------------------------------------------
(* What the assignment keeps. *)

\* The round robin is fair up to the race: while assignments stand, a user who may be given
\* leads is passed over for another less than twice per request that can be under way, once by
\* a row stamped before his latest and committed after it, and once by a pick made meanwhile.
InTurn == \A u, v \in Users : passed[u][v] < 2 * Cardinality(Requests)

\* An assignee who stays on a lead keeps the row, and with it the Assigned Date that the
\* reports and the round robin read, whatever requests cross.
DateKept ==
  [][\A x \in Seen(rows) :
      x.lead \in created' /\ (\E y \in Seen(rows)' : y.lead = x.lead /\ y.user = x.user)
        => x \in Seen(rows)']_vars

\* A removed rule stays removed: an edit that was checked before never brings it back.
RemovedStays == [][\A x \in Rules : rule[x] # None /\ rule[x].removed => rule'[x].removed]_vars
=============================================================================
