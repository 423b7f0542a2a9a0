------------------------------ MODULE FollowUps -------------------------------
(***************************************************************************)
(* The follow-ups on the leads.  A follow-up is seen by the people it is   *)
(* assigned to, and only through a lead they can open; handing a lead to   *)
(* another agent takes its open follow-ups along.  Every write checks the  *)
(* rows it read before its transaction, so it is two steps here, and the   *)
(* hand-over, which reads the follow-ups before it moves them, is three.   *)
(***************************************************************************)
EXTENDS FiniteSets

CONSTANTS Users,
          Agents,      \* the sales agents: they open the leads assigned to them
          OrgWide,     \* the roles that open every lead
          Sees,        \* whose leads a user opens: an agent's own, a manager's team's
          Leads,
          Activities,  \* the rows activities may come to hold
          Requests,    \* the writes in flight at one time
          None

Roles ==
  /\ Agents \subseteq Users \ OrgWide
  /\ OrgWide \subseteq Users
  /\ Sees \in [Users -> SUBSET Users]
  /\ \A u \in Agents : Sees[u] = {u}

VARIABLES owners,    \* the lead_assignments rows: the users each lead is assigned to
          followUp,  \* the activities rows with their assignees, None: no row yet
          write      \* the writes past their checks, None: not started

vars == <<owners, followUp, write>>

\* completedBy and late are history: the write that completed the row, and whether the
\* lead was handed over after the check of the write that last assigned it.
FollowUp == [lead: Leads, assignees: SUBSET Users, completedBy: Requests \cup {None},
             deleted: BOOLEAN, late: BOOLEAN]

Write == [step: {"create", "update", "complete", "delete", "reassign", "handOver"},
          lead: Leads, activity: Activities \cup {None}, users: SUBSET Users,
          rows: SUBSET Activities, moving: SUBSET Activities, late: BOOLEAN]

NoneIsNoRow == None \notin Requests \cup Activities \cup FollowUp \cup Write

\* The rows hold what their columns can hold; a write that passed its checks names somebody.
TypeOK ==
  /\ owners \in [Leads -> SUBSET Users]
  /\ followUp \in [Activities -> FollowUp \cup {None}]
  /\ write \in [Requests -> Write \cup {None}]
  /\ \A r \in Requests :
       write[r] # None /\ write[r].step \in {"create", "update"} => write[r].users # {}

Init ==
  /\ owners \in [Leads -> SUBSET Agents]
  /\ followUp = [f \in Activities |-> None]
  /\ write = [r \in Requests |-> None]

-----------------------------------------------------------------------------
CanOpen(u, l) == u \in OrgWide \/ Sees[u] \cap owners[l] # {}

CanSee(u, f) ==
  /\ CanOpen(u, followUp[f].lead)
  /\ u \in OrgWide \/ Sees[u] \cap followUp[f].assignees # {}

Rows == {f \in Activities : followUp[f] # None}
Open(f) == f \in Rows /\ followUp[f].completedBy = None /\ ~followUp[f].deleted
At(r, step) == write[r] # None /\ write[r].step = step
Done(r) == write' = [write EXCEPT ![r] = None]

Started(step, l) ==
  [step |-> step, lead |-> l, activity |-> None, users |-> {}, rows |-> {},
   moving |-> {}, late |-> FALSE]

\* A hand-over in its transaction holds its lead: nothing that refers to the lead can be
\* inserted, and no other change of the lead begins.
Held(l) == \E r \in Requests : At(r, "handOver") /\ write[r].lead = l

\* Mutant: a list of nobody is accepted.
MayBeEmpty(A) == A \subseteq Users

\* ArrayNotEmpty: somebody is asked to do it.
SomebodyNamed(A) == A # {}

\* Mutant: an assignee has only to exist.
AnyoneAssigned(A, l) == A \subseteq Users

Assignable(A, l) == \A a \in A : CanOpen(a, l)

\* A sales agent who writes a follow-up is on it.
WithSelf(A, u) == IF u \in Agents THEN A \cup {u} ELSE A

-----------------------------------------------------------------------------
CheckCreate(r, u, l, A) ==
  /\ write[r] = None
  /\ CanOpen(u, l)
  /\ SomebodyNamed(A) /\ Assignable(WithSelf(A, u), l)
  /\ write' = [write EXCEPT ![r] = [Started("create", l) EXCEPT !.users = WithSelf(A, u)]]
  /\ UNCHANGED <<owners, followUp>>

\* A copy of a follow-up, open again whatever the source is, for the source's assignees.
CheckDuplicate(r, u, f) ==
  LET l == followUp[f].lead
  IN /\ write[r] = None
     /\ f \in Rows /\ ~followUp[f].deleted
     /\ CanSee(u, f)
     /\ Assignable(followUp[f].assignees, l)
     /\ write' = [write EXCEPT ![r] =
                    [Started("create", l) EXCEPT !.users = followUp[f].assignees]]
     /\ UNCHANGED <<owners, followUp>>

Create(r, f) ==
  /\ At(r, "create")
  /\ followUp[f] = None
  /\ ~Held(write[r].lead)
  /\ followUp' = [followUp EXCEPT ![f] =
                    [lead |-> write[r].lead, assignees |-> write[r].users,
                     completedBy |-> None, deleted |-> FALSE, late |-> write[r].late]]
  /\ Done(r)
  /\ UNCHANGED owners

CheckUpdate(r, u, f, A) ==
  LET l == followUp[f].lead
  IN /\ write[r] = None
     /\ f \in Rows /\ ~followUp[f].deleted
     /\ CanSee(u, f)
     /\ SomebodyNamed(A) /\ Assignable(WithSelf(A, u), l)
     /\ write' = [write EXCEPT ![r] = [Started("update", l) EXCEPT
                                         !.activity = f, !.users = WithSelf(A, u)]]
     /\ UNCHANGED <<owners, followUp>>

\* The assignee rows of f are deleted and written anew: a hand-over that has read the old
\* ones finds nothing of them to delete.
Forgotten(r, f) ==
  [q \in Requests |-> IF q = r THEN None
                      ELSE IF At(q, "handOver") THEN [write[q] EXCEPT !.rows = @ \ {f}]
                      ELSE write[q]]

Update(r) ==
  LET f == write[r].activity
  IN /\ At(r, "update")
     /\ followUp' = [followUp EXCEPT
                       ![f].assignees = write[r].users,
                       ![f].late = write[r].late \/ Held(followUp[f].lead)]
     /\ write' = Forgotten(r, f)
     /\ UNCHANGED owners

CheckComplete(r, u, f) ==
  /\ write[r] = None
  /\ f \in Rows /\ ~followUp[f].deleted
  /\ CanSee(u, f)
  /\ write' = [write EXCEPT ![r] = [Started("complete", followUp[f].lead) EXCEPT
                                      !.activity = f]]
  /\ UNCHANGED <<owners, followUp>>

\* Mutant: the completion is written whether or not there is one already.
Overwrites(f, r) == r

CompletedBy(f, r) ==
  IF followUp[f].completedBy = None THEN r ELSE followUp[f].completedBy

\* Conditional on completedAt being null, and on nothing else.
Complete(r) ==
  LET f == write[r].activity
  IN /\ At(r, "complete")
     /\ followUp' = [followUp EXCEPT ![f].completedBy = CompletedBy(f, r)]
     /\ Done(r)
     /\ UNCHANGED owners

\* A follow-up deleted already is answered without a transaction.
CheckDelete(r, u, f) ==
  /\ write[r] = None
  /\ f \in Rows /\ ~followUp[f].deleted
  /\ CanSee(u, f)
  /\ write' = [write EXCEPT ![r] = [Started("delete", followUp[f].lead) EXCEPT
                                      !.activity = f]]
  /\ UNCHANGED <<owners, followUp>>

Delete(r) ==
  /\ At(r, "delete")
  /\ followUp' = [followUp EXCEPT ![write[r].activity].deleted = TRUE]
  /\ Done(r)
  /\ UNCHANGED owners

-----------------------------------------------------------------------------
(* A lead is handed to another user, with its open follow-ups. *)

CheckReassign(r, u, l, to) ==
  /\ write[r] = None
  /\ CanOpen(u, l)
  /\ write' = [write EXCEPT ![r] = [Started("reassign", l) EXCEPT !.users = {to}]]
  /\ UNCHANGED <<owners, followUp>>

Departing(r) == owners[write[r].lead] \ write[r].users

\* Mutant: a follow-up with somebody left on it stays as it is.
MovesAlone(r) ==
  {f \in Rows : Open(f) /\ followUp[f].lead = write[r].lead
                /\ followUp[f].assignees # {}
                /\ followUp[f].assignees \subseteq Departing(r)}

Moving(r) ==
  {f \in Rows : Open(f) /\ followUp[f].lead = write[r].lead
                /\ followUp[f].assignees \cap Departing(r) # {}}

\* The lead is locked, and its assignments and the rows to move are read.
TakeLead(r) ==
  /\ At(r, "reassign")
  /\ ~Held(write[r].lead)
  /\ write' = [write EXCEPT ![r] = [@ EXCEPT !.step = "handOver", !.rows = Moving(r),
                                             !.moving = Moving(r)]]
  /\ UNCHANGED <<owners, followUp>>

\* Mutant: the departing owners are taken off and the new one is not put on.
OnlyTakesOff(r, f) ==
  IF f \in write[r].rows THEN followUp[f].assignees \ Departing(r) ELSE followUp[f].assignees

\* The rows read are deleted, those an edit has replaced meanwhile excepted, and the new
\* owner is put on every follow-up that had one.
HandedOver(r, f) ==
  (IF f \in write[r].rows THEN followUp[f].assignees \ Departing(r)
                          ELSE followUp[f].assignees)
  \cup (IF f \in write[r].moving THEN write[r].users ELSE {})

HandOver(r) ==
  LET l == write[r].lead
  IN /\ At(r, "handOver")
     /\ followUp' = [f \in Activities |->
                       IF f \in write[r].moving
                       THEN [followUp[f] EXCEPT !.assignees = HandedOver(r, f)]
                       ELSE followUp[f]]
     /\ owners' = [owners EXCEPT ![l] = write[r].users]
     /\ write' = [q \in Requests |->
                    IF q = r THEN None
                    ELSE IF write[q] # None /\ write[q].lead = l
                    THEN [write[q] EXCEPT !.late = TRUE]
                    ELSE write[q]]

\* The request fails or its process is lost: its transaction rolls back.
Fail(r) == write[r] # None /\ Done(r) /\ UNCHANGED <<owners, followUp>>

Next ==
  \E r \in Requests :
    \/ \E u \in Users, l \in Leads, A \in SUBSET Users : CheckCreate(r, u, l, A)
    \/ \E u \in Users, f \in Activities :
         \/ CheckDuplicate(r, u, f) \/ CheckComplete(r, u, f) \/ CheckDelete(r, u, f)
         \/ \E A \in SUBSET Users : CheckUpdate(r, u, f, A)
    \/ \E u, to \in Users, l \in Leads : CheckReassign(r, u, l, to)
    \/ \E f \in Activities : Create(r, f)
    \/ Update(r) \/ Complete(r) \/ Delete(r) \/ TakeLead(r) \/ HandOver(r) \/ Fail(r)

Spec == Init /\ [][Next]_vars

-----------------------------------------------------------------------------
(* What the follow-ups must keep. *)

\* An open follow-up's agents can see it: each one has the lead, unless the lead was
\* handed over between the check and the commit of the write that put them on it.
OnOwnLeads ==
  \A f \in Rows :
    Open(f) /\ ~followUp[f].late =>
      followUp[f].assignees \cap Agents \subseteq owners[followUp[f].lead]

\* Nobody's work is dropped: a follow-up is never left without an assignee, whatever
\* edits and hand-overs of its lead it meets.
SomebodyOnIt == \A f \in Rows : followUp[f].assignees # {}

\* Follow-ups are well-formed, an open one's agents have its lead, and none is left
\* without an assignee.
FollowUpsSound == TypeOK /\ OnOwnLeads /\ SomebodyOnIt

\* The first completion stands: neither a second one nor an edit or hand-over undoes it.
FirstCompletionStands ==
  [][\A f \in Rows : followUp[f].completedBy # None =>
       followUp'[f].completedBy = followUp[f].completedBy]_vars

\* The new owner takes the departing owner's work over: every open follow-up of the lead
\* that one was on has the new owner on it, and whoever else was on it stays.  An edit
\* that met the hand-over is excepted.
NewOwnerTakesOver ==
  [][\A r \in Requests, f \in Rows :
       LET l == followUp[f].lead
       IN /\ At(r, "handOver") /\ write[r].lead = l /\ owners'[l] # owners[l]
          /\ Open(f) /\ ~followUp[f].late
          /\ followUp[f].assignees \cap Departing(r) # {}
          => followUp'[f].assignees =
               (followUp[f].assignees \ Departing(r)) \cup write[r].users]_vars

\* A worklist never holds a follow-up whose lead its owner cannot open.
NoneOutOfSight ==
  \A f \in Rows :
    Open(f) /\ ~followUp[f].late =>
      \A u \in followUp[f].assignees : CanOpen(u, followUp[f].lead)
==============================================================================
