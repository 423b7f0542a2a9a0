------------------------------ MODULE Logistics ------------------------------
(***************************************************************************)
(* A won lead and its Logistics order, changed by concurrent HTTP requests *)
(* that each run one PostgreSQL transaction at READ COMMITTED.             *)
(*                                                                         *)
(* A request is a process.  Its steps are the statements between which     *)
(* another transaction can commit: the reads it decides on, the SELECT ... *)
(* FOR UPDATE it waits on, and its last write.  Whatever follows the last  *)
(* wait reads only rows the request holds, so it is one step with COMMIT.  *)
(* A refused request (a 400, 404, 409) rolls back: it only goes away.      *)
(***************************************************************************)
EXTENDS FiniteSets

CONSTANTS Leads,       \* lead ids; an order is named by its lead (lead_id UNIQUE)
          Requests,    \* the requests in flight at one time
          Pipelines,
          Stages,      \* [Pipelines -> the lead statuses its board has]
          FirstStage,  \* [Pipelines -> the stage a moved lead lands on]
          Days,        \* delivery days a request may name
          Awbs,        \* tracking numbers
          Operations,  \* the operations requests may be for
          None         \* SQL NULL, and no holder of a lock

WON == "WON"
QCNotApproved == "QC NOT APPROVED"
LeadStatus == {"New", WON, QCNotApproved, "LOST"}
LogisticsStatus == {"INITIAL", "QC_VERIFIED", "QC_REJECTED", "DISPATCHED",
                    "DELIVERED", "CANCELLED", "RTO"}

Moves ==
  [QC_VERIFY |-> [from |-> {"INITIAL"}, to |-> "QC_VERIFIED"],
   QC_REJECT |-> [from |-> {"INITIAL"}, to |-> "QC_REJECTED"],
   RESUBMIT  |-> [from |-> {"QC_REJECTED"}, to |-> "INITIAL"],
   DISPATCH  |-> [from |-> {"QC_VERIFIED"}, to |-> "DISPATCHED"],
   DELIVER   |-> [from |-> {"DISPATCHED"}, to |-> "DELIVERED"],
   CANCEL    |-> [from |-> {"DISPATCHED", "RTO"}, to |-> "CANCELLED"],
   RTO       |-> [from |-> {"DISPATCHED"}, to |-> "RTO"]]

EditStatuses ==
  [EDIT                  |-> {"QC_VERIFIED"},
   CORRECT_AWB           |-> {"DISPATCHED", "DELIVERED", "RTO", "CANCELLED"},
   SET_DELIVERY_DATE     |-> {"INITIAL", "QC_REJECTED"},
   CORRECT_DELIVERY_DATE |-> {"QC_VERIFIED", "DISPATCHED"}]

MoveOps == DOMAIN Moves
EditOps == DOMAIN EditStatuses
LeadOps == {"SET_STATUS", "EDIT_LEAD", "CHANGE_PIPELINE", "ARCHIVE",
            "UNARCHIVE", "DELETE"}
DateRequired == {"QC_VERIFY", "DISPATCH"}

\* The lead status a move writes back (runWithLead); the other moves write none.
WriteBack == [QC_REJECT |-> QCNotApproved, RESUBMIT |-> WON]
WriteBackOps == DOMAIN WriteBack

OrderRow == [status: LogisticsStatus \cup {"NONE"},
             day: Days \cup {None}, awb: Awbs \cup {None}]
LeadRow == [status: LeadStatus \cup {"ABSENT", "DELETED"},
            pipeline: Pipelines \cup {None}, archived: BOOLEAN]
Call == [op: MoveOps \cup EditOps \cup LeadOps \cup {"NONE"},
         lead: Leads \cup {None}, status: LeadStatus \cup {None},
         pipeline: Pipelines \cup {None}, day: Days \cup {None},
         awb: Awbs \cup {None}]

NoOrder == [status |-> "NONE", day |-> None, awb |-> None]
NoLead  == [status |-> "ABSENT", pipeline |-> None, archived |-> FALSE]
NoCall  == [op |-> "NONE", lead |-> None, status |-> None,
            pipeline |-> None, day |-> None, awb |-> None]

ASSUME Constants ==
  /\ Operations \subseteq MoveOps \cup EditOps \cup LeadOps \cup {"CREATE"}
  /\ Stages \in [Pipelines -> SUBSET LeadStatus]
  /\ FirstStage \in [Pipelines -> LeadStatus]
  /\ \A p \in Pipelines : FirstStage[p] \in Stages[p]
  /\ None \notin Leads \cup Requests \cup Pipelines \cup Days \cup Awbs
                 \cup LeadStatus

VARIABLES lead,       \* [Leads -> LeadRow]     committed rows of leads
          order,      \* [Leads -> OrderRow]    committed rows of logistics_orders
          accounts,   \* the leads whose order has an accounts_records row
          leadLock,   \* [Leads -> the request holding the lead row]
          orderLock,  \* [Leads -> the request holding the order row]
          pc,         \* [Requests -> where the request is]
          call,       \* [Requests -> its operation and inputs]
          sawOrder,   \* [Requests -> what it read of the order]
          sawLead,    \* [Requests -> the lead's before-state, read under its lock]
          logged      \* the audit events the last committed transaction wrote

vars == <<lead, order, accounts, leadLock, orderLock, pc, call, sawOrder,
          sawLead, logged>>

tables == <<lead, order, accounts>>

Exists(l)  == lead[l].status \in LeadStatus
Ordered(l) == order[l].status # "NONE"

\* Every column of a row, and every input of a request, holds a value of its type.
TypeOK ==
  /\ lead \in [Leads -> LeadRow]
  /\ \A l \in Leads : Exists(l) => lead[l].pipeline \in Pipelines
  /\ order \in [Leads -> OrderRow]
  /\ accounts \subseteq Leads
  /\ leadLock \in [Leads -> Requests \cup {None}]
  /\ orderLock \in [Leads -> Requests \cup {None}]
  /\ pc \in [Requests -> {"idle", "awb", "lock", "move", "edit", "apply"}]
  /\ call \in [Requests -> Call]
  /\ sawOrder \in [Requests -> OrderRow]
  /\ sawLead \in [Requests -> LeadRow]
  /\ \A e \in logged : e.lead \in Leads

Shipped == {"DISPATCHED", "DELIVERED", "CANCELLED", "RTO"}
Standing(s) == IF s = "QC_REJECTED" THEN QCNotApproved ELSE WON

\* Leads and orders the deployment starts from: also leads won before orders
\* existed (WON, no order) and orders made before delivery dates did (day None).
StartingPair(ld, o) ==
  \/ ld = NoLead /\ o = NoOrder
  \/ /\ ld.status \in LeadStatus /\ ld.pipeline \in Pipelines
     /\ ld.status \in Stages[ld.pipeline]
     /\ \/ o = NoOrder
        \/ /\ o.status # "NONE"
           /\ ld.status = Standing(o.status)
           /\ o.awb # None <=> o.status \in Shipped

Init ==
  /\ lead \in [Leads -> LeadRow]
  /\ order \in [Leads -> OrderRow]
  /\ \A l \in Leads : StartingPair(lead[l], order[l])
  /\ \A l, m \in Leads : l # m /\ order[l].awb # None => order[l].awb # order[m].awb
  /\ accounts = {l \in Leads : order[l].status = "DELIVERED"}
  /\ leadLock = [l \in Leads |-> None]
  /\ orderLock = [l \in Leads |-> None]
  /\ pc = [r \in Requests |-> "idle"]
  /\ call = [r \in Requests |-> NoCall]
  /\ sawOrder = [r \in Requests |-> NoOrder]
  /\ sawLead = [r \in Requests |-> NoLead]
  /\ logged = {}

-----------------------------------------------------------------------------
(* Transactions: how a request starts, waits and ends. *)

Goto(r, where) == pc' = [pc EXCEPT ![r] = where]

Event(kind, l, b, a) == [of |-> kind, lead |-> l, before |-> b, after |-> a]

\* The event of a change, none when nothing changed.
Change(kind, l, b, a) == IF b = a THEN {} ELSE {Event(kind, l, b, a)}

FreeFor(lock, r) == lock \in {None, r}

\* Mutants: the row is read without FOR UPDATE.
ReadLeadOnly(r, l)  == UNCHANGED leadLock
ReadOrderOnly(r, l) == UNCHANGED orderLock

\* SELECT ... FOR UPDATE of one row: waits for its holder, then holds it.
HoldLead(r, l)  == leadLock[l] = None /\ leadLock' = [leadLock EXCEPT ![l] = r]
HoldOrder(r, l) == orderLock[l] = None /\ orderLock' = [orderLock EXCEPT ![l] = r]

\* Mutant: audit_events.lead_id has a foreign key, whose check locks the lead's row.
WaitsForLeadToo(r) ==
  FreeFor(orderLock[call[r].lead], r) /\ FreeFor(leadLock[call[r].lead], r)

\* The row locks the write of an order and its audit events wait for: audit_events
\* has no foreign key to leads, so the lead's row is not among them.
MayWriteOrder(r) == FreeFor(orderLock[call[r].lead], r)

\* COMMIT or ROLLBACK: the locks go, and the request with them.
Release(r) ==
  /\ leadLock' = [l \in Leads |-> IF leadLock[l] = r THEN None ELSE leadLock[l]]
  /\ orderLock' = [l \in Leads |-> IF orderLock[l] = r THEN None ELSE orderLock[l]]
  /\ Goto(r, "idle")
  /\ call' = [call EXCEPT ![r] = NoCall]
  /\ sawOrder' = [sawOrder EXCEPT ![r] = NoOrder]
  /\ sawLead' = [sawLead EXCEPT ![r] = NoLead]

Refuse(r) ==
  /\ Release(r)
  /\ logged' = {}
  /\ UNCHANGED tables

\* The process dies, the client goes away, or Prisma's transaction times out.
Crash(r) ==
  /\ pc[r] # "idle"
  /\ Refuse(r)

-----------------------------------------------------------------------------
(* Order moves: run and runWithLead. *)

AwbFree(l, a) == \A m \in Leads : m # l => order[m].awb # a

\* Undated: assertDatedFor refuses a move the order's status allows.
Undated(op, o) == op \in DateRequired /\ o.status \in Moves[op].from /\ o.day = None

\* loadState and assertDatedFor: what the move will be decided on, not locked.
LoadState(r) ==
  /\ pc[r] = "idle"
  /\ \E op \in MoveOps \cap Operations, l \in Leads, a \in Awbs :
       /\ Ordered(l)
       /\ ~Undated(op, order[l])
       /\ call' = [call EXCEPT ![r] =
                     [NoCall EXCEPT !.op = op, !.lead = l,
                                    !.awb = IF op = "DISPATCH" THEN a ELSE None]]
       /\ sawOrder' = [sawOrder EXCEPT ![r] =
                         [NoOrder EXCEPT !.status = order[l].status]]
       /\ Goto(r, IF op = "DISPATCH" THEN "awb"
                  ELSE IF op \in WriteBackOps THEN "lock" ELSE "move")
  /\ logged' = {}
  /\ UNCHANGED <<tables, leadLock, orderLock, sawLead>>

\* assertAwbFree: refuses a number another order holds when it looks.
CheckAwb(r) ==
  /\ pc[r] = "awb"
  /\ IF AwbFree(call[r].lead, call[r].awb)
     THEN /\ Goto(r, IF call[r].op = "DISPATCH" THEN "move" ELSE "edit")
          /\ logged' = {}
          /\ UNCHANGED <<tables, leadLock, orderLock, call, sawOrder, sawLead>>
     ELSE Refuse(r)

\* lockLeads and the before-state: waits for whoever holds the lead's row.
LockLead(r) ==
  /\ pc[r] = "lock"
  /\ HoldLead(r, call[r].lead)
  /\ sawLead' = [sawLead EXCEPT ![r] = lead[call[r].lead]]
  /\ Goto(r, IF call[r].op \in WriteBackOps THEN "move" ELSE "apply")
  /\ logged' = {}
  /\ UNCHANGED <<tables, orderLock, call, sawOrder>>

\* Mutant: updateMany matches the id alone.
AnyStatus(r) == TRUE

\* The conditional update's WHERE: still the status that was read.
StillAsRead(r) == order[call[r].lead].status = sawOrder[r].status

\* Mutant: assertAwbFree is the only check.
NoAwbIndex(l, a) == TRUE

\* The unique index on awb_number, which decides whatever assertAwbFree saw.
AwbIndex(l, a) == a = None \/ AwbFree(l, a)

\* Mutant: the write-back does not look at the lead's board.
AnyBoard(op, l) == lead[l].status \in LeadStatus

\* assertLeadStage: the write-back's status is on the board of the lead's pipeline.
StageOnBoard(op, l) == lead[l].status \in LeadStatus /\ WriteBack[op] \in Stages[lead[l].pipeline]

MoveAccepted(r) ==
  LET c == call[r]
  IN /\ sawOrder[r].status \in Moves[c.op].from
     /\ StillAsRead(r)
     /\ AwbIndex(c.lead, c.awb)
     /\ c.op \in WriteBackOps => StageOnBoard(c.op, c.lead)
     /\ c.op = "DELIVER" => c.lead \notin accounts

MovedOrder(c) ==
  [order[c.lead] EXCEPT !.status = Moves[c.op].to,
                        !.awb = IF c.op = "DISPATCH" THEN c.awb ELSE @]

\* openAccountsRecord: the payment record a delivery opens with it.
Billed(c) == IF c.op = "DELIVER" THEN accounts \cup {c.lead} ELSE accounts

\* move, and in its transaction the lead's write-back or the Accounts record.
CommitMove(r) ==
  LET c == call[r]
      l == c.lead
      now == IF c.op \in WriteBackOps
             THEN [lead[l] EXCEPT !.status = WriteBack[c.op]] ELSE lead[l]
  IN /\ order' = [order EXCEPT ![l] = MovedOrder(c)]
     /\ lead' = [lead EXCEPT ![l] = now]
     /\ accounts' = Billed(c)
     /\ logged' = {Event("order", l, sawOrder[r].status, Moves[c.op].to)}
                   \cup (IF c.op \in WriteBackOps
                         THEN Change("lead", l, sawLead[r].status, now.status) ELSE {})
                   \cup (IF c.op = "DELIVER"
                         THEN {Event("accounts", l, None, "INITIAL")} ELSE {})
     /\ Release(r)

\* The update waits for whoever holds the order's row, then decides.
Move(r) ==
  /\ pc[r] = "move"
  /\ MayWriteOrder(r)
  /\ IF MoveAccepted(r) THEN CommitMove(r) ELSE Refuse(r)

-----------------------------------------------------------------------------
(* Order edits: lockForEdit, then the write. *)

EditCall(op, l, d, a) == [NoCall EXCEPT !.op = op, !.lead = l, !.day = d, !.awb = a]

\* Mutant: the edits accept an empty day, which clears it.
ClearableCalls(op, l) ==
  {c \in {EditCall(op, l, d, a) : d \in Days \cup {None}, a \in Awbs \cup {None}} :
     IF op = "CORRECT_AWB" THEN c.awb # None /\ c.day = None ELSE c.awb = None}

EditCalls(op, l) ==
  {c \in {EditCall(op, l, d, a) : d \in Days \cup {None}, a \in Awbs \cup {None}} :
     IF op = "CORRECT_AWB" THEN c.awb # None /\ c.day = None
     ELSE c.awb = None /\ c.day # None}

\* Takes the order's row lock and reads it; a status outside the edit's is a 409.
LockForEdit(r) ==
  /\ pc[r] = "idle"
  /\ \E op \in EditOps \cap Operations, l \in Leads :
       /\ order[l].status \in EditStatuses[op]
       /\ \E c \in EditCalls(op, l) :
            /\ call' = [call EXCEPT ![r] = c]
            /\ Goto(r, IF op = "CORRECT_AWB" /\ c.awb # order[l].awb
                       THEN "awb" ELSE "edit")
       /\ HoldOrder(r, l)
       /\ sawOrder' = [sawOrder EXCEPT ![r] = order[l]]
  /\ logged' = {}
  /\ UNCHANGED <<tables, leadLock, sawLead>>

Edit(r) ==
  LET c == call[r]
      l == c.lead
  IN /\ pc[r] = "edit"
     /\ MayWriteOrder(r)
     /\ IF ~AwbIndex(l, c.awb) THEN Refuse(r)
        ELSE /\ order' = IF c.op = "CORRECT_AWB"
                         THEN [order EXCEPT ![l].awb = c.awb]
                         ELSE [order EXCEPT ![l].day = c.day]
             /\ logged' = IF c.op = "CORRECT_AWB"
                          THEN Change("awb", l, sawOrder[r].awb, c.awb)
                          ELSE Change("date", l, sawOrder[r].day, c.day)
             /\ Release(r)
             /\ UNCHANGED <<lead, accounts>>

-----------------------------------------------------------------------------
(* Lead writes: checks on an unlocked read, then applyLeadChanges under the lock. *)

LeadCall(op, l, p, s, d) ==
  [NoCall EXCEPT !.op = op, !.lead = l, !.pipeline = p, !.status = s, !.day = d]

\* The writes the services let through for the row they read before the lock.
LeadCalls(l) ==
  LET e == lead[l]
      boards == {ps \in Pipelines \X LeadStatus :
                   ps = <<e.pipeline, e.status>> \/ ps[2] \in Stages[ps[1]]}
      onto == {p \in Pipelines : FirstStage[p] = WON => e.status = WON}
  IN IF e.archived THEN {LeadCall("UNARCHIVE", l, None, None, None)}
     ELSE {LeadCall("SET_STATUS", l, None, s, d) :
             s \in Stages[e.pipeline] \cup {e.status}, d \in Days \cup {None}}
          \cup {LeadCall("EDIT_LEAD", l, ps[1], ps[2], d) :
                  ps \in boards, d \in Days \cup {None}}
          \cup {LeadCall("CHANGE_PIPELINE", l, p, FirstStage[p], None) : p \in onto}
          \cup {LeadCall(op, l, None, None, None) : op \in {"ARCHIVE", "DELETE"}}

CheckLead(r) ==
  /\ pc[r] = "idle"
  /\ \E l \in {m \in Leads : Exists(m)} :
       \E c \in {d \in LeadCalls(l) : d.op \in Operations} :
         call' = [call EXCEPT ![r] = c]
  /\ Goto(r, "lock")
  /\ logged' = {}
  /\ UNCHANGED <<tables, leadLock, orderLock, sawOrder, sawLead>>

\* Mutant: a column the request leaves out is written as null.
WrittenOrNull(c, row) ==
  [status |-> c.status, pipeline |-> c.pipeline, archived |-> c.op = "ARCHIVE"]

\* What the request writes on the lead: every column its update names.
Written(c, row) ==
  [status   |-> IF c.status = None THEN row.status ELSE c.status,
   pipeline |-> IF c.pipeline = None THEN row.pipeline ELSE c.pipeline,
   archived |-> IF c.op = "ARCHIVE" THEN TRUE
                ELSE IF c.op = "UNARCHIVE" THEN FALSE ELSE row.archived]

BecameConverted(before, after) == after.status = WON /\ before.status # WON

\* Mutant: only the scope check before the lock keeps archived leads out.
GuardedWhenOrdered(l, was, now) ==
  Ordered(l) /\ (was.pipeline # now.pipeline \/ was.status # now.status)

\* guardConvertedLeads
Guarded(l, was, now) ==
  IF Ordered(l) THEN was.pipeline # now.pipeline \/ was.status # now.status
  ELSE BecameConverted(was, now) /\ now.archived

\* convertLeadsToOrders: a day exactly when the request makes a new order.
DayFits(was, now, day) == BecameConverted(was, now) <=> day # None

CommitLead(r) ==
  LET c == call[r]
      l == c.lead
      was == sawLead[r]
      now == Written(c, lead[l])
  IN /\ lead' = [lead EXCEPT ![l] = now]
     /\ order' = IF BecameConverted(was, now) /\ ~Ordered(l)
                 THEN [order EXCEPT ![l] = [status |-> "INITIAL", day |-> c.day,
                                            awb |-> None]]
                 ELSE order
     /\ logged' = Change("lead", l, was.status, now.status)
                   \cup IF BecameConverted(was, now) /\ ~Ordered(l)
                        THEN {Event("order", l, "NONE", "INITIAL"),
                              Event("date", l, None, c.day)} ELSE {}
     /\ Release(r)
     /\ UNCHANGED accounts

ApplyLead(r) ==
  LET c == call[r]
      l == c.lead
      now == Written(c, lead[l])
  IN /\ pc[r] = "apply"
     /\ c.op # "DELETE"
     /\ IF Exists(l) /\ ~Guarded(l, sawLead[r], now) /\ DayFits(sawLead[r], now, c.day)
        THEN CommitLead(r) ELSE Refuse(r)

\* Mutant: the delete asks no dependent table.
RetainsNothing(l) == FALSE

\* retainedLeads: a lead with an order is never deleted.
Retained(l) == Ordered(l)

\* deleteUnlessRetained: deletes the lead, or records that it could not.
DeleteLead(r) ==
  LET l == call[r].lead
  IN /\ pc[r] = "apply"
     /\ call[r].op = "DELETE"
     /\ IF ~Exists(l) THEN Refuse(r)
        ELSE IF Retained(l)
        THEN /\ logged' = {Event("delete", l, "blocked", "blocked")}
             /\ Release(r)
             /\ UNCHANGED tables
        ELSE /\ lead' = [lead EXCEPT ![l].status = "DELETED"]
             /\ logged' = {Event("lead", l, lead[l].status, "DELETED")}
             /\ Release(r)
             /\ UNCHANGED <<order, accounts>>

\* recordLeadsCreated: a lead created straight into WON gets its order with it.
CreateLead(r) ==
  /\ pc[r] = "idle"
  /\ "CREATE" \in Operations
  /\ \E l \in Leads, p \in Pipelines, d \in Days \cup {None} :
       \E s \in Stages[p] :
         /\ lead[l].status = "ABSENT"
         /\ DayFits(NoLead, [status |-> s], d)
         /\ lead' = [lead EXCEPT ![l] = [status |-> s, pipeline |-> p,
                                         archived |-> FALSE]]
         /\ order' = IF s = WON
                     THEN [order EXCEPT ![l] = [status |-> "INITIAL", day |-> d,
                                                awb |-> None]]
                     ELSE order
         /\ logged' = {Event("lead", l, "ABSENT", s)}
                       \cup IF s = WON THEN {Event("order", l, "NONE", "INITIAL"),
                                             Event("date", l, None, d)} ELSE {}
  /\ UNCHANGED <<accounts, leadLock, orderLock, pc, call, sawOrder, sawLead>>

-----------------------------------------------------------------------------
Start(r) == LoadState(r) \/ LockForEdit(r) \/ CheckLead(r) \/ CreateLead(r)
Finish(r) == CheckAwb(r) \/ LockLead(r) \/ Move(r) \/ Edit(r)
             \/ ApplyLead(r) \/ DeleteLead(r)

Next == \E r \in Requests : Start(r) \/ Finish(r) \/ Crash(r)

Spec == Init /\ [][Next]_vars

\* The server runs a request it has begun; PostgreSQL queues the waiters of a row.
Fairness ==
  \A r \in Requests :
    /\ WF_vars(CheckAwb(r)) /\ WF_vars(ApplyLead(r)) /\ WF_vars(DeleteLead(r))
    /\ SF_vars(LockLead(r)) /\ SF_vars(Move(r)) /\ SF_vars(Edit(r))

FairSpec == Spec /\ Fairness

-----------------------------------------------------------------------------
(* What the workflow must keep. *)

\* A rejected order never sits behind a lead that reads WON, nor the other way
\* round: the lead of an order reads QC NOT APPROVED exactly while it is rejected.
LeadFollowsOrder ==
  \A l \in Leads : Ordered(l) => lead[l].status = Standing(order[l].status)

\* An order is in Accounts exactly when it is DELIVERED; one that was cancelled or
\* returned, even by a request that overtook the delivery, is never billed.
BilledIffDelivered ==
  \A l \in Leads : l \in accounts <=> order[l].status = "DELIVERED"

\* A tracking number is on one order at most, and exactly on the dispatched ones,
\* whatever dispatches and corrections cross between assertAwbFree and the write.
OneOrderPerAwb ==
  \A l \in Leads :
    /\ order[l].awb # None <=> order[l].status \in Shipped
    /\ \A m \in Leads : l # m /\ order[l].awb # None => order[l].awb # order[m].awb

\* What a request decides on at its last step is still so: the row it read under a
\* lock is the committed row, and no request that skipped the lock got past it.
ReadsHold ==
  \A r \in Requests :
    LET op == call[r].op
        l == call[r].lead
    IN pc[r] # "idle" =>
         /\ lead[l].status # "ABSENT"
         /\ pc[r] = "apply" \/ (pc[r] = "move" /\ op \in WriteBackOps)
              => leadLock[l] = r /\ sawLead[r] = lead[l]
         /\ op \in EditOps => /\ orderLock[l] = r /\ sawOrder[r] = order[l]
                             /\ order[l].status \in EditStatuses[op]

\* The lead of an order is never deleted, and stays in its pipeline: the delete and
\* the pipeline change were allowed by a read made before the lead converted.
OrderKeepsLead ==
  [][\A l \in Leads : Ordered(l) => Exists(l)' /\ lead'[l].pipeline = lead[l].pipeline]_vars

\* The journey is truthful: a status, a delivery day or an Accounts record changes
\* only with the event that names its true before and after, a tracking number only
\* with its event or the order's dispatch, and no event of a committed transaction
\* names another change.
JourneyTruthful ==
  [][\A l \in Leads :
      /\ lead'[l].status # lead[l].status
           => Event("lead", l, lead[l].status, lead'[l].status) \in logged'
      /\ order'[l].status # order[l].status
           => Event("order", l, order[l].status, order'[l].status) \in logged'
      /\ order'[l].day # order[l].day
           => Event("date", l, order[l].day, order'[l].day) \in logged'
      /\ order'[l].awb # order[l].awb
           => \/ Event("awb", l, order[l].awb, order'[l].awb) \in logged'
              \/ Event("order", l, order[l].status, "DISPATCHED") \in logged'
      /\ (l \in accounts') # (l \in accounts)
           => Event("accounts", l, None, "INITIAL") \in logged'
      /\ \A e \in logged' : e.lead = l =>
           /\ e.of = "lead" => e.before = lead[l].status /\ e.after = lead'[l].status
           /\ e.of = "order" => e.before = order[l].status /\ e.after = order'[l].status
           /\ e.of = "date" => e.before = order[l].day /\ e.after = order'[l].day
           /\ e.of = "awb" => e.before = order[l].awb /\ e.after = order'[l].awb
           /\ e.of = "accounts" => l \notin accounts /\ l \in accounts'
    ]_vars

\* Each correction lands while the order is in a status it may be made in: Sales
\* never changes the day of an order QC has verified, a day is not corrected after
\* the outcome, a tracking number only after dispatch.
EditsInWindow ==
  [][\A r \in Requests :
      LET l == call[r].lead
      IN call[r].op \in EditOps /\ pc'[r] = "idle" /\ order'[l] # order[l]
         => order[l].status \in EditStatuses[call[r].op]]_vars

\* No order passes QC or is dispatched without a delivery day, and a day once set is
\* never lost: what makes the unlocked read of assertDatedFor safe.
DatedPastQC ==
  [][\A l \in Leads :
      /\ order[l].day # None => order'[l].day # None
      /\ order'[l].status # order[l].status /\ order'[l].status \in {"QC_VERIFIED", "DISPATCHED"}
           => order[l].day # None]_vars

\* An order is made only for an active lead, with a delivery day, when its lead
\* becomes WON, although the scope check that saw the lead active was not locked.
ConversionSound ==
  [][\A l \in Leads : ~Ordered(l) /\ Ordered(l)'
      => /\ lead'[l].status = WON /\ ~lead'[l].archived
         /\ order'[l].status = "INITIAL" /\ order'[l].day # None]_vars

\* A QC rejection or a resubmit leaves the lead on a stage of its own pipeline.
WriteBackOnBoard ==
  [][\A l \in Leads :
      Ordered(l) /\ lead'[l].status # lead[l].status
        => lead'[l].status \in Stages[lead'[l].pipeline]]_vars

\* Every request that has begun ends: no two of them wait on each other's rows.
RequestsEnd == \A r \in Requests : pc[r] # "idle" ~> pc[r] = "idle"

\* Convert puts a lead only where its own pipeline has a WON stage.
ConvertedLeadOnBoard ==
  [][\A l \in Leads : ~Ordered(l) /\ Ordered(l)'
      => lead'[l].status \in Stages[lead'[l].pipeline]]_vars

\* The committed rows, seen one order at a time, only ever take Lifecycle's steps.
Journey == INSTANCE Lifecycle WITH
  status   <- [l \in Leads |-> order[l].status],
  standing <- [l \in Leads |-> IF Ordered(l) THEN lead[l].status ELSE "OPEN"],
  billed   <- accounts

\* Statement by statement, under every interleaving, the code implements the
\* one-step workflow of Lifecycle.
ImplementsLifecycle == Journey!Spec
==============================================================================
