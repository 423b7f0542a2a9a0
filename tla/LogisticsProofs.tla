--------------------------- MODULE LogisticsProofs ---------------------------
(***************************************************************************)
(* Theorems about module Logistics, for any number of leads and requests.  *)
(* IInv is the inductive invariant: what TypeOK, LeadFollowsOrder,         *)
(* BilledIffDelivered and OneOrderPerAwb need to know of the requests in   *)
(* flight is ReadsHold (a row read under its lock has not changed) and     *)
(* InFlight (which operation is at which statement, with which inputs).    *)
(* The action properties follow from one lemma: because what the request   *)
(* decided on still holds, every step has one of the effects of Effect on  *)
(* the rows of one lead.  Asked adds that a request that checked a         *)
(* delivery day before it waited still finds one.                          *)
(***************************************************************************)
EXTENDS Logistics, TLAPS

\* The operation of a request fits the statement it is at, and has its inputs.
InFlight ==
  \A r \in Requests :
    LET op == call[r].op
    IN pc[r] # "idle" =>
         /\ call[r].lead \in Leads
         /\ pc[r] = "awb"   => op \in {"DISPATCH", "CORRECT_AWB"}
         /\ pc[r] = "lock"  => op \in LeadOps \cup WriteBackOps
         /\ pc[r] = "move"  => op \in MoveOps
         /\ pc[r] = "edit"  => op \in EditOps
         /\ pc[r] = "apply" => op \in LeadOps
         /\ call[r].awb # None <=> op \in {"DISPATCH", "CORRECT_AWB"}
         /\ op \in EditOps \ {"CORRECT_AWB"} => call[r].day # None

IInv == /\ TypeOK
        /\ InFlight
        /\ ReadsHold
        /\ LeadFollowsOrder
        /\ BilledIffDelivered
        /\ OneOrderPerAwb

-----------------------------------------------------------------------------
\* The requests other than r, their locks included, are as they were.
OthersKept(r) ==
  /\ \A q \in Requests \ {r} :
       /\ pc'[q] = pc[q] /\ call'[q] = call[q]
       /\ sawOrder'[q] = sawOrder[q] /\ sawLead'[q] = sawLead[q]
  /\ \A q \in Requests \ {r}, l \in Leads :
       /\ leadLock[l] = q => leadLock'[l] = q
       /\ orderLock[l] = q => orderLock'[l] = q

RequestsTyped ==
  /\ leadLock \in [Leads -> Requests \cup {None}]
  /\ orderLock \in [Leads -> Requests \cup {None}]
  /\ pc \in [Requests -> {"idle", "awb", "lock", "move", "edit", "apply"}]
  /\ call \in [Requests -> Call]
  /\ sawOrder \in [Requests -> OrderRow]
  /\ sawLead \in [Requests -> LeadRow]

LEMMA NullsTyped == NoCall \in Call /\ NoOrder \in OrderRow /\ NoLead \in LeadRow
  BY DEF NoCall, Call, NoOrder, OrderRow, NoLead, LeadRow

\* COMMIT and ROLLBACK end r and give back its locks, and touch no other request.
LEMMA ReleaseLemma ==
  ASSUME TypeOK, NEW r \in Requests, Release(r)
  PROVE  RequestsTyped' /\ pc'[r] = "idle" /\ OthersKept(r)
<1>1. RequestsTyped'
  BY NullsTyped, SMTT(30) DEF TypeOK, Release, Goto, RequestsTyped
<1>2. pc'[r] = "idle" /\ OthersKept(r)
  BY DEF TypeOK, Release, Goto, OthersKept
<1> QED  BY <1>1, <1>2

\* A step of r that writes no table keeps the invariant if r itself is in order.
LEMMA QuietLemma ==
  ASSUME IInv, NEW r \in Requests, UNCHANGED tables, logged' = {},
         RequestsTyped', OthersKept(r), InFlight!(r)', ReadsHold!(r)'
  PROVE  IInv'
<1>1. TypeOK'
  BY DEF IInv, TypeOK, RequestsTyped, tables, Exists
<1>2. InFlight'
  <2> SUFFICES ASSUME NEW q \in Requests, q # r  PROVE InFlight!(q)'
    BY DEF InFlight
  <2> QED  BY DEF IInv, InFlight, OthersKept
<1>3. ReadsHold'
  <2> SUFFICES ASSUME NEW q \in Requests, q # r  PROVE ReadsHold!(q)'
    BY DEF ReadsHold
  <2> QED  BY DEF IInv, InFlight, ReadsHold, OthersKept, tables
<1>4. LeadFollowsOrder' /\ BilledIffDelivered' /\ OneOrderPerAwb'
  BY DEF IInv, LeadFollowsOrder, BilledIffDelivered, OneOrderPerAwb, Ordered, tables
<1> QED  BY <1>1, <1>2, <1>3, <1>4 DEF IInv

\* A refused request leaves everything as it was for the others.
LEMMA RefuseLemma ==
  ASSUME IInv, NEW r \in Requests, Refuse(r)
  PROVE  IInv'
<1>1. RequestsTyped' /\ pc'[r] = "idle" /\ OthersKept(r)
  BY ReleaseLemma DEF Refuse, IInv
<1>2. InFlight!(r)' /\ ReadsHold!(r)'
  BY <1>1
<1> QED  BY <1>1, <1>2, QuietLemma DEF Refuse

LEMMA LoadStateLemma ==
  ASSUME IInv, NEW r \in Requests, LoadState(r)
  PROVE  IInv'
<1> PICK op \in MoveOps \cap Operations, l \in Leads, a \in Awbs :
      /\ Ordered(l)
      /\ call' = [call EXCEPT ![r] =
                     [NoCall EXCEPT !.op = op, !.lead = l,
                                    !.awb = IF op = "DISPATCH" THEN a ELSE None]]
      /\ sawOrder' = [sawOrder EXCEPT ![r] =
                         [NoOrder EXCEPT !.status = order[l].status]]
      /\ Goto(r, IF op = "DISPATCH" THEN "awb"
                  ELSE IF op \in WriteBackOps THEN "lock" ELSE "move")
  BY DEF LoadState
<1>1. UNCHANGED <<tables, leadLock, orderLock, sawLead>> /\ logged' = {}
  BY DEF LoadState
<1>2. call'[r].op = op /\ call'[r].lead = l
      /\ call'[r].awb = IF op = "DISPATCH" THEN a ELSE None
  BY DEF NoCall, IInv, TypeOK
<1>3. pc'[r] = IF op = "DISPATCH" THEN "awb"
               ELSE IF op \in WriteBackOps THEN "lock" ELSE "move"
  BY DEF Goto, IInv, TypeOK
<1>4. RequestsTyped'
  <2>1. call' \in [Requests -> Call]
    BY DEF IInv, TypeOK, NoCall, Call
  <2>2. sawOrder' \in [Requests -> OrderRow]
    BY DEF IInv, TypeOK, NoOrder, OrderRow
  <2> QED  BY <1>1, <2>1, <2>2 DEF RequestsTyped, IInv, TypeOK, Goto
<1>5. OthersKept(r)
  BY <1>1 DEF OthersKept, IInv, TypeOK, Goto
<1>6. InFlight!(r)'
  BY <1>2, <1>3, Constants DEF MoveOps, Moves, EditOps, EditStatuses, WriteBackOps, WriteBack
<1>7. ReadsHold!(r)'
  <2>1. lead'[l].status # "ABSENT"
    BY <1>1 DEF IInv, LeadFollowsOrder, tables, Standing, WON, QCNotApproved
  <2>2. op \notin EditOps
    BY DEF MoveOps, Moves, EditOps, EditStatuses
  <2> QED  BY <1>2, <1>3, <2>1, <2>2
<1> QED  BY <1>1, <1>4, <1>5, <1>6, <1>7, QuietLemma

LEMMA CheckAwbLemma ==
  ASSUME IInv, NEW r \in Requests, CheckAwb(r)
  PROVE  IInv'
<1>1. CASE Refuse(r)
  BY <1>1, RefuseLemma
<1>2. CASE /\ Goto(r, IF call[r].op = "DISPATCH" THEN "move" ELSE "edit")
           /\ logged' = {}
           /\ UNCHANGED <<tables, leadLock, orderLock, call, sawOrder, sawLead>>
  <2>1. pc[r] = "awb" /\ call[r].op \in {"DISPATCH", "CORRECT_AWB"}
    BY DEF CheckAwb, IInv, InFlight
  <2>2. pc'[r] = IF call[r].op = "DISPATCH" THEN "move" ELSE "edit"
    BY <1>2 DEF Goto, IInv, TypeOK
  <2>3. RequestsTyped' /\ OthersKept(r)
    BY <1>2 DEF RequestsTyped, OthersKept, IInv, TypeOK, Goto
  <2>4. InFlight!(r)'
    BY <1>2, <2>1, <2>2
       DEF IInv, InFlight, MoveOps, Moves, EditOps, EditStatuses
  <2>5. ReadsHold!(r)'
    BY <1>2, <2>1, <2>2
       DEF IInv, ReadsHold, tables, WriteBackOps, WriteBack
  <2> QED  BY <1>2, <2>3, <2>4, <2>5, QuietLemma
<1> QED  BY <1>1, <1>2 DEF CheckAwb

LEMMA LockLeadLemma ==
  ASSUME IInv, NEW r \in Requests, LockLead(r)
  PROVE  IInv'
<1> DEFINE l == call[r].lead
<1>1. /\ pc[r] = "lock" /\ l \in Leads
      /\ call[r].op \in LeadOps \cup WriteBackOps
      /\ leadLock[l] = None /\ leadLock' = [leadLock EXCEPT ![l] = r]
      /\ sawLead' = [sawLead EXCEPT ![r] = lead[l]]
      /\ logged' = {}
      /\ UNCHANGED <<tables, orderLock, call, sawOrder>>
  BY DEF LockLead, HoldLead, IInv, InFlight
<1>2. pc'[r] = IF call[r].op \in WriteBackOps THEN "move" ELSE "apply"
  BY DEF LockLead, Goto, IInv, TypeOK
<1>3. leadLock'[l] = r /\ sawLead'[r] = lead[l]
  BY <1>1 DEF IInv, TypeOK
<1>4. RequestsTyped'
  BY <1>1 DEF LockLead, Goto, RequestsTyped, IInv, TypeOK
<1>5. OthersKept(r)
  BY <1>1, Constants DEF LockLead, Goto, OthersKept, IInv, TypeOK
<1>6. InFlight!(r)'
  BY <1>1, <1>2 DEF IInv, InFlight, WriteBackOps, WriteBack, MoveOps, Moves
<1>7. ReadsHold!(r)'
  BY <1>1, <1>2, <1>3 DEF IInv, ReadsHold, tables
<1> QED  BY <1>1, <1>4, <1>5, <1>6, <1>7, QuietLemma

\* The inputs of an edit: a day or a tracking number, as its operation needs.
LEMMA EditCallsLemma ==
  ASSUME NEW op \in EditOps, NEW l \in Leads, NEW c \in EditCalls(op, l)
  PROVE  /\ c \in Call /\ c.op = op /\ c.lead = l
         /\ c.awb # None <=> op = "CORRECT_AWB"
         /\ op # "CORRECT_AWB" => c.day # None
<1> PICK d \in Days \cup {None}, a \in Awbs \cup {None} :
      c = EditCall(op, l, d, a)
  BY DEF EditCalls
<1>1. c = [op |-> op, lead |-> l, status |-> None, pipeline |-> None,
           day |-> d, awb |-> a]
  BY DEF EditCall, NoCall
<1>2. c \in Call /\ c.op = op /\ c.lead = l
  BY <1>1 DEF Call
<1>3. IF op = "CORRECT_AWB" THEN c.awb # None /\ c.day = None
      ELSE c.awb = None /\ c.day # None
  BY DEF EditCalls
<1> QED  BY <1>2, <1>3

LEMMA LockForEditLemma ==
  ASSUME IInv, NEW r \in Requests, LockForEdit(r)
  PROVE  IInv'
<1> PICK op \in EditOps \cap Operations, l \in Leads :
      /\ order[l].status \in EditStatuses[op]
      /\ \E c \in EditCalls(op, l) :
           /\ call' = [call EXCEPT ![r] = c]
           /\ Goto(r, IF op = "CORRECT_AWB" /\ c.awb # order[l].awb
                      THEN "awb" ELSE "edit")
      /\ HoldOrder(r, l)
      /\ sawOrder' = [sawOrder EXCEPT ![r] = order[l]]
  BY DEF LockForEdit
<1> PICK c \in EditCalls(op, l) :
      /\ call' = [call EXCEPT ![r] = c]
      /\ Goto(r, IF op = "CORRECT_AWB" /\ c.awb # order[l].awb THEN "awb" ELSE "edit")
  OBVIOUS
<1>1. UNCHANGED <<tables, leadLock, sawLead>> /\ logged' = {} /\ pc[r] = "idle"
  BY DEF LockForEdit
<1>2. /\ c \in Call /\ c.op = op /\ c.lead = l
      /\ c.awb # None <=> op = "CORRECT_AWB"
      /\ op # "CORRECT_AWB" => c.day # None
  BY EditCallsLemma
<1>3. /\ call'[r] = c /\ orderLock'[l] = r /\ sawOrder'[r] = order[l]
      /\ pc'[r] \in {"awb", "edit"} /\ (pc'[r] = "awb" => op = "CORRECT_AWB")
  BY DEF HoldOrder, Goto, IInv, TypeOK
<1>4. RequestsTyped'
  BY <1>1, <1>2 DEF Goto, HoldOrder, RequestsTyped, IInv, TypeOK
<1>5. OthersKept(r)
  BY <1>1, Constants DEF Goto, HoldOrder, OthersKept, IInv, TypeOK
<1>6. InFlight!(r)'
  BY <1>2, <1>3 DEF EditOps, EditStatuses
<1>7. ReadsHold!(r)'
  <2>1. lead'[l].status # "ABSENT"
    <3>1. Ordered(l)
      BY DEF Ordered, EditOps, EditStatuses
    <3> QED  BY <1>1, <3>1 DEF IInv, LeadFollowsOrder, tables, Standing, WON, QCNotApproved
  <2>2. op \notin WriteBackOps /\ order'[l] = order[l]
    BY <1>1 DEF EditOps, EditStatuses, WriteBackOps, WriteBack, tables
  <2> QED  BY <1>2, <1>3, <2>1, <2>2
<1> QED  BY <1>1, <1>4, <1>5, <1>6, <1>7, QuietLemma

\* What a request may write on a lead is an operation on that lead, of the right type.
LEMMA LeadCallsLemma ==
  ASSUME IInv, NEW l \in Leads, Exists(l), NEW c \in LeadCalls(l)
  PROVE  c \in Call /\ c.op \in LeadOps /\ c.lead = l /\ c.awb = None
<1> DEFINE e == lead[l]
<1>1. e.status \in LeadStatus /\ e.pipeline \in Pipelines
  BY DEF IInv, TypeOK, Exists
<1>2. ASSUME NEW op \in LeadOps, NEW p \in Pipelines \cup {None},
             NEW s \in LeadStatus \cup {None}, NEW d \in Days \cup {None},
             c = LeadCall(op, l, p, s, d)
      PROVE  c \in Call /\ c.op \in LeadOps /\ c.lead = l /\ c.awb = None
  <2>1. c = [op |-> op, lead |-> l, status |-> s, pipeline |-> p,
             day |-> d, awb |-> None]
    BY <1>2 DEF LeadCall, NoCall
  <2> QED  BY <2>1 DEF Call
<1>3. \E op \in LeadOps, p \in Pipelines \cup {None}, s \in LeadStatus \cup {None},
         d \in Days \cup {None} : c = LeadCall(op, l, p, s, d)
  <2>1. CASE e.archived
    BY <2>1 DEF LeadCalls, LeadOps
  <2>2. CASE ~e.archived
    <3> DEFINE boards == {ps \in Pipelines \X LeadStatus :
                            ps = <<e.pipeline, e.status>> \/ ps[2] \in Stages[ps[1]]}
    <3>1. \A p \in Pipelines : Stages[p] \subseteq LeadStatus /\ FirstStage[p] \in LeadStatus
      BY Constants
    <3>2. CASE \E s \in Stages[e.pipeline] \cup {e.status}, d \in Days \cup {None} :
                 c = LeadCall("SET_STATUS", l, None, s, d)
      BY <1>1, <3>1, <3>2 DEF LeadOps
    <3>3. CASE \E ps \in boards, d \in Days \cup {None} :
                 c = LeadCall("EDIT_LEAD", l, ps[1], ps[2], d)
      <4>1. \A ps \in boards : ps[1] \in Pipelines /\ ps[2] \in LeadStatus
        OBVIOUS
      <4> QED  BY <3>3, <4>1 DEF LeadOps
    <3>4. CASE \E p \in Pipelines : c = LeadCall("CHANGE_PIPELINE", l, p, FirstStage[p], None)
      BY <3>1, <3>4 DEF LeadOps
    <3>5. CASE \E op \in {"ARCHIVE", "DELETE"} : c = LeadCall(op, l, None, None, None)
      BY <3>5 DEF LeadOps
    <3> QED  BY <2>2, <3>2, <3>3, <3>4, <3>5 DEF LeadCalls
  <2> QED  BY <2>1, <2>2
<1> QED  BY <1>2, <1>3

LEMMA CheckLeadLemma ==
  ASSUME IInv, NEW r \in Requests, CheckLead(r)
  PROVE  IInv'
<1> PICK l \in Leads :
      Exists(l) /\ \E c \in LeadCalls(l) : call' = [call EXCEPT ![r] = c]
  BY DEF CheckLead
<1> PICK c \in LeadCalls(l) : call' = [call EXCEPT ![r] = c]
  OBVIOUS
<1>1. /\ UNCHANGED <<tables, leadLock, orderLock, sawOrder, sawLead>>
      /\ logged' = {} /\ Goto(r, "lock")
  BY DEF CheckLead
<1>2. c \in Call /\ c.op \in LeadOps /\ c.lead = l /\ c.awb = None
  BY LeadCallsLemma
<1>3. pc'[r] = "lock" /\ call'[r] = c
  BY <1>1 DEF Goto, IInv, TypeOK
<1>4. RequestsTyped' /\ OthersKept(r)
  BY <1>1, <1>2 DEF RequestsTyped, OthersKept, IInv, TypeOK, Goto
<1>5. c.op \notin EditOps /\ c.op \notin {"DISPATCH", "CORRECT_AWB"}
  BY <1>2 DEF LeadOps, EditOps, EditStatuses
<1>6. InFlight!(r)'
  BY <1>2, <1>3, <1>5
<1>7. ReadsHold!(r)'
  BY <1>1, <1>2, <1>3, <1>5 DEF Exists, LeadStatus, WON, QCNotApproved, tables
<1> QED  BY <1>1, <1>4, <1>6, <1>7, QuietLemma

-----------------------------------------------------------------------------
\* The rows (ld, o) of one lead and its order keep what relates them.
Consistent(l, ld, o) ==
  /\ ld \in LeadRow /\ o \in OrderRow
  /\ ld.status \in LeadStatus => ld.pipeline \in Pipelines
  /\ o.status # "NONE" => ld.status = Standing(o.status)
  /\ o.awb # None <=> o.status \in Shipped
  /\ \A m \in Leads : m # l /\ o.awb # None => order[m].awb # o.awb

\* The committed tables after a transaction that wrote the rows of one lead.
WroteRows(l, ld, o) ==
  /\ lead' = [lead EXCEPT ![l] = ld]
  /\ order' = [order EXCEPT ![l] = o]
  /\ accounts' = IF o.status = "DELIVERED" THEN accounts \cup {l} ELSE accounts
  /\ l \in accounts => o.status = "DELIVERED"

LEMMA TablesLemma ==
  ASSUME IInv, NEW l \in Leads, NEW ld, NEW o, Consistent(l, ld, o), WroteRows(l, ld, o)
  PROVE  /\ LeadFollowsOrder' /\ BilledIffDelivered' /\ OneOrderPerAwb'
         /\ lead' \in [Leads -> LeadRow] /\ order' \in [Leads -> OrderRow]
         /\ accounts' \subseteq Leads
         /\ \A m \in Leads : Exists(m)' => lead'[m].pipeline \in Pipelines
<1>1. /\ lead \in [Leads -> LeadRow] /\ order \in [Leads -> OrderRow]
      /\ accounts \subseteq Leads
  BY DEF IInv, TypeOK
<1>2. /\ lead' \in [Leads -> LeadRow] /\ order' \in [Leads -> OrderRow]
      /\ accounts' \subseteq Leads
  BY <1>1 DEF Consistent, WroteRows
<1>3. /\ lead'[l] = ld /\ order'[l] = o
      /\ \A m \in Leads \ {l} : lead'[m] = lead[m] /\ order'[m] = order[m]
  BY <1>1 DEF WroteRows
<1>4. \A m \in Leads : Exists(m)' => lead'[m].pipeline \in Pipelines
  BY <1>3 DEF IInv, TypeOK, Exists, Consistent
<1>5. LeadFollowsOrder'
  BY <1>3 DEF IInv, LeadFollowsOrder, Ordered, Consistent
<1>6. BilledIffDelivered'
  BY <1>3 DEF IInv, BilledIffDelivered, WroteRows
<1>7. OneOrderPerAwb'
  <2>1. \A m \in Leads : order'[m].awb # None <=> order'[m].status \in Shipped
    BY <1>3 DEF IInv, OneOrderPerAwb, Consistent
  <2>2. ASSUME NEW m \in Leads, NEW n \in Leads, m # n, order'[m].awb # None
        PROVE  order'[m].awb # order'[n].awb
    BY <1>3, <2>2 DEF IInv, OneOrderPerAwb, Consistent
  <2> QED  BY <2>1, <2>2 DEF OneOrderPerAwb
<1> QED  BY <1>2, <1>4, <1>5, <1>6, <1>7

\* A transaction of r that holds the lead's row if it writes it, and waited for the
\* order's row if it writes one that was there, leaves the other requests' reads true.
LEMMA CommitLemma ==
  ASSUME IInv, NEW r \in Requests, NEW l \in Leads, NEW ld, NEW o,
         Release(r), Consistent(l, ld, o), WroteRows(l, ld, o),
         ld.status # "ABSENT" \/ ld = lead[l],
         ld = lead[l] \/ leadLock[l] = r,
         o = order[l] \/ FreeFor(orderLock[l], r) \/ order[l].status = "NONE",
         \A e \in logged' : e.lead \in Leads
  PROVE  IInv'
<1>1. RequestsTyped' /\ pc'[r] = "idle" /\ OthersKept(r)
  BY ReleaseLemma DEF IInv
<1>2. /\ LeadFollowsOrder' /\ BilledIffDelivered' /\ OneOrderPerAwb'
      /\ lead' \in [Leads -> LeadRow] /\ order' \in [Leads -> OrderRow]
      /\ accounts' \subseteq Leads
      /\ \A m \in Leads : Exists(m)' => lead'[m].pipeline \in Pipelines
  BY TablesLemma
<1>3. TypeOK'
  BY <1>1, <1>2 DEF TypeOK, RequestsTyped
<1>4. InFlight'
  BY <1>1 DEF IInv, InFlight, OthersKept
<1>5. ReadsHold'
  <2> SUFFICES ASSUME NEW q \in Requests, pc'[q] # "idle"
               PROVE  ReadsHold!(q)'
    BY DEF ReadsHold
  <2> DEFINE m == call[q].lead
  <2>1. /\ q # r /\ pc'[q] = pc[q] /\ call'[q] = call[q]
        /\ sawOrder'[q] = sawOrder[q] /\ sawLead'[q] = sawLead[q]
        /\ m \in Leads /\ q # None
    BY <1>1, Constants DEF OthersKept, IInv, InFlight
  <2>2. /\ leadLock[m] = q => leadLock'[m] = q
        /\ orderLock[m] = q => orderLock'[m] = q
    BY <1>1, <2>1 DEF OthersKept
  <2>3. m # l => lead'[m] = lead[m] /\ order'[m] = order[m]
    BY <2>1 DEF WroteRows, IInv, TypeOK
  <2>4. lead'[l] = ld /\ order'[l] = o
    BY DEF WroteRows, IInv, TypeOK
  <2>5. lead'[m].status # "ABSENT"
    BY <2>1, <2>3, <2>4 DEF IInv, ReadsHold
  <2>6. leadLock[m] = q => lead'[m] = lead[m]
    BY <2>1, <2>3, <2>4
  <2>7. orderLock[m] = q /\ order[m].status # "NONE" => order'[m] = order[m]
    BY <2>1, <2>3, <2>4 DEF FreeFor
  <2>8. \A op \in EditOps : "NONE" \notin EditStatuses[op]
    BY DEF EditOps, EditStatuses
  <2> QED  BY <2>1, <2>2, <2>5, <2>6, <2>7, <2>8 DEF IInv, ReadsHold
<1> QED  BY <1>2, <1>3, <1>4, <1>5 DEF IInv

-----------------------------------------------------------------------------
LEMMA MoveLemma ==
  ASSUME IInv, NEW r \in Requests, Move(r)
  PROVE  IInv'
<1>1. CASE Refuse(r)
  BY <1>1, RefuseLemma
<1>2. CASE MoveAccepted(r) /\ CommitMove(r)
  <2> DEFINE c == call[r]
             l == c.lead
             ld == IF c.op \in WriteBackOps
                   THEN [lead[l] EXCEPT !.status = WriteBack[c.op]] ELSE lead[l]
             o == MovedOrder(c)
  <2>1. /\ pc[r] = "move" /\ l \in Leads /\ c.op \in MoveOps
        /\ c \in Call /\ lead[l] \in LeadRow /\ order[l] \in OrderRow
        /\ c.awb # None <=> c.op = "DISPATCH"
        /\ FreeFor(orderLock[l], r)
    BY DEF Move, MayWriteOrder, IInv, InFlight, TypeOK, MoveOps, Moves
  <2>2. c.op \in WriteBackOps => /\ leadLock[l] = r /\ sawLead[r] = lead[l]
                                 /\ lead[l].status \in LeadStatus
    BY <1>2, <2>1 DEF IInv, ReadsHold, MoveAccepted, StageOnBoard
  <2>3. /\ order[l].status \in Moves[c.op].from
        /\ AwbIndex(l, c.awb)
        /\ c.op = "DELIVER" => l \notin accounts
    BY <1>2 DEF MoveAccepted, StillAsRead
  <2>4. /\ o.status = Moves[c.op].to /\ o.day = order[l].day
        /\ o.awb = IF c.op = "DISPATCH" THEN c.awb ELSE order[l].awb
        /\ o \in OrderRow
    <3>1. Moves[c.op].to \in LogisticsStatus
      BY <2>1 DEF MoveOps, Moves, LogisticsStatus
    <3> QED  BY <2>1, <3>1 DEF MovedOrder, OrderRow, Call
  <2>5. Ordered(l) /\ lead[l].status = Standing(order[l].status)
    <3>1. Ordered(l)
      BY <2>1, <2>3 DEF Ordered, MoveOps, Moves
    <3> QED  BY <2>1, <3>1 DEF IInv, LeadFollowsOrder
  <2>6. /\ ld \in LeadRow
        /\ ld.status = IF c.op \in WriteBackOps THEN WriteBack[c.op] ELSE lead[l].status
        /\ ld.pipeline = lead[l].pipeline
    <3>1. ASSUME NEW s \in LeadStatus
          PROVE  LET row == [lead[l] EXCEPT !.status = s]
                 IN row \in LeadRow /\ row.status = s /\ row.pipeline = lead[l].pipeline
      BY <2>1 DEF LeadRow
    <3>2. \A op \in WriteBackOps : WriteBack[op] \in LeadStatus
      BY DEF WriteBackOps, WriteBack, LeadStatus
    <3> QED  BY <2>1, <3>1, <3>2
  <2>7. ld.status = Standing(o.status)
    BY <2>1, <2>3, <2>4, <2>5, <2>6
       DEF MoveOps, Moves, WriteBackOps, WriteBack, Standing
  <2>8. o.awb # None <=> o.status \in Shipped
    BY <2>1, <2>3, <2>4 DEF IInv, OneOrderPerAwb, MoveOps, Moves, Shipped
  <2>9. \A m \in Leads : m # l /\ o.awb # None => order[m].awb # o.awb
    <3>1. CASE c.op = "DISPATCH"
      BY <2>1, <2>3, <2>4, <3>1 DEF AwbIndex, AwbFree
    <3>2. CASE c.op # "DISPATCH"
      BY <2>1, <2>4, <3>2 DEF IInv, OneOrderPerAwb
    <3> QED  BY <3>1, <3>2
  <2>10. ld.status \in LeadStatus => ld.pipeline \in Pipelines
    BY <2>1, <2>5, <2>6 DEF IInv, TypeOK, Exists, Standing, LeadStatus
  <2>11. Consistent(l, ld, o)
    BY <2>4, <2>6, <2>7, <2>8, <2>9, <2>10 DEF Consistent
  <2>12. WroteRows(l, ld, o)
    <3>1. accounts' = IF o.status = "DELIVERED" THEN accounts \cup {l} ELSE accounts
      BY <1>2, <2>1, <2>4 DEF CommitMove, Billed, MoveOps, Moves
    <3>2. l \in accounts => o.status = "DELIVERED"
      BY <2>1, <2>3, <2>4 DEF IInv, BilledIffDelivered, MoveOps, Moves
    <3> QED  BY <1>2, <3>1, <3>2 DEF CommitMove, WroteRows
  <2>13. \A e \in logged' : e.lead \in Leads
    BY <1>2, <2>1 DEF CommitMove, Event, Change
  <2>14. Release(r)
    BY <1>2 DEF CommitMove
  <2>15. ld = lead[l] \/ leadLock[l] = r
    BY <2>2
  <2> HIDE DEF c, l, ld, o
  <2>16. ld.status # "ABSENT"
    BY <2>7 DEF Standing, WON, QCNotApproved
  <2> QED  BY <2>1, <2>11, <2>12, <2>13, <2>14, <2>15, <2>16, CommitLemma
<1> QED  BY <1>1, <1>2 DEF Move

LEMMA EditLemma ==
  ASSUME IInv, NEW r \in Requests, Edit(r)
  PROVE  IInv'
<1> DEFINE c == call[r]
           l == c.lead
           ld == lead[l]
           o == IF c.op = "CORRECT_AWB" THEN [order[l] EXCEPT !.awb = c.awb]
                ELSE [order[l] EXCEPT !.day = c.day]
<1>1. CASE Refuse(r)
  BY <1>1, RefuseLemma
<1>2. CASE AwbIndex(l, c.awb) /\ ~Refuse(r)
  <2>1. /\ pc[r] = "edit" /\ l \in Leads /\ c.op \in EditOps /\ c \in Call
        /\ lead[l] \in LeadRow /\ order[l] \in OrderRow
        /\ FreeFor(orderLock[l], r)
        /\ c.awb # None <=> c.op = "CORRECT_AWB"
    BY DEF Edit, MayWriteOrder, IInv, InFlight, TypeOK, EditOps, EditStatuses
  <2>2. /\ order' = [order EXCEPT ![l] = o]
        /\ Release(r) /\ UNCHANGED <<lead, accounts>>
        /\ logged' = IF c.op = "CORRECT_AWB"
                     THEN Change("awb", l, sawOrder[r].awb, c.awb)
                     ELSE Change("date", l, sawOrder[r].day, c.day)
    BY <1>2, <2>1 DEF Edit, IInv, TypeOK
  <2>3. order[l].status \in EditStatuses[c.op] /\ ld.status # "ABSENT"
    BY <2>1 DEF IInv, ReadsHold
  <2>4. /\ o \in OrderRow /\ o.status = order[l].status
        /\ o.awb = IF c.op = "CORRECT_AWB" THEN c.awb ELSE order[l].awb
    BY <2>1 DEF OrderRow, Call
  <2>5. o.awb # None <=> o.status \in Shipped
    BY <2>1, <2>3, <2>4 DEF IInv, OneOrderPerAwb, EditStatuses, Shipped
  <2>6. \A m \in Leads : m # l /\ o.awb # None => order[m].awb # o.awb
    <3>1. CASE c.op = "CORRECT_AWB"
      BY <1>2, <2>1, <2>4, <3>1 DEF AwbIndex, AwbFree
    <3>2. CASE c.op # "CORRECT_AWB"
      BY <2>1, <2>4, <3>2 DEF IInv, OneOrderPerAwb
    <3> QED  BY <3>1, <3>2
  <2>7. /\ ld.status \in LeadStatus => ld.pipeline \in Pipelines
        /\ o.status # "NONE" => ld.status = Standing(o.status)
        /\ l \in accounts <=> o.status = "DELIVERED"
    BY <2>1, <2>4
       DEF IInv, TypeOK, Exists, LeadFollowsOrder, Ordered, BilledIffDelivered
  <2>8. Consistent(l, ld, o)
    BY <2>1, <2>4, <2>5, <2>6, <2>7 DEF Consistent
  <2>9. WroteRows(l, ld, o)
    BY <2>2, <2>7 DEF WroteRows, IInv, TypeOK
  <2>10. \A e \in logged' : e.lead \in Leads
    BY <2>1, <2>2 DEF Change, Event
  <2> HIDE DEF c, o
  <2> QED  BY <2>1, <2>2, <2>8, <2>9, <2>10, CommitLemma
<1> QED  BY <1>1, <1>2 DEF Edit

\* What an allowed write leaves in the lead's row.
LEMMA WrittenLemma ==
  ASSUME NEW c \in Call, NEW row \in LeadRow, row.status \in LeadStatus,
         row.pipeline \in Pipelines
  PROVE  /\ Written(c, row) \in LeadRow
         /\ Written(c, row).status \in LeadStatus
         /\ Written(c, row).pipeline \in Pipelines
<1>1. c.status \in LeadStatus \cup {None} /\ c.pipeline \in Pipelines \cup {None}
      /\ row.archived \in BOOLEAN
  BY DEF Call, LeadRow
<1>2. Written(c, row).status \in LeadStatus
  BY <1>1 DEF Written
<1>3. Written(c, row).pipeline \in Pipelines
  BY <1>1 DEF Written
<1>4. Written(c, row).archived \in BOOLEAN
  BY <1>1 DEF Written
<1> QED  BY <1>2, <1>3, <1>4 DEF Written, LeadRow

LEMMA ApplyLeadLemma ==
  ASSUME IInv, NEW r \in Requests, ApplyLead(r)
  PROVE  IInv'
<1> DEFINE c == call[r]
           l == c.lead
           ld == Written(c, lead[l])
           converts == BecameConverted(lead[l], ld) /\ ~Ordered(l)
           o == IF converts THEN [status |-> "INITIAL", day |-> c.day, awb |-> None]
                ELSE order[l]
<1>1. CASE Refuse(r)
  BY <1>1, RefuseLemma
<1>2. CASE /\ Exists(l) /\ ~Guarded(l, sawLead[r], ld)
           /\ DayFits(sawLead[r], ld, c.day) /\ CommitLead(r)
  <2>1. /\ l \in Leads /\ c \in Call /\ lead[l] \in LeadRow /\ order[l] \in OrderRow
        /\ lead[l].status \in LeadStatus /\ lead[l].pipeline \in Pipelines
        /\ leadLock[l] = r /\ sawLead[r] = lead[l]
    BY <1>2 DEF ApplyLead, IInv, InFlight, ReadsHold, TypeOK, Exists
  <2>2. ld \in LeadRow /\ ld.status \in LeadStatus /\ ld.pipeline \in Pipelines
    BY <2>1, WrittenLemma
  <2>3. /\ lead' = [lead EXCEPT ![l] = ld]
        /\ order' = IF converts
                    THEN [order EXCEPT ![l] = [status |-> "INITIAL", day |-> c.day,
                                               awb |-> None]]
                    ELSE order
        /\ Release(r) /\ UNCHANGED accounts
    BY <1>2, <2>1 DEF CommitLead
  <2>4. order' = [order EXCEPT ![l] = o]
    BY <2>1, <2>3 DEF IInv, TypeOK
  <2>5. o \in OrderRow
    BY <2>1 DEF OrderRow, LogisticsStatus, Call
  <2>6. o.status # "NONE" => ld.status = Standing(o.status)
    <3>1. CASE converts
      BY <3>1 DEF BecameConverted, Standing
    <3>2. CASE ~converts /\ Ordered(l)
      BY <1>2, <2>1, <3>2 DEF Guarded, IInv, LeadFollowsOrder
    <3>3. CASE ~converts /\ ~Ordered(l)
      BY <3>3 DEF Ordered
    <3> QED  BY <3>1, <3>2, <3>3
  <2>7. /\ o.awb # None <=> o.status \in Shipped
        /\ \A m \in Leads : m # l /\ o.awb # None => order[m].awb # o.awb
        /\ l \in accounts <=> o.status = "DELIVERED"
    <3>1. CASE converts
      BY <2>1, <3>1 DEF IInv, BilledIffDelivered, Ordered, Shipped
    <3>2. CASE ~converts
      BY <2>1, <3>2 DEF IInv, OneOrderPerAwb, BilledIffDelivered
    <3> QED  BY <3>1, <3>2
  <2> HIDE DEF c, l, ld, o, converts
  <2>8. Consistent(l, ld, o) /\ WroteRows(l, ld, o)
    <3>1. accounts' = IF o.status = "DELIVERED" THEN accounts \cup {l} ELSE accounts
      BY <2>3, <2>7
    <3> QED  BY <2>2, <2>3, <2>4, <2>5, <2>6, <2>7, <3>1 DEF Consistent, WroteRows
  <2>9. \A e \in logged' : e.lead \in Leads
    BY <1>2, <2>1 DEF CommitLead, Change, Event, c, l, ld
  <2>10. ld.status # "ABSENT"
    BY <2>2 DEF LeadStatus, WON, QCNotApproved
  <2>11. o = order[l] \/ order[l].status = "NONE"
    BY DEF Ordered, o, converts
  <2> QED  BY <2>1, <2>3, <2>8, <2>9, <2>10, <2>11, CommitLemma
<1> QED  BY <1>1, <1>2 DEF ApplyLead, IInv, InFlight, ReadsHold

LEMMA DeleteLeadLemma ==
  ASSUME IInv, NEW r \in Requests, DeleteLead(r)
  PROVE  IInv'
<1> DEFINE l == call[r].lead
<1>1. /\ pc[r] = "apply" /\ l \in Leads /\ leadLock[l] = r
      /\ lead[l] \in LeadRow /\ order[l] \in OrderRow
  BY DEF DeleteLead, IInv, InFlight, ReadsHold, TypeOK
<1>2. CASE Refuse(r)
  BY <1>2, RefuseLemma
<1>3. CASE /\ Release(r) /\ UNCHANGED tables
           /\ logged' = {Event("delete", l, "blocked", "blocked")}
  <2>1. Consistent(l, lead[l], order[l]) /\ WroteRows(l, lead[l], order[l])
    BY <1>1, <1>3
       DEF Consistent, WroteRows, tables, IInv, TypeOK, Exists, LeadFollowsOrder,
           Ordered, BilledIffDelivered, OneOrderPerAwb
  <2>2. \A e \in logged' : e.lead \in Leads
    BY <1>1, <1>3 DEF Event
  <2> QED  BY <1>1, <1>3, <2>1, <2>2, CommitLemma
<1>4. CASE /\ ~Ordered(l) /\ lead' = [lead EXCEPT ![l].status = "DELETED"]
           /\ logged' = {Event("lead", l, lead[l].status, "DELETED")}
           /\ Release(r) /\ UNCHANGED <<order, accounts>>
  <2> DEFINE ld == [lead[l] EXCEPT !.status = "DELETED"]
  <2>1. ld \in LeadRow /\ ld.status = "DELETED"
    BY <1>1 DEF LeadRow
  <2>2. Consistent(l, ld, order[l])
    BY <1>1, <1>4, <2>1
       DEF Consistent, Ordered, LeadStatus, WON, QCNotApproved, IInv, OneOrderPerAwb
  <2>3. WroteRows(l, ld, order[l])
    BY <1>1, <1>4 DEF WroteRows, IInv, TypeOK, BilledIffDelivered
  <2>4. \A e \in logged' : e.lead \in Leads
    BY <1>1, <1>4 DEF Event
  <2> HIDE DEF ld, l
  <2> QED  BY <1>1, <1>4, <2>1, <2>2, <2>3, <2>4, CommitLemma
<1> QED  BY <1>2, <1>3, <1>4 DEF DeleteLead, Retained

LEMMA CreateLeadLemma ==
  ASSUME IInv, NEW r \in Requests, CreateLead(r)
  PROVE  IInv'
<1> PICK l \in Leads, p \in Pipelines, d \in Days \cup {None} :
      \E s \in Stages[p] :
         /\ lead[l].status = "ABSENT"
         /\ DayFits(NoLead, [status |-> s], d)
         /\ lead' = [lead EXCEPT ![l] = [status |-> s, pipeline |-> p,
                                         archived |-> FALSE]]
         /\ order' = IF s = WON
                     THEN [order EXCEPT ![l] = [status |-> "INITIAL", day |-> d,
                                                awb |-> None]]
                     ELSE order
         /\ logged' = {Event("lead", l, "ABSENT", s)}
                       \cup IF s = WON THEN {Event("order", l, "NONE", "INITIAL"),
                                             Event("date", l, None, d)} ELSE {}
  BY DEF CreateLead
<1> PICK s \in Stages[p] :
         /\ lead[l].status = "ABSENT"
         /\ DayFits(NoLead, [status |-> s], d)
         /\ lead' = [lead EXCEPT ![l] = [status |-> s, pipeline |-> p,
                                         archived |-> FALSE]]
         /\ order' = IF s = WON
                     THEN [order EXCEPT ![l] = [status |-> "INITIAL", day |-> d,
                                                awb |-> None]]
                     ELSE order
         /\ logged' = {Event("lead", l, "ABSENT", s)}
                       \cup IF s = WON THEN {Event("order", l, "NONE", "INITIAL"),
                                             Event("date", l, None, d)} ELSE {}
  OBVIOUS
<1> DEFINE ld == [status |-> s, pipeline |-> p, archived |-> FALSE]
           o == IF s = WON THEN [status |-> "INITIAL", day |-> d, awb |-> None]
                ELSE order[l]
<1>1. UNCHANGED <<accounts, leadLock, orderLock, pc, call, sawOrder, sawLead>>
  BY DEF CreateLead
<1>2. s \in LeadStatus /\ ld \in LeadRow /\ order[l] \in OrderRow
  BY Constants DEF LeadRow, IInv, TypeOK
<1>3. ~Ordered(l)
  BY DEF IInv, LeadFollowsOrder, Standing, WON, QCNotApproved
<1>4. o \in OrderRow /\ o.status \in {"NONE", "INITIAL"} /\ o.awb = None
  BY <1>2, <1>3 DEF OrderRow, LogisticsStatus, Ordered, IInv, OneOrderPerAwb, Shipped
<1>5. Consistent(l, ld, o)
  BY <1>2, <1>3, <1>4 DEF Consistent, Standing, Ordered, Shipped
<1>6. WroteRows(l, ld, o)
  <2>1. order' = [order EXCEPT ![l] = o]
    BY DEF IInv, TypeOK
  <2>2. l \notin accounts
    BY <1>3 DEF IInv, BilledIffDelivered, Ordered
  <2> QED  BY <1>1, <1>4, <2>1, <2>2 DEF WroteRows
<1>7. \A e \in logged' : e.lead \in Leads
  BY DEF Event
<1> HIDE DEF ld, o
<1>8. /\ LeadFollowsOrder' /\ BilledIffDelivered' /\ OneOrderPerAwb'
      /\ lead' \in [Leads -> LeadRow] /\ order' \in [Leads -> OrderRow]
      /\ accounts' \subseteq Leads
      /\ \A m \in Leads : Exists(m)' => lead'[m].pipeline \in Pipelines
  BY <1>5, <1>6, TablesLemma
<1>9. TypeOK'
  BY <1>1, <1>7, <1>8 DEF IInv, TypeOK
<1>10. InFlight'
  BY <1>1 DEF IInv, InFlight
<1>11. ReadsHold'
  <2> SUFFICES ASSUME NEW q \in Requests, pc[q] # "idle"
               PROVE  ReadsHold!(q)'
    BY <1>1 DEF ReadsHold
  <2>1. call[q].lead \in Leads /\ lead[call[q].lead].status # "ABSENT"
    BY DEF IInv, InFlight, ReadsHold
  <2>2. lead'[call[q].lead] = lead[call[q].lead] /\ order'[call[q].lead] = order[call[q].lead]
    BY <2>1 DEF IInv, TypeOK
  <2> QED  BY <1>1, <2>1, <2>2 DEF IInv, ReadsHold
<1> QED  BY <1>8, <1>9, <1>10, <1>11 DEF IInv

-----------------------------------------------------------------------------
LEMMA InitLemma == Init => IInv
<1> SUFFICES ASSUME Init PROVE IInv
  OBVIOUS
<1>1. TypeOK
  <2>1. ASSUME NEW l \in Leads, Exists(l) PROVE lead[l].pipeline \in Pipelines
    <3>1. StartingPair(lead[l], order[l])
      BY DEF Init
    <3>2. "ABSENT" \notin LeadStatus
      BY DEF LeadStatus, WON, QCNotApproved
    <3>3. NoLead.status = "ABSENT"
      BY DEF NoLead
    <3>4. lead[l] # NoLead
      BY <2>1, <3>2, <3>3 DEF Exists
    <3> QED  BY <3>1, <3>4 DEF StartingPair
  <2>2. RequestsTyped
    BY NullsTyped DEF Init, RequestsTyped
  <2> QED  BY <2>1, <2>2 DEF Init, TypeOK, RequestsTyped
<1>2. InFlight /\ ReadsHold
  BY DEF Init, InFlight, ReadsHold
<1>3. LeadFollowsOrder
  BY DEF Init, LeadFollowsOrder, StartingPair, Ordered, NoOrder
<1>4. BilledIffDelivered
  BY DEF Init, BilledIffDelivered
<1>5. OneOrderPerAwb
  BY DEF Init, OneOrderPerAwb, StartingPair, NoOrder, Shipped
<1> QED  BY <1>1, <1>2, <1>3, <1>4, <1>5 DEF IInv

LEMMA StepLemma == IInv /\ [Next]_vars => IInv'
<1> SUFFICES ASSUME IInv, [Next]_vars PROVE IInv'
  OBVIOUS
<1>1. ASSUME NEW r \in Requests, Start(r) PROVE IInv'
  BY <1>1, LoadStateLemma, LockForEditLemma, CheckLeadLemma, CreateLeadLemma DEF Start
<1>2. ASSUME NEW r \in Requests, Finish(r) PROVE IInv'
  BY <1>2, CheckAwbLemma, LockLeadLemma, MoveLemma, EditLemma, ApplyLeadLemma,
     DeleteLeadLemma DEF Finish
<1>3. ASSUME NEW r \in Requests, Crash(r) PROVE IInv'
  BY <1>3, RefuseLemma DEF Crash
<1>4. CASE UNCHANGED vars
  BY <1>4 DEF vars, IInv, TypeOK, InFlight, ReadsHold, LeadFollowsOrder,
              BilledIffDelivered, OneOrderPerAwb, Exists, Ordered
<1> QED  BY <1>1, <1>2, <1>3, <1>4 DEF Next

LEMMA Invariance == Spec => []IInv
  BY InitLemma, StepLemma, PTL DEF Spec

\* Every column and every input is of its type, for any number of leads and requests.
THEOREM TypeCorrect == Spec => []TypeOK
  BY Invariance, PTL DEF IInv

\* A row read under SELECT ... FOR UPDATE is the committed row until the request that
\* holds it ends, however many requests of whatever kind run beside it.
THEOREM LockedReadsHold == Spec => []ReadsHold
  BY Invariance, PTL DEF IInv

\* The lead of an order reads QC NOT APPROVED exactly while its order is rejected:
\* the write-back of runWithLead and guardConvertedLeads keep the two together.
THEOREM LeadNeverLeavesOrder == Spec => []LeadFollowsOrder
  BY Invariance, PTL DEF IInv

\* Accounts has a record of exactly the delivered orders.
THEOREM NothingElseBilled == Spec => []BilledIffDelivered
  BY Invariance, PTL DEF IInv

\* A tracking number is on one order at most, and exactly on the dispatched ones.
THEOREM AwbsUnique == Spec => []OneOrderPerAwb
  BY Invariance, PTL DEF IInv

-----------------------------------------------------------------------------
(* Refinement: the abstract state is a function of the orders' statuses.    *)

Edges == {<<"NONE", "INITIAL">>, <<"INITIAL", "QC_REJECTED">>,
          <<"QC_REJECTED", "INITIAL">>, <<"INITIAL", "QC_VERIFIED">>,
          <<"QC_VERIFIED", "DISPATCHED">>, <<"DISPATCHED", "RTO">>,
          <<"DISPATCHED", "CANCELLED">>, <<"RTO", "CANCELLED">>,
          <<"DISPATCHED", "DELIVERED">>}

OthersStay(l) == \A m \in Leads \ {l} : order'[m].status = order[m].status
Advances(l) == <<order[l].status, order'[l].status>> \in Edges /\ OthersStay(l)
StatusesStay == \A m \in Leads : order'[m].status = order[m].status

LEMMA MoveAdvances ==
  ASSUME IInv, NEW r \in Requests, Move(r)
  PROVE  StatusesStay \/ \E l \in Leads : Advances(l)
<1>1. CASE Refuse(r)
  BY <1>1 DEF Refuse, tables, StatusesStay
<1>2. CASE MoveAccepted(r) /\ CommitMove(r)
  <2> DEFINE c == call[r]
             l == c.lead
  <2>1. /\ l \in Leads /\ c.op \in MoveOps /\ order \in [Leads -> OrderRow]
        /\ order[l].status \in Moves[c.op].from
        /\ order' = [order EXCEPT ![l] = MovedOrder(c)]
    BY <1>2 DEF Move, IInv, InFlight, TypeOK, MoveAccepted, StillAsRead, CommitMove
  <2>2. MovedOrder(c).status = Moves[c.op].to
    BY <2>1 DEF MovedOrder, OrderRow
  <2>3. order'[l].status = Moves[c.op].to /\ OthersStay(l)
    BY <2>1, <2>2 DEF OthersStay
  <2>4. <<order[l].status, order'[l].status>> \in Edges
    BY <2>1, <2>3 DEF MoveOps, Moves, Edges
  <2> QED  BY <2>1, <2>3, <2>4 DEF Advances
<1> QED  BY <1>1, <1>2 DEF Move

LEMMA EditStays ==
  ASSUME IInv, NEW r \in Requests, Edit(r)
  PROVE  StatusesStay
<1>1. CASE Refuse(r)
  BY <1>1 DEF Refuse, tables, StatusesStay
<1>2. CASE ~Refuse(r)
  BY <1>2 DEF Edit, StatusesStay, IInv, TypeOK, OrderRow
<1> QED  BY <1>1, <1>2

LEMMA ApplyAdvances ==
  ASSUME IInv, NEW r \in Requests, ApplyLead(r)
  PROVE  StatusesStay \/ \E l \in Leads : Advances(l)
<1> DEFINE l == call[r].lead
<1>1. l \in Leads /\ order \in [Leads -> OrderRow]
  BY DEF ApplyLead, IInv, InFlight, TypeOK
<1>2. \/ order' = order
      \/ /\ ~Ordered(l)
         /\ order' = [order EXCEPT ![l] = [status |-> "INITIAL", day |-> call[r].day,
                                           awb |-> None]]
  BY DEF ApplyLead, CommitLead, Refuse, tables
<1>3. ASSUME ~Ordered(l),
             order' = [order EXCEPT ![l] = [status |-> "INITIAL", day |-> call[r].day,
                                            awb |-> None]]
      PROVE  Advances(l)
  <2>1. order'[l].status = "INITIAL" /\ OthersStay(l)
    BY <1>1, <1>3 DEF OthersStay
  <2> QED  BY <1>3, <2>1 DEF Advances, Edges, Ordered
<1> QED  BY <1>1, <1>2, <1>3 DEF StatusesStay

LEMMA CreateAdvances ==
  ASSUME IInv, NEW r \in Requests, CreateLead(r)
  PROVE  StatusesStay \/ \E l \in Leads : Advances(l)
<1> PICK l \in Leads, d \in Days \cup {None} :
      /\ lead[l].status = "ABSENT"
      /\ \/ order' = order
         \/ order' = [order EXCEPT ![l] = [status |-> "INITIAL", day |-> d, awb |-> None]]
  BY DEF CreateLead
<1>1. order \in [Leads -> OrderRow] /\ order[l].status = "NONE"
  BY DEF IInv, TypeOK, LeadFollowsOrder, Ordered, Standing, WON, QCNotApproved
<1>2. ASSUME order' = [order EXCEPT ![l] = [status |-> "INITIAL", day |-> d, awb |-> None]]
      PROVE  Advances(l)
  <2>1. order'[l].status = "INITIAL" /\ OthersStay(l)
    BY <1>1, <1>2 DEF OthersStay
  <2> QED  BY <1>1, <2>1 DEF Advances, Edges
<1> QED  BY <1>2 DEF StatusesStay

LEMMA StepAdvances ==
  ASSUME IInv, [Next]_vars
  PROVE  StatusesStay \/ \E l \in Leads : Advances(l)
<1>1. ASSUME UNCHANGED order PROVE StatusesStay
  BY <1>1 DEF StatusesStay
<1>2. ASSUME NEW r \in Requests, Start(r)
      PROVE  StatusesStay \/ \E l \in Leads : Advances(l)
  BY <1>1, <1>2, CreateAdvances DEF Start, LoadState, LockForEdit, CheckLead, tables
<1>3. ASSUME NEW r \in Requests, Finish(r)
      PROVE  StatusesStay \/ \E l \in Leads : Advances(l)
  <2>1. CASE CheckAwb(r) \/ LockLead(r) \/ DeleteLead(r)
    BY <1>1, <2>1 DEF CheckAwb, LockLead, DeleteLead, Refuse, tables
  <2> QED  BY <1>3, <2>1, MoveAdvances, EditStays, ApplyAdvances DEF Finish
<1>4. ASSUME NEW r \in Requests, Crash(r) PROVE StatusesStay
  BY <1>1, <1>4 DEF Crash, Refuse, tables
<1>5. CASE UNCHANGED vars
  BY <1>1, <1>5 DEF vars
<1> QED  BY <1>2, <1>3, <1>4, <1>5 DEF Next

\* The abstract variables, as the invariant gives them from the orders.
Statuses  == [l \in Leads |-> order[l].status]
Standings == [l \in Leads |-> IF Ordered(l) THEN Standing(order[l].status) ELSE "OPEN"]
Delivered == {l \in Leads : order[l].status = "DELIVERED"}

LEMMA JourneyVars ==
  ASSUME IInv
  PROVE  /\ [l \in Leads |-> IF Ordered(l) THEN lead[l].status ELSE "OPEN"] = Standings
         /\ accounts = Delivered
  BY DEF IInv, LeadFollowsOrder, BilledIffDelivered, TypeOK, Standings, Delivered

LEMMA JourneyVarsNext ==
  ASSUME IInv'
  PROVE  /\ [l \in Leads |-> IF Ordered(l) THEN lead[l].status ELSE "OPEN"]' = Standings'
         /\ accounts' = Delivered'
  BY DEF IInv, LeadFollowsOrder, BilledIffDelivered, TypeOK, Standings, Delivered

LEMMA JourneyStep ==
  ASSUME IInv, IInv', [Next]_vars
  PROVE  [Journey!Next]_(Journey!vars)
<1>1. CASE StatusesStay
  <2>1. Statuses' = Statuses /\ Standings' = Standings /\ Delivered' = Delivered
    BY <1>1 DEF StatusesStay, Statuses, Standings, Delivered, Ordered
  <2> QED  BY <2>1, JourneyVars, JourneyVarsNext DEF Journey!vars, Statuses
<1>2. ASSUME NEW l \in Leads, Advances(l)
      PROVE  Journey!Next
  <2> DEFINE s == order'[l].status
  <2>1. /\ Statuses' = [Statuses EXCEPT ![l] = s]
        /\ Standings' = [Standings EXCEPT ![l] = IF s = "NONE" THEN "OPEN" ELSE Standing(s)]
        /\ Delivered' = IF s = "DELIVERED" THEN Delivered \cup {l} ELSE Delivered \ {l}
    BY <1>2 DEF Advances, OthersStay, Statuses, Standings, Delivered, Ordered
  <2>2. Statuses[l] = order[l].status
        /\ Standings[l] = (IF order[l].status = "NONE" THEN "OPEN" ELSE Standing(order[l].status))
        /\ (l \in Delivered <=> order[l].status = "DELIVERED")
    BY DEF Statuses, Standings, Delivered, Ordered
  <2>3. CASE order[l].status = "NONE" /\ s = "INITIAL"
    <3>1. Standings' = [Standings EXCEPT ![l] = "WON"] /\ Delivered' = Delivered
      BY <2>1, <2>2, <2>3 DEF Standing, WON
    <3> QED  BY <2>1, <2>3, <3>1, JourneyVars, JourneyVarsNext
             DEF Journey!Next, Journey!Convert, Journey!Becomes, Journey!Reads, Statuses
  <2>4. CASE order[l].status = "INITIAL" /\ s = "QC_REJECTED"
    <3>1. /\ Standings' = [Standings EXCEPT ![l] = "QC NOT APPROVED"]
          /\ Delivered' = Delivered
      BY <2>1, <2>2, <2>4 DEF Standing, QCNotApproved
    <3> QED  BY <2>1, <2>4, <3>1, JourneyVars, JourneyVarsNext
             DEF Journey!Next, Journey!Reject, Journey!Becomes, Journey!Reads, Statuses
  <2>5. CASE order[l].status = "QC_REJECTED" /\ s = "INITIAL"
    <3>1. Standings' = [Standings EXCEPT ![l] = "WON"] /\ Delivered' = Delivered
      BY <2>1, <2>2, <2>5 DEF Standing, WON
    <3> QED  BY <2>1, <2>5, <3>1, JourneyVars, JourneyVarsNext
             DEF Journey!Next, Journey!Resubmit, Journey!Becomes, Journey!Reads, Statuses
  <2>6. CASE order[l].status = "DISPATCHED" /\ s = "DELIVERED"
    <3>1. Standings' = Standings /\ Delivered' = Delivered \cup {l}
      BY <2>1, <2>2, <2>6 DEF Standing, Standings
    <3> QED  BY <2>1, <2>6, <3>1, JourneyVars, JourneyVarsNext
             DEF Journey!Next, Journey!Deliver, Journey!Becomes, Statuses
  <2>7. CASE <<order[l].status, s>> \in {<<"INITIAL", "QC_VERIFIED">>,
               <<"QC_VERIFIED", "DISPATCHED">>, <<"DISPATCHED", "RTO">>,
               <<"DISPATCHED", "CANCELLED">>, <<"RTO", "CANCELLED">>}
    <3>1. Standings' = Standings /\ Delivered' = Delivered
      BY <2>1, <2>2, <2>7 DEF Standing, Standings
    <3>2. \/ order[l].status = "INITIAL" /\ s = "QC_VERIFIED"
          \/ order[l].status = "QC_VERIFIED" /\ s = "DISPATCHED"
          \/ order[l].status = "DISPATCHED" /\ s = "RTO"
          \/ order[l].status \in {"DISPATCHED", "RTO"} /\ s = "CANCELLED"
      BY <2>7
    <3>3. Journey!Ship(l)
      BY <2>1, <2>2, <3>1, <3>2, JourneyVars, JourneyVarsNext
         DEF Journey!Ship, Journey!Becomes, Statuses
    <3> QED  BY <3>3 DEF Journey!Next
  <2>8. <<order[l].status, s>> \in Edges
    BY <1>2 DEF Advances
  <2> QED  BY <2>3, <2>4, <2>5, <2>6, <2>7, <2>8 DEF Edges
<1> QED  BY <1>1, <1>2, StepAdvances

LEMMA JourneyInit == Init => Journey!Init
<1> SUFFICES ASSUME Init PROVE Journey!Init
  OBVIOUS
<1>1. IInv
  BY InitLemma
<1>2. Statuses \in [Leads -> {"NONE", "INITIAL", "QC_VERIFIED", "QC_REJECTED",
                              "DISPATCHED", "DELIVERED", "CANCELLED", "RTO"}]
  BY <1>1 DEF Statuses, IInv, TypeOK, OrderRow, LogisticsStatus
<1>3. Standings = [l \in Leads |-> IF Statuses[l] = "NONE" THEN "OPEN"
                                   ELSE IF Statuses[l] = "QC_REJECTED"
                                        THEN "QC NOT APPROVED" ELSE "WON"]
  BY DEF Standings, Statuses, Standing, Ordered, WON, QCNotApproved
<1>4. Delivered = {l \in Leads : Statuses[l] = "DELIVERED"}
  BY DEF Delivered, Statuses
<1> QED  BY <1>1, <1>2, <1>3, <1>4, JourneyVars DEF Journey!Init, Statuses

\* The statements of any number of concurrent requests take, order by order, only the
\* one-step moves of Lifecycle: the whole order, lead and Accounts change together.
THEOREM Refinement == Spec => ImplementsLifecycle
<1>1. IInv /\ IInv' /\ [Next]_vars => [Journey!Next]_(Journey!vars)
  BY JourneyStep
<1> QED  BY <1>1, JourneyInit, Invariance, PTL DEF Spec, ImplementsLifecycle, Journey!Spec

-----------------------------------------------------------------------------
(* What one committed transaction may do. *)

\* A request that is over asks for nothing.
IdleAsksNothing == \A r \in Requests : pc[r] = "idle" => call[r].op = "NONE"

\* Only an order has a delivery day.
DaysOnOrders ==
  \A l \in Leads : ~Ordered(l) => order[l].day = None /\ order[l].awb = None

\* A move that assertDatedFor let through still finds the order dated.
DatedFor ==
  \A r \in Requests :
    LET op == call[r].op
    IN /\ pc[r] # "idle" /\ op \in DateRequired
       /\ sawOrder[r].status \in Moves[op].from
       => order[call[r].lead].day # None

Asked == IdleAsksNothing /\ DaysOnOrders /\ DatedFor

-----------------------------------------------------------------------------
(* The effects a step can have. *)

\* The rows of every other lead stay.
Alone(l) == \A m \in Leads \ {l} : lead'[m] = lead[m] /\ order'[m] = order[m]

Quiet == UNCHANGED tables /\ \A e \in logged' : e.of = "delete"

\* The conditional update of a move, with the lead's write-back.
Moved(l, op) ==
  LET b == lead[l].status
      a == IF op \in WriteBackOps THEN WriteBack[op] ELSE b
  IN /\ order[l].status \in Moves[op].from
     /\ op \in DateRequired => order[l].day # None
     /\ order'[l].status = Moves[op].to /\ order'[l].day = order[l].day
     /\ order'[l].awb # order[l].awb => op = "DISPATCH"
     /\ lead'[l].status = a /\ lead'[l].pipeline = lead[l].pipeline
     /\ op \in WriteBackOps => a \in Stages[lead[l].pipeline]
     /\ logged' = {Event("order", l, order[l].status, Moves[op].to)}
                    \cup (IF op \in WriteBackOps THEN Change("lead", l, b, a) ELSE {})
                    \cup (IF op = "DELIVER"
                          THEN {Event("accounts", l, None, "INITIAL")} ELSE {})

\* An edit of the order, inside its window.
Edited(l) ==
  /\ Ordered(l)
  /\ lead'[l] = lead[l] /\ order'[l].status = order[l].status
  /\ \/ /\ order'[l].day = order[l].day
        /\ logged' = Change("awb", l, order[l].awb, order'[l].awb)
     \/ /\ order'[l].day # None /\ order'[l].awb = order[l].awb
        /\ logged' = Change("date", l, order[l].day, order'[l].day)

\* A write of the lead that leaves its order alone.
LeadWritten(l) ==
  /\ order'[l] = order[l]
  /\ Ordered(l) => /\ lead'[l].status = lead[l].status
                   /\ lead'[l].pipeline = lead[l].pipeline
  /\ logged' = Change("lead", l, lead[l].status, lead'[l].status)

\* A write that makes the lead's order.
Converted(l) ==
  /\ ~Ordered(l)
  /\ lead[l].status # WON /\ lead'[l].status = WON /\ ~lead'[l].archived
  /\ order'[l].status = "INITIAL" /\ order'[l].day # None /\ order'[l].awb = None
  /\ logged' = {Event("lead", l, lead[l].status, WON), Event("order", l, "NONE", "INITIAL"),
                Event("date", l, None, order'[l].day)}

Effect ==
  \/ Quiet
  \/ \E l \in Leads :
       /\ Alone(l)
       /\ (\E op \in MoveOps : Moved(l, op)) \/ Edited(l) \/ LeadWritten(l) \/ Converted(l)

LEMMA RefuseIsQuiet ==
  ASSUME NEW r \in Requests, Refuse(r)
  PROVE  Quiet
  BY DEF Refuse, Quiet

LEMMA MoveEffect ==
  ASSUME IInv, Asked, NEW r \in Requests, Move(r)
  PROVE  Effect
<1>1. CASE Refuse(r)
  BY <1>1, RefuseIsQuiet DEF Effect
<1>2. CASE MoveAccepted(r) /\ CommitMove(r)
  <2> DEFINE c == call[r]
             l == c.lead
             b == lead[l].status
             a == IF c.op \in WriteBackOps THEN WriteBack[c.op] ELSE b
             now == IF c.op \in WriteBackOps
                    THEN [lead[l] EXCEPT !.status = WriteBack[c.op]] ELSE lead[l]
  <2>1. /\ pc[r] = "move" /\ l \in Leads /\ c.op \in MoveOps
        /\ c \in Call /\ lead[l] \in LeadRow /\ order[l] \in OrderRow
        /\ lead \in [Leads -> LeadRow] /\ order \in [Leads -> OrderRow]
    BY DEF Move, IInv, InFlight, TypeOK
  <2>2. /\ order[l].status \in Moves[c.op].from /\ sawOrder[r].status = order[l].status
        /\ c.op \in WriteBackOps => sawLead[r] = lead[l] /\ WriteBack[c.op] \in Stages[lead[l].pipeline]
    BY <1>2, <2>1 DEF MoveAccepted, StillAsRead, StageOnBoard, IInv, ReadsHold
  <2>3. c.op \in DateRequired => order[l].day # None
    BY <2>1, <2>2 DEF Asked, DatedFor
  <2>4. /\ MovedOrder(c).status = Moves[c.op].to /\ MovedOrder(c).day = order[l].day
        /\ MovedOrder(c).awb # order[l].awb => c.op = "DISPATCH"
    BY <2>1 DEF MovedOrder, OrderRow
  <2>5. now.status = a /\ now.pipeline = lead[l].pipeline
    BY <2>1 DEF LeadRow
  <2>6. /\ lead' = [lead EXCEPT ![l] = now]
        /\ order' = [order EXCEPT ![l] = MovedOrder(c)]
        /\ logged' = {Event("order", l, sawOrder[r].status, Moves[c.op].to)}
                       \cup (IF c.op \in WriteBackOps
                             THEN Change("lead", l, sawLead[r].status, now.status) ELSE {})
                       \cup (IF c.op = "DELIVER"
                             THEN {Event("accounts", l, None, "INITIAL")} ELSE {})
    BY <1>2 DEF CommitMove
  <2> HIDE DEF now
  <2>7. Alone(l)
    BY <2>1, <2>6 DEF Alone
  <2>8. lead'[l] = now /\ order'[l] = MovedOrder(c)
    BY <2>1, <2>6
  <2>9. logged' = {Event("order", l, order[l].status, Moves[c.op].to)}
                    \cup (IF c.op \in WriteBackOps THEN Change("lead", l, b, a) ELSE {})
                    \cup (IF c.op = "DELIVER"
                          THEN {Event("accounts", l, None, "INITIAL")} ELSE {})
    BY <2>2, <2>5, <2>6
  <2>10. Moved(l, c.op)
    BY <2>2, <2>3, <2>4, <2>5, <2>8, <2>9 DEF Moved
  <2> QED  BY <2>1, <2>7, <2>10 DEF Effect
<1> QED  BY <1>1, <1>2 DEF Move

LEMMA EditEffect ==
  ASSUME IInv, NEW r \in Requests, Edit(r)
  PROVE  Effect
<1> DEFINE c == call[r]
           l == c.lead
<1>1. CASE Refuse(r)
  BY <1>1, RefuseIsQuiet DEF Effect
<1>2. CASE ~Refuse(r)
  <2>1. /\ pc[r] = "edit" /\ l \in Leads /\ c.op \in EditOps
        /\ order \in [Leads -> OrderRow] /\ sawOrder[r] = order[l]
        /\ order[l].status \in EditStatuses[c.op]
        /\ c.op # "CORRECT_AWB" => c.day # None
    BY DEF Edit, IInv, InFlight, ReadsHold, TypeOK
  <2>2. /\ order' = IF c.op = "CORRECT_AWB"
                    THEN [order EXCEPT ![l].awb = c.awb] ELSE [order EXCEPT ![l].day = c.day]
        /\ logged' = IF c.op = "CORRECT_AWB"
                     THEN Change("awb", l, sawOrder[r].awb, c.awb)
                     ELSE Change("date", l, sawOrder[r].day, c.day)
        /\ lead' = lead
    BY <1>2 DEF Edit
  <2>3. Ordered(l)
    BY <2>1 DEF Ordered, EditOps, EditStatuses
  <2>4. Alone(l) /\ order'[l].status = order[l].status
    BY <2>1, <2>2 DEF Alone, OrderRow
  <2>5. CASE c.op = "CORRECT_AWB"
    <3>1. order'[l].day = order[l].day /\ order'[l].awb = c.awb
      BY <2>1, <2>2, <2>5 DEF OrderRow
    <3>2. logged' = Change("awb", l, order[l].awb, order'[l].awb)
      BY <2>1, <2>2, <2>5, <3>1
    <3> QED  BY <2>1, <2>2, <2>3, <2>4, <3>1, <3>2 DEF Edited, Effect
  <2>6. CASE c.op # "CORRECT_AWB"
    <3>1. order'[l].day = c.day /\ order'[l].awb = order[l].awb
      BY <2>1, <2>2, <2>6 DEF OrderRow
    <3> QED  BY <2>1, <2>2, <2>3, <2>4, <2>6, <3>1 DEF Edited, Effect
  <2> QED  BY <2>5, <2>6
<1> QED  BY <1>1, <1>2

LEMMA ApplyEffect ==
  ASSUME IInv, NEW r \in Requests, ApplyLead(r)
  PROVE  Effect
<1> DEFINE c == call[r]
           l == c.lead
           was == lead[l]
           now == Written(c, was)
           converts == BecameConverted(was, now) /\ ~Ordered(l)
<1>1. CASE Refuse(r)
  BY <1>1, RefuseIsQuiet DEF Effect
<1>2. CASE ~Refuse(r)
  <2>1. /\ l \in Leads /\ lead \in [Leads -> LeadRow] /\ order \in [Leads -> OrderRow]
        /\ sawLead[r] = was
    BY DEF ApplyLead, IInv, InFlight, ReadsHold, TypeOK
  <2>2. ~Guarded(l, was, now) /\ DayFits(was, now, c.day)
    BY <1>2, <2>1 DEF ApplyLead
  <2>3. /\ lead' = [lead EXCEPT ![l] = now]
        /\ order' = IF converts
                    THEN [order EXCEPT ![l] = [status |-> "INITIAL", day |-> c.day,
                                               awb |-> None]]
                    ELSE order
        /\ logged' = Change("lead", l, was.status, now.status)
                       \cup IF converts
                            THEN {Event("order", l, "NONE", "INITIAL"),
                                  Event("date", l, None, c.day)} ELSE {}
    BY <1>2, <2>1 DEF ApplyLead, CommitLead
  <2> HIDE DEF now, converts
  <2>4. Alone(l) /\ lead'[l] = now
    BY <2>1, <2>3 DEF Alone
  <2>5. CASE converts
    <3>1. order'[l].status = "INITIAL" /\ order'[l].day = c.day /\ order'[l].awb = None
      BY <2>1, <2>3, <2>5
    <3>2. was.status # WON /\ now.status = WON /\ ~now.archived /\ c.day # None /\ ~Ordered(l)
      BY <2>2, <2>5 DEF Guarded, DayFits, BecameConverted, converts
    <3>3. logged' = {Event("lead", l, was.status, WON), Event("order", l, "NONE", "INITIAL"),
                     Event("date", l, None, order'[l].day)}
      BY <2>3, <2>5, <3>1, <3>2 DEF Change
    <3> QED  BY <2>1, <2>4, <3>1, <3>2, <3>3 DEF Converted, Effect
  <2>6. CASE ~converts
    <3>1. Ordered(l) => was.status = now.status /\ was.pipeline = now.pipeline
      BY <2>2 DEF Guarded
    <3>2. order' = order /\ logged' = Change("lead", l, was.status, now.status)
      BY <2>3, <2>6
    <3> QED  BY <2>1, <2>4, <3>1, <3>2 DEF LeadWritten, Effect
  <2> QED  BY <2>5, <2>6
<1> QED  BY <1>1, <1>2

LEMMA DeleteEffect ==
  ASSUME IInv, NEW r \in Requests, DeleteLead(r)
  PROVE  Effect
<1> DEFINE l == call[r].lead
<1>1. CASE Refuse(r)
  BY <1>1, RefuseIsQuiet DEF Effect
<1>2. CASE UNCHANGED tables /\ logged' = {Event("delete", l, "blocked", "blocked")}
  BY <1>2 DEF Quiet, Effect, Event
<1>3. CASE /\ Exists(l) /\ ~Ordered(l) /\ lead' = [lead EXCEPT ![l].status = "DELETED"]
           /\ logged' = {Event("lead", l, lead[l].status, "DELETED")}
           /\ UNCHANGED <<order, accounts>>
  <2>1. l \in Leads /\ lead \in [Leads -> LeadRow]
    BY DEF DeleteLead, IInv, InFlight, TypeOK
  <2>2. lead'[l].status = "DELETED" /\ lead[l].status # "DELETED"
    BY <1>3, <2>1 DEF LeadRow, Exists, LeadStatus, WON, QCNotApproved
  <2>3. Alone(l)
    BY <1>3, <2>1 DEF Alone
  <2> QED  BY <1>3, <2>1, <2>2, <2>3 DEF LeadWritten, Change, Effect
<1> QED  BY <1>1, <1>2, <1>3 DEF DeleteLead, Retained

LEMMA CreateEffect ==
  ASSUME IInv, NEW r \in Requests, CreateLead(r)
  PROVE  Effect
<1> PICK l \in Leads, p \in Pipelines, d \in Days \cup {None} :
      \E s \in Stages[p] :
         /\ lead[l].status = "ABSENT"
         /\ DayFits(NoLead, [status |-> s], d)
         /\ lead' = [lead EXCEPT ![l] = [status |-> s, pipeline |-> p,
                                         archived |-> FALSE]]
         /\ order' = IF s = WON
                     THEN [order EXCEPT ![l] = [status |-> "INITIAL", day |-> d,
                                                awb |-> None]]
                     ELSE order
         /\ logged' = {Event("lead", l, "ABSENT", s)}
                       \cup IF s = WON THEN {Event("order", l, "NONE", "INITIAL"),
                                             Event("date", l, None, d)} ELSE {}
  BY DEF CreateLead
<1> PICK s \in Stages[p] :
         /\ lead[l].status = "ABSENT"
         /\ DayFits(NoLead, [status |-> s], d)
         /\ lead' = [lead EXCEPT ![l] = [status |-> s, pipeline |-> p,
                                         archived |-> FALSE]]
         /\ order' = IF s = WON
                     THEN [order EXCEPT ![l] = [status |-> "INITIAL", day |-> d,
                                                awb |-> None]]
                     ELSE order
         /\ logged' = {Event("lead", l, "ABSENT", s)}
                       \cup IF s = WON THEN {Event("order", l, "NONE", "INITIAL"),
                                             Event("date", l, None, d)} ELSE {}
  OBVIOUS
<1>1. lead \in [Leads -> LeadRow] /\ order \in [Leads -> OrderRow]
  BY DEF IInv, TypeOK
<1>2. ~Ordered(l)
  BY DEF IInv, LeadFollowsOrder, Standing, WON, QCNotApproved
<1>3. Alone(l) /\ lead'[l].status = s /\ ~lead'[l].archived
  BY <1>1 DEF Alone
<1>4. s \in LeadStatus
  BY Constants
<1>5. CASE s = WON
  <2>1. order'[l].status = "INITIAL" /\ order'[l].day = d /\ order'[l].awb = None
    BY <1>1, <1>5
  <2>2. d # None
    BY <1>5 DEF DayFits, BecameConverted, NoLead, WON
  <2> QED  BY <1>2, <1>3, <1>5, <2>1, <2>2 DEF Converted, Effect, WON
<1>6. CASE s # WON
  <2>1. s # "ABSENT"
    BY <1>4 DEF LeadStatus, WON, QCNotApproved
  <2> QED  BY <1>2, <1>3, <1>6, <2>1 DEF LeadWritten, Change, Effect
<1> QED  BY <1>5, <1>6

LEMMA EffectLemma ==
  ASSUME IInv, Asked, Next
  PROVE  Effect
<1>1. ASSUME UNCHANGED tables, logged' = {} PROVE Effect
  BY <1>1 DEF Effect, Quiet
<1>2. ASSUME NEW r \in Requests, Start(r) PROVE Effect
  BY <1>1, <1>2, CreateEffect DEF Start, LoadState, LockForEdit, CheckLead, tables
<1>3. ASSUME NEW r \in Requests, Finish(r) PROVE Effect
  <2>1. CASE CheckAwb(r) \/ LockLead(r)
    BY <1>1, <2>1 DEF CheckAwb, LockLead, Refuse, tables
  <2> QED  BY <1>3, <2>1, MoveEffect, EditEffect, ApplyEffect, DeleteEffect DEF Finish
<1>4. ASSUME NEW r \in Requests, Crash(r) PROVE Effect
  BY <1>1, <1>4 DEF Crash, Refuse
<1> QED  BY <1>2, <1>3, <1>4 DEF Next

-----------------------------------------------------------------------------
(* Asked is an invariant. *)

\* A day once set is never lost, and only an order has a day or a tracking number.
DaysKept == \A l \in Leads : order[l].day # None => order'[l].day # None

LEMMA EffectKeepsDays ==
  ASSUME DaysOnOrders, Effect
  PROVE  DaysKept /\ DaysOnOrders'
<1>1. CASE Quiet
  BY <1>1 DEF Quiet, tables, DaysKept, DaysOnOrders, Ordered
<1>2. ASSUME NEW l \in Leads, Alone(l),
             (\E op \in MoveOps : Moved(l, op)) \/ Edited(l) \/ LeadWritten(l) \/ Converted(l)
      PROVE  DaysKept /\ DaysOnOrders'
  <2>1. order[l].day # None => order'[l].day # None
    BY <1>2 DEF Moved, Edited, LeadWritten, Converted
  <2>2. ~Ordered(l)' => order'[l].day = None /\ order'[l].awb = None
    <3>1. CASE \E op \in MoveOps : Moved(l, op)
      BY <3>1 DEF Moved, MoveOps, Moves, Ordered
    <3>2. CASE Edited(l) \/ LeadWritten(l) \/ Converted(l)
      BY <3>2 DEF Edited, LeadWritten, Converted, Ordered, DaysOnOrders
    <3> QED  BY <1>2, <3>1, <3>2
  <2> QED  BY <1>2, <2>1, <2>2 DEF Alone, DaysKept, DaysOnOrders, Ordered
<1> QED  BY <1>1, <1>2 DEF Effect

\* A request that goes on, and all the others, are asked what they were asked.
Asking(r) == call'[r] = call[r] /\ sawOrder'[r].status = sawOrder[r].status

LEMMA AskingLemma ==
  ASSUME IInv, NEW r \in Requests, Start(r) \/ Finish(r) \/ Crash(r), NEW q \in Requests
  PROVE  \/ q # r /\ Asking(q) /\ pc'[q] = pc[q]
         \/ q = r /\ Asking(q) /\ pc[q] # "idle" /\ pc'[q] # "idle"
         \/ q = r /\ pc'[q] = "idle" /\ call'[q] = NoCall
         \/ q = r /\ CreateLead(r)
         \/ q = r /\ LoadState(r)
         \/ q = r /\ pc'[q] # "idle" /\ call'[q].op \notin DateRequired
<1> USE DEF Asking
<1>1. RequestsTyped
  BY DEF IInv, TypeOK, RequestsTyped
<1>2. CASE Release(r)
  BY <1>1, <1>2 DEF Release, Goto, RequestsTyped
<1>3. CASE CreateLead(r)
  BY <1>3 DEF CreateLead
<1>4. CASE LoadState(r)
  BY <1>1, <1>4 DEF LoadState, Goto, RequestsTyped
<1>5. CASE LockForEdit(r)
  <2> PICK op \in EditOps \cap Operations, l \in Leads : \E c \in EditCalls(op, l) :
         call' = [call EXCEPT ![r] = c] /\ pc' \in {[pc EXCEPT ![r] = "awb"], [pc EXCEPT ![r] = "edit"]}
         /\ sawOrder' = [sawOrder EXCEPT ![r] = order[l]]
    BY <1>5 DEF LockForEdit, Goto
  <2> PICK c \in EditCalls(op, l) :
         call' = [call EXCEPT ![r] = c] /\ pc' \in {[pc EXCEPT ![r] = "awb"], [pc EXCEPT ![r] = "edit"]}
    OBVIOUS
  <2>1. c.op \notin DateRequired
    BY EditCallsLemma DEF EditOps, EditStatuses, DateRequired
  <2> QED  BY <1>1, <2>1 DEF RequestsTyped
<1>6. CASE CheckLead(r)
  <2> PICK l \in Leads :
        Exists(l) /\ \E c \in LeadCalls(l) : call' = [call EXCEPT ![r] = c]
    BY <1>6 DEF CheckLead
  <2> PICK c \in LeadCalls(l) : call' = [call EXCEPT ![r] = c]
    OBVIOUS
  <2>1. c.op \notin DateRequired
    BY LeadCallsLemma DEF LeadOps, DateRequired
  <2> QED  BY <1>1, <1>6, <2>1 DEF CheckLead, Goto, RequestsTyped
<1>7. CASE CheckAwb(r) \/ LockLead(r)
  BY <1>1, <1>2, <1>7 DEF CheckAwb, LockLead, Refuse, Goto, RequestsTyped
<1>8. CASE Move(r) \/ Edit(r) \/ ApplyLead(r) \/ DeleteLead(r) \/ Crash(r)
  BY <1>2, <1>8 DEF Move, Edit, ApplyLead, DeleteLead, Crash, Refuse, CommitMove, CommitLead
<1> QED  BY <1>3, <1>4, <1>5, <1>6, <1>7, <1>8 DEF Start, Finish

LEMMA AskedStep ==
  ASSUME IInv, Asked, [Next]_vars
  PROVE  Asked'
<1>1. CASE UNCHANGED vars
  BY <1>1 DEF vars, Asked, IdleAsksNothing, DaysOnOrders, DatedFor, Ordered
<1>2. ASSUME NEW r \in Requests, Start(r) \/ Finish(r) \/ Crash(r)
      PROVE  Asked'
  <2>1. DaysKept /\ DaysOnOrders'
    BY <1>2, EffectLemma, EffectKeepsDays DEF Asked, Next
  <2>2. ASSUME NEW q \in Requests
        PROVE  /\ pc'[q] = "idle" => call'[q].op = "NONE"
               /\ DatedFor!(q)'
    <3>1. pc[q] # "idle" => call[q].lead \in Leads
      BY DEF IInv, InFlight
    <3>2. CASE Asking(q) /\ (pc[q] = "idle" <=> pc'[q] = "idle")
      BY <2>1, <3>1, <3>2 DEF Asking, Asked, IdleAsksNothing, DatedFor, DaysKept
    <3>3. CASE pc'[q] = "idle" /\ call'[q] = NoCall
      BY <3>3 DEF NoCall
    <3>4. CASE CreateLead(q)
      BY <3>2, <3>4 DEF CreateLead, Asking
    <3>5. CASE LoadState(q)
      <4> PICK op \in MoveOps \cap Operations, l \in Leads, a \in Awbs :
            /\ ~Undated(op, order[l])
            /\ call' = [call EXCEPT ![q] =
                           [NoCall EXCEPT !.op = op, !.lead = l,
                                          !.awb = IF op = "DISPATCH" THEN a ELSE None]]
            /\ sawOrder' = [sawOrder EXCEPT ![q] =
                               [NoOrder EXCEPT !.status = order[l].status]]
            /\ Goto(q, IF op = "DISPATCH" THEN "awb"
                        ELSE IF op \in WriteBackOps THEN "lock" ELSE "move")
        BY <3>5 DEF LoadState
      <4>1. /\ call'[q].op = op /\ call'[q].lead = l
            /\ sawOrder'[q].status = order[l].status /\ pc'[q] # "idle"
            /\ order' = order
        BY <3>5 DEF LoadState, tables, NoCall, NoOrder, Goto, IInv, TypeOK
      <4> QED  BY <4>1 DEF Undated
    <3>6. CASE pc'[q] # "idle" /\ call'[q].op \notin DateRequired
      BY <3>6
    <3> QED  BY <1>2, <3>2, <3>3, <3>4, <3>5, <3>6, AskingLemma
  <2> QED  BY <2>1, <2>2 DEF Asked, IdleAsksNothing, DatedFor
<1> QED  BY <1>1, <1>2 DEF Next

LEMMA AskedInit == Init => Asked
<1> SUFFICES ASSUME Init PROVE Asked
  OBVIOUS
<1>1. IdleAsksNothing /\ DatedFor
  BY DEF Init, IdleAsksNothing, DatedFor, NoCall
<1>2. DaysOnOrders
  BY DEF Init, DaysOnOrders, StartingPair, Ordered, NoOrder
<1> QED  BY <1>1, <1>2 DEF Asked

\* What every step finds and does.
LEMMA Steps == Spec => [](IInv /\ Asked) /\ [][IInv /\ Asked /\ IInv' /\ Next /\ Effect]_vars
<1>1. IInv /\ Asked /\ [Next]_vars => Asked'
  BY AskedStep
<1>2. IInv /\ Asked /\ IInv' /\ [Next]_vars => [IInv /\ Asked /\ IInv' /\ Next /\ Effect]_vars
  BY EffectLemma
<1> QED  BY <1>1, <1>2, AskedInit, Invariance, PTL DEF Spec

-----------------------------------------------------------------------------
(* The action properties. *)

\* The lead of an order is never deleted and never leaves its pipeline, whatever the
\* delete or the pipeline change saw before the lead converted.
THEOREM OrdersKeepTheirLead == Spec => OrderKeepsLead
<1> DEFINE Kept == \A l \in Leads :
                     Ordered(l) => Exists(l)' /\ lead'[l].pipeline = lead[l].pipeline
<1>1. IInv' /\ Effect => Kept
  <2> SUFFICES ASSUME IInv', Effect, NEW l \in Leads, Ordered(l)
               PROVE  Exists(l)' /\ lead'[l].pipeline = lead[l].pipeline
    OBVIOUS
  <2>1. Ordered(l)' /\ lead'[l].pipeline = lead[l].pipeline
    BY DEF Effect, Quiet, tables, Alone, Moved, Edited, LeadWritten, Converted, Ordered,
           MoveOps, Moves
  <2>2. Exists(l)'
    BY <2>1 DEF IInv, LeadFollowsOrder, Exists, Standing, LeadStatus, WON, QCNotApproved
  <2> QED  BY <2>1, <2>2
<1> QED  BY <1>1, Steps, PTL DEF OrderKeepsLead

\* The rows of l change only as the log says, and the log of l names no other change.
Told(l) ==
  /\ lead'[l].status # lead[l].status
       => Event("lead", l, lead[l].status, lead'[l].status) \in logged'
  /\ order'[l].status # order[l].status
       => Event("order", l, order[l].status, order'[l].status) \in logged'
  /\ order'[l].day # order[l].day
       => Event("date", l, order[l].day, order'[l].day) \in logged'
  /\ order'[l].awb # order[l].awb
       => \/ Event("awb", l, order[l].awb, order'[l].awb) \in logged'
          \/ Event("order", l, order[l].status, "DISPATCHED") \in logged'
  /\ (l \in accounts') # (l \in accounts)
       => Event("accounts", l, None, "INITIAL") \in logged'
  /\ \A e \in logged' : e.lead = l =>
       /\ e.of = "lead" => e.before = lead[l].status /\ e.after = lead'[l].status
       /\ e.of = "order" => e.before = order[l].status /\ e.after = order'[l].status
       /\ e.of = "date" => e.before = order[l].day /\ e.after = order'[l].day
       /\ e.of = "awb" => e.before = order[l].awb /\ e.after = order'[l].awb
       /\ e.of = "accounts" => l \notin accounts /\ l \in accounts'

LEMMA EventLemma ==
  ASSUME NEW of, NEW l, NEW b, NEW a
  PROVE  LET e == Event(of, l, b, a)
         IN e.of = of /\ e.lead = l /\ e.before = b /\ e.after = a
  BY DEF Event

LEMMA EffectIsTold ==
  ASSUME Effect, DaysOnOrders, IInv, IInv', NEW l \in Leads
  PROVE  Told(l)
<1>0. /\ l \in accounts <=> order[l].status = "DELIVERED"
      /\ l \in accounts' <=> order'[l].status = "DELIVERED"
  BY DEF IInv, BilledIffDelivered
<1>1. CASE Quiet
  BY <1>1 DEF Quiet, tables, Told
<1>2. ASSUME NEW m \in Leads, m # l, Alone(m), \A e \in logged' : e.lead = m
      PROVE  Told(l)
  BY <1>0, <1>2 DEF Alone, Told
<1>3. ASSUME NEW m \in Leads, Alone(m), NEW op \in MoveOps, Moved(m, op)
      PROVE  Told(l)
  <2>1. \A e \in logged' : e.lead = m
    BY <1>3, EventLemma DEF Moved, Change
  <2>2. CASE m = l
    <3> DEFINE a == IF op \in WriteBackOps THEN WriteBack[op] ELSE lead[l].status
    <3>1. Moves[op].to # order[l].status => order'[l].status # order[l].status
      BY <1>3, <2>2 DEF Moved
    <3>2. \A e \in logged' :
            \/ e = Event("order", l, order[l].status, order'[l].status)
            \/ e = Event("lead", l, lead[l].status, lead'[l].status)
            \/ e = Event("accounts", l, None, "INITIAL")
      BY <1>3, <2>2 DEF Moved, Change
    <3>3. Event("order", l, order[l].status, order'[l].status) \in logged'
      BY <1>3, <2>2 DEF Moved
    <3>4. lead'[l].status # lead[l].status
            => Event("lead", l, lead[l].status, lead'[l].status) \in logged'
      BY <1>3, <2>2 DEF Moved, Change
    <3>5. order'[l].day = order[l].day
      BY <1>3, <2>2 DEF Moved
    <3>6. order'[l].awb # order[l].awb => Moves[op].to = "DISPATCHED"
      BY <1>3, <2>2 DEF Moved, Moves
    <3>7. order'[l].awb # order[l].awb
            => Event("order", l, order[l].status, "DISPATCHED") \in logged'
      BY <1>3, <2>2, <3>6 DEF Moved
    <3>8. order[l].status # "DELIVERED" /\ (order'[l].status = "DELIVERED" <=> op = "DELIVER")
      BY <1>3, <2>2 DEF Moved, MoveOps, Moves
    <3>9. /\ (l \in accounts') # (l \in accounts)
               => Event("accounts", l, None, "INITIAL") \in logged'
          /\ Event("accounts", l, None, "INITIAL") \in logged'
               => l \notin accounts /\ l \in accounts'
      <4>1. l \notin accounts /\ (l \in accounts' <=> op = "DELIVER")
        BY <1>0, <3>8
      <4>2. Event("accounts", l, None, "INITIAL") \in logged' <=> op = "DELIVER"
        BY <1>3, <2>2 DEF Moved, Change, Event
      <4> QED  BY <4>1, <4>2
    <3> QED  BY <3>2, <3>3, <3>4, <3>5, <3>7, <3>9, EventLemma DEF Told
  <2> QED  BY <1>2, <1>3, <2>1, <2>2
<1>4. ASSUME NEW m \in Leads, Alone(m), Edited(m)
      PROVE  Told(l)
  <2>1. \A e \in logged' : e.lead = m
    BY <1>4, EventLemma DEF Edited, Change
  <2>2. CASE m = l
    BY <1>0, <1>4, <2>2, EventLemma DEF Edited, Change, Told
  <2> QED  BY <1>2, <1>4, <2>1, <2>2
<1>5. ASSUME NEW m \in Leads, Alone(m), LeadWritten(m)
      PROVE  Told(l)
  <2>1. \A e \in logged' : e.lead = m
    BY <1>5, EventLemma DEF LeadWritten, Change
  <2>2. CASE m = l
    BY <1>0, <1>5, <2>2, EventLemma DEF LeadWritten, Change, Told
  <2> QED  BY <1>2, <1>5, <2>1, <2>2
<1>6. ASSUME NEW m \in Leads, Alone(m), Converted(m)
      PROVE  Told(l)
  <2>1. \A e \in logged' : e.lead = m
    BY <1>6, EventLemma DEF Converted
  <2>2. CASE m = l
    <3>1. order[l].status = "NONE" /\ order[l].day = None /\ order'[l].status = "INITIAL"
      BY <1>6, <2>2 DEF Converted, DaysOnOrders, Ordered
    <3>2. l \notin accounts /\ l \notin accounts'
      BY <1>0, <3>1
    <3>3. order'[l].awb = order[l].awb
      BY <1>6, <2>2 DEF Converted, DaysOnOrders
    <3> QED  BY <1>6, <2>2, <3>1, <3>2, <3>3, EventLemma DEF Converted, Told
  <2> QED  BY <1>2, <1>6, <2>1, <2>2
<1> QED  BY <1>1, <1>3, <1>4, <1>5, <1>6 DEF Effect

\* The journey tells the truth: a change of a status, of a delivery day, of a tracking
\* number or of the Accounts record is logged with its true before and after, and nothing
\* is logged that did not happen.
THEOREM JourneysTellTheTruth == Spec => JourneyTruthful
<1> DEFINE AllTold == \A l \in Leads : Told(l)
<1>1. IInv /\ Asked /\ IInv' /\ Effect => AllTold
  BY EffectIsTold DEF Asked
<1>2. Spec => [][AllTold]_vars
  BY <1>1, Steps, PTL
<1> QED  BY <1>2 DEF JourneyTruthful, Told

\* Each correction lands while the order is in a status it may be made in.
THEOREM CorrectionsInWindow == Spec => EditsInWindow
<1> DEFINE InWindow ==
      \A r \in Requests :
        LET l == call[r].lead
        IN call[r].op \in EditOps /\ pc'[r] = "idle" /\ order'[l] # order[l]
           => order[l].status \in EditStatuses[call[r].op]
<1>1. IInv /\ Asked => InWindow
  <2> SUFFICES ASSUME IInv, Asked, NEW r \in Requests, call[r].op \in EditOps
               PROVE  order[call[r].lead].status \in EditStatuses[call[r].op]
    OBVIOUS
  <2>1. pc[r] # "idle"
    BY DEF Asked, IdleAsksNothing, EditOps, EditStatuses
  <2> QED  BY <2>1 DEF IInv, ReadsHold
<1> QED  BY <1>1, Steps, PTL DEF EditsInWindow

\* No order passes QC or is dispatched without a delivery day, and a day once set stays.
THEOREM VerifiedOrdersAreDated == Spec => DatedPastQC
<1> DEFINE Dated ==
      \A l \in Leads :
        /\ order[l].day # None => order'[l].day # None
        /\ order'[l].status # order[l].status /\ order'[l].status \in {"QC_VERIFIED", "DISPATCHED"}
             => order[l].day # None
<1>1. Asked /\ Effect => Dated
  <2> SUFFICES ASSUME Asked, Effect, NEW l \in Leads
               PROVE  /\ order[l].day # None => order'[l].day # None
                      /\ order'[l].status # order[l].status
                           /\ order'[l].status \in {"QC_VERIFIED", "DISPATCHED"}
                           => order[l].day # None
    OBVIOUS
  <2>1. order[l].day # None => order'[l].day # None
    BY EffectKeepsDays DEF Asked, DaysKept
  <2>2. order'[l].status # order[l].status /\ order'[l].status \in {"QC_VERIFIED", "DISPATCHED"}
          => order[l].day # None
    BY DEF Effect, Quiet, tables, Alone, Moved, Edited, LeadWritten, Converted,
           MoveOps, Moves, DateRequired
  <2> QED  BY <2>1, <2>2
<1> QED  BY <1>1, Steps, PTL DEF DatedPastQC

\* An order is made only for an active lead that becomes WON, with a delivery day.
THEOREM ConversionsAreSound == Spec => ConversionSound
<1> DEFINE Sound ==
      \A l \in Leads : ~Ordered(l) /\ Ordered(l)'
        => /\ lead'[l].status = WON /\ ~lead'[l].archived
           /\ order'[l].status = "INITIAL" /\ order'[l].day # None
<1>1. Effect => Sound
  BY DEF Effect, Quiet, tables, Alone, Moved, Edited, LeadWritten, Converted, Ordered,
         MoveOps, Moves
<1> QED  BY <1>1, Steps, PTL DEF ConversionSound

\* A QC rejection or a resubmit leaves the lead on a stage of its own pipeline.
THEOREM WriteBacksOnBoard == Spec => WriteBackOnBoard
<1> DEFINE OnBoard ==
      \A l \in Leads : Ordered(l) /\ lead'[l].status # lead[l].status
        => lead'[l].status \in Stages[lead'[l].pipeline]
<1>1. Effect => OnBoard
  BY DEF Effect, Quiet, tables, Alone, Moved, Edited, LeadWritten, Converted
<1> QED  BY <1>1, Steps, PTL DEF WriteBackOnBoard
==============================================================================
