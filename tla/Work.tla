-------------------------------- MODULE Work --------------------------------
(***************************************************************************)
(* The parts the daily work consists of: payment records (Accounts),       *)
(* follow-ups, documents, imports and the assignment of leads.  Each part  *)
(* has the columns it writes to itself, so a behaviour is of one part,     *)
(* chosen at its start, and the others' tables are empty.                  *)
(*                                                                         *)
(* A behaviour of the whole is therefore one of each part's specification, *)
(* and what is proved of a part holds of the whole.  The parts are proved  *)
(* here, one after another.                                                *)
(***************************************************************************)
EXTENDS Accounts, FiniteSetTheorems, SequenceTheorems, TLAPS

CONSTANTS Parts,      \* the parts to explore
          Writers,    \* the requests of follow-ups, of documents and of assignments
          Staff, Agents, OrgWide, Sees, Leads, Activities,            \* follow-ups
          Owners, Admins, Documents, Keys,                            \* documents
          Contacts, Files, Jobs, Forms, Enquiries,                    \* imports
          BatchSize, MaxLeads, MaxChanged, MaxCandidates,
          ByName, NewLeads, Rules                                     \* assignment

VARIABLES part,
          owners, followUp, write,
          document, picture, object, docRequest, deletions, stray,
          leads, job, run, newLead, disturbed,
          active, loggedIn, config, rule, created, rows, assigning, passed

followUpVars == <<owners, followUp, write>>
documentVars == <<document, picture, object, docRequest, deletions, stray>>
importVars   == <<leads, job, run, newLead, disturbed>>
rotationVars == <<active, loggedIn, config, rule, created, rows, assigning, passed>>
allVars == <<part, vars, followUpVars, documentVars, importVars, rotationVars>>

F == INSTANCE FollowUps WITH Users <- Staff, Requests <- Writers
D == INSTANCE Documents WITH Users <- Owners, Requests <- Writers, request <- docRequest
I == INSTANCE Imports WITH form <- newLead
R == INSTANCE Rotation WITH Leads <- NewLeads, Requests <- Writers, request <- assigning

ASSUME WorkConstants ==
  /\ F!Roles /\ F!NoneIsNoRow /\ D!NoneIsNoRow
  /\ I!Sizes /\ I!Inputs /\ I!NoneIsNoRow
  /\ R!Sizes /\ R!NoneIsNothing

WorkInit ==
  /\ part \in Parts
  /\ Init
  /\ F!Init /\ (part # "followUps" => owners = [l \in Leads |-> {}])
  /\ D!Init /\ I!Init
  /\ R!Init /\ (part # "rotation" => rule = [x \in Rules |-> None])

WorkNext ==
  \/ /\ part = "accounts" /\ Next
     /\ UNCHANGED <<part, followUpVars, documentVars, importVars, rotationVars>>
  \/ /\ part = "followUps" /\ F!Next
     /\ UNCHANGED <<part, vars, documentVars, importVars, rotationVars>>
  \/ /\ part = "documents" /\ D!Next
     /\ UNCHANGED <<part, vars, followUpVars, importVars, rotationVars>>
  \/ /\ part = "imports" /\ I!Next
     /\ UNCHANGED <<part, vars, followUpVars, documentVars, rotationVars>>
  \/ /\ part = "rotation" /\ R!Next
     /\ UNCHANGED <<part, vars, followUpVars, documentVars, importVars>>

WorkSpec == WorkInit /\ [][WorkNext]_allVars

-----------------------------------------------------------------------------
(* What the parts keep, as they state it; Accounts' own properties are checked as they are. *)

\* Follow-ups are well-formed, an open one's agents have its lead, and none is left
\* without an assignee.
FollowUpsSound == part = "followUps" => F!FollowUpsSound

\* A worklist never holds a follow-up whose lead its owner cannot open.
NoneOutOfSight == part = "followUps" => F!NoneOutOfSight

\* Every picture that is shown has its bytes, and no bytes are left behind by a request that
\* succeeded or undid itself.
DocumentsSound == part = "documents" => D!DocumentsSound

\* A settled import job counts and reports exactly what was written of its file.
ReportMatchesTable == part = "imports" => I!ReportMatchesTable

\* A lead that shares a contact with an earlier one its lookup could see is recorded as a
\* duplicate, of an original of an earlier batch whenever it was chosen among one, and was
\* previewed as it was judged - with the exceptions that Imports states.
DuplicatesLinked ==
  part = "imports" => I!TypeOK /\ I!SharedIsLinked /\ I!StarWhenMatched /\ I!PreviewHolds

\* The first completion of a follow-up stands and a lead's new owner takes over the departing
\* owner's open ones; a deleted document is gone with its bytes and recorded as deleted once.
WorkKept == F!FirstCompletionStands /\ F!NewOwnerTakesOver /\ D!GoneWithBytes

\* The round robin passes nobody over as often as twice per request that can be under way; an
\* assignee who stays keeps the Assigned Date, and a removed rule stays removed.
RotationKept ==
  /\ [](part = "rotation" => R!TypeOK /\ R!InTurn)
  /\ R!DateKept /\ R!RemovedStays

-----------------------------------------------------------------------------
(***************************************************************************)
(* Payment records, for any orders, any number of changes in flight and    *)
(* journeys of any length.  A change commits on what it decided before, so *)
(* its decision is part of the invariant: every call in flight goes where  *)
(* its kind may go from the status it expects.  The conditional update     *)
(* then makes that status the current one at the moment of the change.     *)
(***************************************************************************)

\* A call in flight is for an order with a record, and its kind of change allows it.
CallsAllowed ==
  \A r \in Requests :
    call[r] # None => /\ record[call[r].order] # None
                      /\ call[r].target \in Targets(call[r].kind, call[r].expected)

IInv == TypeOK /\ CallsAllowed /\ JourneyConnected /\ BackwardIsCorrection

\* The changes of a kind end in a status; a move never leaves PAYMENT_RECEIVED
\* or ends in INITIAL.
LEMMA TargetsLemma ==
  ASSUME NEW kind \in {"move", "correct"}, NEW from \in PaymentStatus,
         NEW to \in Targets(kind, from)
  PROVE  /\ to \in PaymentStatus
         /\ kind = "move" => from # "PAYMENT_RECEIVED" /\ to # "INITIAL"
BY DEF Targets, PaymentMoves, CorrectionTargets, PaymentStatus

LEMMA InitLemma == Init => IInv
<1> SUFFICES ASSUME Init PROVE IInv
  OBVIOUS
<1>1. TypeOK
  BY DEF Init, TypeOK
<1>2. CallsAllowed
  BY DEF Init, CallsAllowed
<1>3. JourneyConnected /\ BackwardIsCorrection
  BY DEF Init, JourneyConnected, BackwardIsCorrection
<1> QED
  BY <1>1, <1>2, <1>3 DEF IInv

\* What one event appended to the journey of one order does to the two history
\* properties, when it continues from that order's status.
LEMMA AppendLemma ==
  ASSUME IInv,
         NEW o \in Orders, NEW e \in Event,
         e.before = record[o],
         record' = [record EXCEPT ![o] = e.after],
         journey' = [journey EXCEPT ![o] = Append(@, e)],
         \/ record[o] = None
         \/ e.action = "PAYMENT_STATUS_CORRECTED"
         \/ e.before # "PAYMENT_RECEIVED" /\ e.after # "INITIAL"
  PROVE  /\ record' \in [Orders -> PaymentStatus \cup {None}]
         /\ journey' \in [Orders -> Seq(Event)]
         /\ JourneyConnected'
         /\ BackwardIsCorrection'
<1> USE DEF IInv, TypeOK
<1>1. e.after \in PaymentStatus
  BY DEF Event
<1>2. e.after # None
  BY <1>1, NoneIsNoStatus
<1>3. record' \in [Orders -> PaymentStatus \cup {None}]
  BY <1>1
<1>4. journey[o] \in Seq(Event) /\ journey'[o] = Append(journey[o], e)
  OBVIOUS
<1>5. journey' \in [Orders -> Seq(Event)]
  BY <1>4
<1>6. \A q \in Orders \ {o} : record'[q] = record[q] /\ journey'[q] = journey[q]
  OBVIOUS
<1>7. /\ Len(journey'[o]) = Len(journey[o]) + 1
      /\ journey'[o][Len(journey[o]) + 1] = e
      /\ \A i \in 1..Len(journey[o]) : journey'[o][i] = journey[o][i]
      /\ journey'[o] # <<>>
  <2> DEFINE before == journey[o]
             after == journey'[o]
  <2>1. before \in Seq(Event) /\ after = Append(before, e)
    BY <1>4
  <2> HIDE DEF IInv, TypeOK, before, after
  <2>2. /\ Len(after) = Len(before) + 1 /\ after[Len(before) + 1] = e
        /\ \A i \in 1..Len(before) : after[i] = before[i]
        /\ after # <<>>
    BY <2>1
  <2> QED BY <2>2 DEF before, after
<1>8. journey[o] = <<>> <=> Len(journey[o]) = 0
  BY <1>4
<1>9. JourneyConnected'
  <2> SUFFICES ASSUME NEW q \in Orders
               PROVE  /\ record'[q] = None <=> journey'[q] = <<>>
                      /\ \A i \in 1..Len(journey'[q]) :
                           journey'[q][i].before =
                             (IF i = 1 THEN None ELSE journey'[q][i - 1].after)
                      /\ journey'[q] # <<>> => Last(journey'[q]).after = record'[q]
    BY DEF JourneyConnected
  <2>1. CASE q # o
    BY <2>1, <1>6 DEF JourneyConnected
  <2>2. CASE q = o
    <3>1. record'[o] = e.after
      OBVIOUS
    <3>2. Last(journey'[o]) = e
      BY <1>7 DEF Last
    <3>3. ASSUME NEW i \in 1..Len(journey'[o])
          PROVE  journey'[o][i].before =
                   (IF i = 1 THEN None ELSE journey'[o][i - 1].after)
      <4>1. CASE i = Len(journey[o]) + 1 /\ i = 1
        BY <4>1, <1>4, <1>7, <1>8 DEF JourneyConnected
      <4>2. CASE i = Len(journey[o]) + 1 /\ i # 1
        <5>1. journey[o] # <<>> /\ Last(journey[o]).after = record[o]
          BY <4>2, <1>4, <1>8 DEF JourneyConnected
        <5>2. journey'[o][i - 1] = Last(journey[o])
          BY <4>2, <1>4, <1>7 DEF Last
        <5> QED
          BY <4>2, <5>1, <5>2, <1>7
      <4>3. CASE i # Len(journey[o]) + 1
        <5>1. i \in 1..Len(journey[o]) /\ (i # 1 => i - 1 \in 1..Len(journey[o]))
          BY <4>3, <1>4, <1>7
        <5> QED
          BY <5>1, <1>7 DEF JourneyConnected
      <4> QED
        BY <4>1, <4>2, <4>3
    <3> QED
      BY <2>2, <3>1, <3>2, <3>3, <1>2, <1>7
  <2> QED
    BY <2>1, <2>2
<1>10. BackwardIsCorrection'
  <2> SUFFICES ASSUME NEW q \in Orders, NEW i \in 2..Len(journey'[q])
               PROVE  \/ journey'[q][i].action = "PAYMENT_STATUS_CORRECTED"
                      \/ /\ journey'[q][i].before # "PAYMENT_RECEIVED"
                         /\ journey'[q][i].after # "INITIAL"
    BY DEF BackwardIsCorrection
  <2>1. CASE q # o
    BY <2>1, <1>6 DEF BackwardIsCorrection
  <2>2. CASE q = o /\ i = Len(journey[o]) + 1
    <3>1. record[o] # None
      BY <2>2, <1>4, <1>8 DEF JourneyConnected
    <3> QED
      BY <2>2, <3>1, <1>7
  <2>3. CASE q = o /\ i # Len(journey[o]) + 1
    <3>1. i \in 2..Len(journey[o]) /\ i \in 1..Len(journey[o])
      BY <2>3, <1>4, <1>7
    <3> QED
      BY <2>3, <3>1, <1>7 DEF BackwardIsCorrection
  <2> QED
    BY <2>1, <2>2, <2>3
<1> QED
  BY <1>3, <1>5, <1>9, <1>10

LEMMA StepLemma == IInv /\ [Next]_vars => IInv'
<1> SUFFICES ASSUME IInv, [Next]_vars PROVE IInv'
  OBVIOUS
<1> USE DEF IInv
<1>1. ASSUME NEW o \in Orders, Open(o) PROVE IInv'
  <2> DEFINE e == [action |-> "ACCOUNTS_CREATED", before |-> None, after |-> "INITIAL"]
  <2>1. e \in Event
    BY DEF Event, Actions, PaymentStatus
  <2>2. /\ record[o] = None
        /\ record' = [record EXCEPT ![o] = e.after]
        /\ journey' = [journey EXCEPT ![o] = Append(@, e)]
        /\ call' = call
    BY <1>1 DEF Open, Recorded
  <2>3. e.before = record[o]
    BY <2>2
  <2> HIDE DEF e
  <2>4. /\ record' \in [Orders -> PaymentStatus \cup {None}]
        /\ journey' \in [Orders -> Seq(Event)]
        /\ JourneyConnected' /\ BackwardIsCorrection'
    BY <2>1, <2>2, <2>3, AppendLemma
  <2>5. CallsAllowed'
    <3> SUFFICES ASSUME NEW r \in Requests, call[r] # None
                 PROVE  /\ record'[call[r].order] # None
                        /\ call[r].target \in Targets(call[r].kind, call[r].expected)
      BY <2>2 DEF CallsAllowed
    <3>1. call[r].order # o /\ call[r].order \in Orders
      BY <2>2 DEF CallsAllowed, TypeOK, Change
    <3> QED
      BY <3>1, <2>2 DEF CallsAllowed, TypeOK
  <2> QED
    BY <2>2, <2>4, <2>5 DEF TypeOK
<1>2. ASSUME NEW r \in Requests, Begin(r) PROVE IInv'
  <2> USE <1>2
  <2> PICK c \in Change : /\ record[c.order] = c.expected
                          /\ c.target \in Targets(c.kind, c.expected)
                          /\ call' = [call EXCEPT ![r] = c]
    BY DEF Begin
  <2>1. record' = record /\ journey' = journey
    BY DEF Begin
  <2>2. TypeOK'
    BY <2>1 DEF TypeOK
  <2>3. CallsAllowed'
    <3>1. record[c.order] # None
      BY NoneIsNoStatus DEF Change
    <3> QED
      BY <2>1, <3>1 DEF CallsAllowed, TypeOK
  <2>4. JourneyConnected' /\ BackwardIsCorrection'
    BY <2>1 DEF JourneyConnected, BackwardIsCorrection
  <2> QED
    BY <2>2, <2>3, <2>4
<1>3. ASSUME NEW r \in Requests, Commit(r) PROVE IInv'
  <2> DEFINE c == call[r]
             e == [action |-> ActionOf(c), before |-> c.expected, after |-> c.target]
  <2>1. /\ c # None /\ record[c.order] = c.expected
        /\ record' = [record EXCEPT ![c.order] = c.target]
        /\ journey' = [journey EXCEPT ![c.order] = Append(@, e)]
        /\ call' = [call EXCEPT ![r] = None]
    BY <1>3 DEF Commit, StillExpected, Recorded
  <2>2. c \in Change
    BY <2>1 DEF TypeOK
  <2>3. c.order \in Orders /\ c.kind \in {"move", "correct"} /\ c.expected \in PaymentStatus
    BY <2>2 DEF Change
  <2>4. c.target \in Targets(c.kind, c.expected)
    BY <2>1 DEF CallsAllowed
  <2>5. /\ c.target \in PaymentStatus
        /\ c.kind = "move" => c.expected # "PAYMENT_RECEIVED" /\ c.target # "INITIAL"
    BY <2>3, <2>4, TargetsLemma
  <2>6. e \in Event
    BY <2>3, <2>5 DEF Event, Actions, ActionOf
  <2>7. \/ e.action = "PAYMENT_STATUS_CORRECTED"
        \/ e.before # "PAYMENT_RECEIVED" /\ e.after # "INITIAL"
    BY <2>3, <2>5 DEF ActionOf
  <2>8. e.before = record[c.order] /\ e.after = c.target
    BY <2>1
  <2>9. c.target # None
    BY <2>5, NoneIsNoStatus
  <2> HIDE DEF e
  <2>10. /\ record' \in [Orders -> PaymentStatus \cup {None}]
         /\ journey' \in [Orders -> Seq(Event)]
         /\ JourneyConnected' /\ BackwardIsCorrection'
    BY <2>1, <2>3, <2>6, <2>7, <2>8, AppendLemma
  <2>11. CallsAllowed'
    <3> SUFFICES ASSUME NEW q \in Requests, call'[q] # None
                 PROVE  /\ record'[call'[q].order] # None
                        /\ call'[q].target \in Targets(call'[q].kind, call'[q].expected)
      BY DEF CallsAllowed
    <3>1. call'[q] = call[q]
      BY <2>1 DEF TypeOK
    <3> QED
      BY <3>1, <2>1, <2>3, <2>9 DEF CallsAllowed, TypeOK, Change
  <2>12. call' \in [Requests -> Change \cup {None}]
    BY <2>1 DEF TypeOK
  <2> QED
    BY <2>10, <2>11, <2>12 DEF TypeOK
<1>4. ASSUME NEW r \in Requests, Refused(r) PROVE IInv'
  <2>1. /\ record' = record /\ journey' = journey
        /\ call' = [call EXCEPT ![r] = None]
    BY <1>4 DEF Refused
  <2>2. TypeOK'
    BY <2>1 DEF TypeOK
  <2>3. CallsAllowed'
    BY <2>1 DEF CallsAllowed, TypeOK
  <2>4. JourneyConnected' /\ BackwardIsCorrection'
    BY <2>1 DEF JourneyConnected, BackwardIsCorrection
  <2> QED
    BY <2>2, <2>3, <2>4
<1>5. CASE UNCHANGED vars
  BY <1>5 DEF vars, TypeOK, CallsAllowed, JourneyConnected, BackwardIsCorrection
<1> QED
  BY <1>1, <1>2, <1>3, <1>4, <1>5 DEF Next

LEMMA Invariance == Spec => []IInv
BY InitLemma, StepLemma, PTL DEF Spec

\* Every column keeps its type.
THEOREM TypeCorrect == Spec => []TypeOK
BY Invariance, PTL DEF IInv

\* The journey of an order never has a gap, and ends in the status of its record:
\* the conditional update of AccountsRecordsService.change.
THEOREM HistoryKept == Spec => []JourneyConnected
BY Invariance, PTL DEF IInv

\* Only a correction, which carries a reason, unsays a received payment or goes back
\* to INITIAL.
THEOREM CorrectionsAlone == Spec => []BackwardIsCorrection
BY Invariance, PTL DEF IInv

\* A record changes only along what its current status allows that kind of change.
LEMMA CurrentLemma ==
  IInv /\ [Next]_vars =>
    [\A o \in Orders :
       record[o] # None /\ record'[o] # record[o] =>
         record'[o] \in Targets(IF Last(journey'[o]).action = "PAYMENT_STATUS_CHANGED"
                                THEN "move" ELSE "correct", record[o])]_vars
<1> SUFFICES ASSUME IInv, Next, NEW o \in Orders, record[o] # None, record'[o] # record[o]
             PROVE  record'[o] \in
                      Targets(IF Last(journey'[o]).action = "PAYMENT_STATUS_CHANGED"
                              THEN "move" ELSE "correct", record[o])
  OBVIOUS
<1>1. ASSUME NEW q \in Orders, Open(q) PROVE FALSE
  BY <1>1 DEF Open, IInv, TypeOK
<1>2. PICK r \in Requests : Commit(r)
  BY <1>1 DEF Next, Begin, Refused
<1> DEFINE c == call[r]
<1>3. /\ c # None /\ record[c.order] = c.expected
      /\ record' = [record EXCEPT ![c.order] = c.target]
      /\ journey' = [journey EXCEPT ![c.order] =
                       Append(@, [action |-> ActionOf(c), before |-> c.expected,
                                  after |-> c.target])]
  BY <1>2 DEF Commit, StillExpected, Recorded
<1>4. c.order = o
  BY <1>3 DEF IInv, TypeOK
<1>5. c \in Change /\ c.target \in Targets(c.kind, c.expected)
  BY <1>3 DEF IInv, TypeOK, CallsAllowed
<1>6. record'[o] = c.target /\ record[o] = c.expected
  BY <1>3, <1>4 DEF IInv, TypeOK
<1>7. Last(journey'[o]).action = ActionOf(c)
  <2>1. journey[o] \in Seq(Event)
    BY DEF IInv, TypeOK
  <2>2. journey'[o] = Append(journey[o], [action |-> ActionOf(c), before |-> c.expected,
                                          after |-> c.target])
    BY <1>3, <1>4 DEF IInv, TypeOK
  <2> QED
    BY <2>1, <2>2 DEF Last
<1>8. c.kind = (IF ActionOf(c) = "PAYMENT_STATUS_CHANGED" THEN "move" ELSE "correct")
  BY <1>5 DEF ActionOf, Change
<1> QED
  BY <1>5, <1>6, <1>7, <1>8

\* Of two changes decided on the same status, one at most is made from it.
THEOREM CurrentAllowed == Spec => ChangesFromCurrent
BY Invariance, CurrentLemma, PTL DEF Spec, ChangesFromCurrent

-----------------------------------------------------------------------------
(***************************************************************************)
(* Follow-ups, for any members, leads, follow-ups and requests: an open    *)
(* follow-up's agents have its lead, nobody's work is dropped, and a       *)
(* lead's new owner takes over what the old one had.  The invariant says   *)
(* what a write still knows of the rows its checks read, and that two      *)
(* hand-overs under way are of two leads.                                  *)
(***************************************************************************)

\* A write past its checks: nobody overtook it, or its lead was handed over since.
Placed(w) ==
  /\ w.step \in {"create", "update"} /\ ~w.late => w.users \cap Agents \subseteq owners[w.lead]
  /\ w.step \in {"update", "complete", "delete"} => w.activity \in F!Rows
  /\ w.step = "update" => followUp[w.activity].lead = w.lead
  /\ w.step \in {"reassign", "handOver"} => w.users # {}

WritesPlaced == \A r \in Writers : write[r] # None => Placed(write[r])

\* Two hand-overs in their transactions hold two leads.
OneHolder ==
  \A q, r \in Writers :
    F!At(q, "handOver") /\ F!At(r, "handOver") /\ write[q].lead = write[r].lead => q = r

Meets(r, f) == followUp[f].assignees \cap F!Departing(r) # {}

\* The rows a hand-over has read are still those it should move, edited ones excepted.
Reads(r) ==
  /\ write[r].moving \subseteq {f \in F!Rows : followUp[f].lead = write[r].lead}
  /\ \A f \in F!Rows :
       F!Open(f) /\ followUp[f].lead = write[r].lead /\ ~followUp[f].late =>
         (f \in write[r].rows <=> Meets(r, f)) /\ (f \in write[r].moving <=> Meets(r, f))

HoldersRead == \A r \in Writers : F!At(r, "handOver") => Reads(r)

FollowUpIInv == F!FollowUpsSound /\ WritesPlaced /\ OneHolder /\ HoldersRead

-----------------------------------------------------------------------------
(* A request that starts. *)

\* It has passed the checks of its kind, on what it read.
Starts(r, w) ==
  /\ write[r] = None
  /\ write' = [write EXCEPT ![r] = w]
  /\ UNCHANGED <<owners, followUp>>
  /\ w \in F!Write /\ w.step # "handOver" /\ ~w.late
  /\ w.step \in {"create", "update"} => w.users # {}
  /\ Placed(w)

\* An agent opens the leads assigned to him and no others.
LEMMA AssignableAgents ==
  ASSUME F!Roles, NEW A \in SUBSET Staff, NEW l \in Leads, F!Assignable(A, l)
  PROVE  A \cap Agents \subseteq owners[l]
BY DEF F!Roles, F!Assignable, F!CanOpen

LEMMA StartedTyped ==
  ASSUME NEW s \in {"create", "update", "complete", "delete", "reassign", "handOver"},
         NEW l \in Leads, NEW U \in SUBSET Staff, NEW f \in Activities
  PROVE  /\ [F!Started(s, l) EXCEPT !.activity = f] \in F!Write
         /\ [F!Started(s, l) EXCEPT !.activity = f, !.users = U] \in F!Write
BY DEF F!Started, F!Write

LEMMA RowTyped ==
  ASSUME F!TypeOK, NEW f \in F!Rows
  PROVE  followUp[f] \in F!FollowUp /\ f \in Activities
BY DEF F!TypeOK, F!Rows

\* Every check ends in a start.
LEMMA ChecksStart ==
  ASSUME F!Roles, F!NoneIsNoRow, FollowUpIInv, NEW r \in Writers, NEW u \in Staff
  PROVE  /\ \A l \in Leads, A \in SUBSET Staff : F!CheckCreate(r, u, l, A) => \E w : Starts(r, w)
         /\ \A f \in Activities : F!CheckDuplicate(r, u, f) => \E w : Starts(r, w)
         /\ \A f \in Activities, A \in SUBSET Staff :
              F!CheckUpdate(r, u, f, A) => \E w : Starts(r, w)
         /\ \A f \in Activities : F!CheckComplete(r, u, f) => \E w : Starts(r, w)
         /\ \A f \in Activities : F!CheckDelete(r, u, f) => \E w : Starts(r, w)
         /\ \A l \in Leads, to \in Staff : F!CheckReassign(r, u, l, to) => \E w : Starts(r, w)
<1>0. F!TypeOK /\ F!SomebodyOnIt
  BY DEF FollowUpIInv, F!FollowUpsSound
<1>1. ASSUME NEW l \in Leads, NEW A \in SUBSET Staff, F!CheckCreate(r, u, l, A)
      PROVE  \E w : Starts(r, w)
  <2> DEFINE U == F!WithSelf(A, u)
             w == [F!Started("create", l) EXCEPT !.users = U]
  <2>1. U \in SUBSET Staff /\ U # {}
    BY <1>1 DEF F!CheckCreate, F!SomebodyNamed, F!WithSelf
  <2>2. U \cap Agents \subseteq owners[l]
    BY <1>1, <2>1, AssignableAgents DEF F!CheckCreate
  <2>3. w \in F!Write
    BY <2>1 DEF F!Started, F!Write
  <2>4. w.step = "create" /\ w.users = U /\ w.lead = l /\ w.late = FALSE
    BY DEF F!Started
  <2>5. Starts(r, w)
    BY <1>1, <2>1, <2>2, <2>3, <2>4 DEF F!CheckCreate, Starts, Placed
  <2> QED BY <2>5
<1>2. ASSUME NEW f \in Activities, F!CheckDuplicate(r, u, f)
      PROVE  \E w : Starts(r, w)
  <2> DEFINE U == followUp[f].assignees
             l == followUp[f].lead
             w == [F!Started("create", l) EXCEPT !.users = U]
  <2>1. f \in F!Rows /\ U \in SUBSET Staff /\ U # {} /\ l \in Leads
    BY <1>0, <1>2, RowTyped DEF F!CheckDuplicate, F!SomebodyOnIt, F!FollowUp
  <2>2. U \cap Agents \subseteq owners[l]
    BY <1>2, <2>1, AssignableAgents DEF F!CheckDuplicate
  <2>3. w \in F!Write
    BY <2>1 DEF F!Started, F!Write
  <2>4. w.step = "create" /\ w.users = U /\ w.lead = l /\ w.late = FALSE
    BY DEF F!Started
  <2>5. Starts(r, w)
    BY <1>2, <2>1, <2>2, <2>3, <2>4 DEF F!CheckDuplicate, Starts, Placed
  <2> QED BY <2>5
<1>3. ASSUME NEW f \in Activities, NEW A \in SUBSET Staff, F!CheckUpdate(r, u, f, A)
      PROVE  \E w : Starts(r, w)
  <2> DEFINE U == F!WithSelf(A, u)
             l == followUp[f].lead
             w == [F!Started("update", l) EXCEPT !.activity = f, !.users = U]
  <2>1. f \in F!Rows /\ U \in SUBSET Staff /\ U # {} /\ l \in Leads
    BY <1>0, <1>3, RowTyped DEF F!CheckUpdate, F!SomebodyNamed, F!WithSelf, F!FollowUp
  <2>2. U \cap Agents \subseteq owners[l]
    BY <1>3, <2>1, AssignableAgents DEF F!CheckUpdate
  <2>3. w \in F!Write
    BY <2>1, StartedTyped
  <2>4. w.step = "update" /\ w.users = U /\ w.lead = l /\ w.late = FALSE /\ w.activity = f
    BY DEF F!Started
  <2>5. Starts(r, w)
    BY <1>3, <2>1, <2>2, <2>3, <2>4 DEF F!CheckUpdate, Starts, Placed
  <2> QED BY <2>5
<1>4. ASSUME NEW f \in Activities, F!CheckComplete(r, u, f)
      PROVE  \E w : Starts(r, w)
  <2> DEFINE w == [F!Started("complete", followUp[f].lead) EXCEPT !.activity = f]
  <2>1. f \in F!Rows /\ followUp[f].lead \in Leads
    BY <1>0, <1>4, RowTyped DEF F!CheckComplete, F!FollowUp
  <2>2. w \in F!Write
    BY <2>1, StartedTyped
  <2>3. w.step = "complete" /\ w.late = FALSE /\ w.activity = f
    BY DEF F!Started
  <2>4. Starts(r, w)
    BY <1>4, <2>1, <2>2, <2>3 DEF F!CheckComplete, Starts, Placed
  <2> QED BY <2>4
<1>5. ASSUME NEW f \in Activities, F!CheckDelete(r, u, f)
      PROVE  \E w : Starts(r, w)
  <2> DEFINE w == [F!Started("delete", followUp[f].lead) EXCEPT !.activity = f]
  <2>1. f \in F!Rows /\ followUp[f].lead \in Leads
    BY <1>0, <1>5, RowTyped DEF F!CheckDelete, F!FollowUp
  <2>2. w \in F!Write
    BY <2>1, StartedTyped
  <2>3. w.step = "delete" /\ w.late = FALSE /\ w.activity = f
    BY DEF F!Started
  <2>4. Starts(r, w)
    BY <1>5, <2>1, <2>2, <2>3 DEF F!CheckDelete, Starts, Placed
  <2> QED BY <2>4
<1>6. ASSUME NEW l \in Leads, NEW to \in Staff, F!CheckReassign(r, u, l, to)
      PROVE  \E w : Starts(r, w)
  <2> DEFINE w == [F!Started("reassign", l) EXCEPT !.users = {to}]
  <2>1. w \in F!Write
    BY DEF F!Started, F!Write
  <2>2. w.step = "reassign" /\ w.late = FALSE /\ w.users = {to}
    BY DEF F!Started
  <2>3. Starts(r, w)
    BY <1>6, <2>1, <2>2 DEF F!CheckReassign, Starts, Placed
  <2> QED BY <2>3
<1> QED BY <1>1, <1>2, <1>3, <1>4, <1>5, <1>6

-----------------------------------------------------------------------------
(* The steps that keep the invariant. *)

LEMMA WriteTyped ==
  ASSUME F!TypeOK, NEW r \in Writers, write[r] # None
  PROVE  write[r] \in F!Write
BY DEF F!TypeOK

LEMMA StartKeeps ==
  ASSUME F!NoneIsNoRow, FollowUpIInv, NEW r \in Writers, NEW w, Starts(r, w)
  PROVE  FollowUpIInv'
<1>1. /\ \A q \in Writers : write'[q] = IF q = r THEN w ELSE write[q]
      /\ w # None /\ w \in F!Write /\ w.step # "handOver"
  BY DEF FollowUpIInv, F!FollowUpsSound, F!TypeOK, Starts, F!NoneIsNoRow
<1>2. owners' = owners /\ followUp' = followUp
  BY DEF Starts
<1>3. F!TypeOK'
  BY <1>1, <1>2 DEF FollowUpIInv, F!FollowUpsSound, F!TypeOK, Starts
<1>4. F!OnOwnLeads' /\ F!SomebodyOnIt'
  BY <1>2 DEF FollowUpIInv, F!FollowUpsSound, F!OnOwnLeads, F!SomebodyOnIt, F!Rows, F!Open
<1>5. WritesPlaced'
  BY <1>1, <1>2 DEF FollowUpIInv, WritesPlaced, Placed, F!Rows, Starts
<1>6. OneHolder'
  BY <1>1 DEF FollowUpIInv, OneHolder, F!At
<1>7. HoldersRead'
  BY <1>1, <1>2 DEF FollowUpIInv, HoldersRead, Reads, Meets, F!Departing, F!At, F!Rows, F!Open
<1> QED BY <1>3, <1>4, <1>5, <1>6, <1>7 DEF FollowUpIInv, F!FollowUpsSound

LEMMA FollowUpFailKeeps ==
  ASSUME F!NoneIsNoRow, FollowUpIInv, NEW r \in Writers, F!Fail(r)
  PROVE  FollowUpIInv'
<1>1. \A q \in Writers : write'[q] = IF q = r THEN None ELSE write[q]
  BY DEF FollowUpIInv, F!FollowUpsSound, F!TypeOK, F!Fail, F!Done
<1>2. owners' = owners /\ followUp' = followUp
  BY DEF F!Fail
<1>3. F!TypeOK'
  BY <1>1, <1>2 DEF FollowUpIInv, F!FollowUpsSound, F!TypeOK, F!Fail, F!Done
<1>4. F!OnOwnLeads' /\ F!SomebodyOnIt'
  BY <1>2 DEF FollowUpIInv, F!FollowUpsSound, F!OnOwnLeads, F!SomebodyOnIt, F!Rows, F!Open
<1>5. WritesPlaced'
  BY <1>1, <1>2 DEF FollowUpIInv, WritesPlaced, Placed, F!Rows
<1>6. OneHolder'
  BY <1>1 DEF FollowUpIInv, OneHolder, F!At
<1>7. HoldersRead'
  BY <1>1, <1>2 DEF FollowUpIInv, HoldersRead, Reads, Meets, F!Departing, F!At, F!Rows, F!Open
<1> QED BY <1>3, <1>4, <1>5, <1>6, <1>7 DEF FollowUpIInv, F!FollowUpsSound

\* A lead that is held gets no new follow-up.
LEMMA FollowUpCreateKeeps ==
  ASSUME F!NoneIsNoRow, FollowUpIInv, NEW r \in Writers, NEW f \in Activities, F!Create(r, f)
  PROVE  FollowUpIInv'
<1> DEFINE new == [lead |-> write[r].lead, assignees |-> write[r].users,
                   completedBy |-> None, deleted |-> FALSE, late |-> write[r].late]
<1>1. /\ write[r] # None /\ write[r] \in F!Write /\ write[r].step = "create"
      /\ write[r].users # {}
  BY WriteTyped DEF FollowUpIInv, F!FollowUpsSound, F!TypeOK, F!Create, F!At
<1>2. new \in F!FollowUp /\ new # None
  <2>1. new \in F!FollowUp
    BY <1>1 DEF F!Write, F!FollowUp
  <2> QED BY <2>1, Zenon DEF F!NoneIsNoRow
<1>3. /\ \A q \in Writers : write'[q] = IF q = r THEN None ELSE write[q]
      /\ \A g \in Activities : followUp'[g] = IF g = f THEN new ELSE followUp[g]
      /\ owners' = owners
      /\ followUp[f] = None
  BY DEF FollowUpIInv, F!FollowUpsSound, F!TypeOK, F!Create, F!Done
<1>4. F!TypeOK'
  BY <1>2, <1>3 DEF FollowUpIInv, F!FollowUpsSound, F!TypeOK, F!Create, F!Done
<1>5. F!OnOwnLeads'
  <2>1. write[r].late \/ write[r].users \cap Agents \subseteq owners[write[r].lead]
    BY <1>1 DEF FollowUpIInv, WritesPlaced, Placed
  <2> QED BY <1>3, <2>1 DEF FollowUpIInv, F!FollowUpsSound, F!OnOwnLeads, F!Rows, F!Open
<1>6. F!SomebodyOnIt'
  BY <1>1, <1>3 DEF FollowUpIInv, F!FollowUpsSound, F!SomebodyOnIt, F!Rows
<1>7. WritesPlaced'
  BY <1>2, <1>3 DEF FollowUpIInv, WritesPlaced, Placed, F!Rows
<1>8. OneHolder'
  BY <1>3 DEF FollowUpIInv, OneHolder, F!At
<1>9. HoldersRead'
  <2> SUFFICES ASSUME NEW q \in Writers, F!At(q, "handOver")'
               PROVE  Reads(q)'
    BY DEF HoldersRead
  <2>1. /\ q # r /\ write'[q] = write[q] /\ Reads(q)
        /\ write[q].lead # write[r].lead
    BY <1>3 DEF F!At, FollowUpIInv, HoldersRead, F!Create, F!Held
  <2>2. F!Departing(q)' = F!Departing(q)
    BY <1>3, <2>1 DEF F!Departing
  <2>3. \A g \in F!Rows : g # f /\ g \in Activities /\ followUp'[g] = followUp[g]
    BY <1>3 DEF F!Rows
  <2>4. \A g \in F!Rows' : g = f \/ g \in F!Rows
    BY <1>3 DEF F!Rows
  <2>5. F!Rows \subseteq F!Rows'
    BY <2>3 DEF F!Rows
  <2>6. write'[q].moving \subseteq {g \in F!Rows' : followUp'[g].lead = write'[q].lead}
    BY <2>1, <2>3, <2>5 DEF Reads
  <2>7. ASSUME NEW g \in F!Rows', F!Open(g)', followUp'[g].lead = write'[q].lead,
               ~followUp'[g].late
        PROVE  (g \in write'[q].rows <=> Meets(q, g)')
                 /\ (g \in write'[q].moving <=> Meets(q, g)')
    <3>1. g # f
      BY <1>3, <2>1, <2>7
    <3>2. g \in F!Rows /\ F!Open(g)
      BY <2>3, <2>4, <2>7, <3>1 DEF F!Open
    <3> QED BY <2>1, <2>2, <2>3, <2>7, <3>2 DEF Reads, Meets
  <2> QED BY <2>6, <2>7 DEF Reads
<1> QED BY <1>4, <1>5, <1>6, <1>7, <1>8, <1>9 DEF FollowUpIInv, F!FollowUpsSound

\* The row an edit, a completion or a deletion writes keeps its lead.
LEMMA WrittenRow ==
  ASSUME FollowUpIInv, NEW r \in Writers, write[r] # None,
         write[r].step \in {"update", "complete", "delete"}
  PROVE  /\ write[r] \in F!Write /\ write[r].activity \in F!Rows
         /\ write[r].activity \in Activities
         /\ followUp[write[r].activity] \in F!FollowUp
<1>1. write[r] \in F!Write /\ write[r].activity \in F!Rows
  BY WriteTyped DEF FollowUpIInv, F!FollowUpsSound, WritesPlaced, Placed
<1> QED BY <1>1, RowTyped DEF FollowUpIInv, F!FollowUpsSound

\* An edit that meets a hand-over makes its row late, and the hand-over forgets it.
LEMMA FollowUpUpdateKeeps ==
  ASSUME F!NoneIsNoRow, FollowUpIInv, NEW r \in Writers, F!Update(r)
  PROVE  FollowUpIInv'
<1> DEFINE f == write[r].activity
           new == [followUp[f] EXCEPT !.assignees = write[r].users,
                                      !.late = write[r].late \/ F!Held(followUp[f].lead)]
           left(q) == IF F!At(q, "handOver") THEN [write[q] EXCEPT !.rows = @ \ {f}]
                                           ELSE write[q]
<1>1. /\ write[r] # None /\ write[r] \in F!Write /\ write[r].step = "update"
      /\ write[r].users # {} /\ f \in F!Rows /\ f \in Activities
      /\ followUp[f] \in F!FollowUp /\ followUp[f].lead = write[r].lead
  BY WrittenRow DEF FollowUpIInv, F!FollowUpsSound, F!TypeOK, F!Update, F!At, WritesPlaced, Placed
<1>2. new \in F!FollowUp /\ new # None
  <2>1. new \in F!FollowUp
    BY <1>1 DEF F!Write, F!FollowUp, F!Held
  <2> QED BY <2>1, Zenon DEF F!NoneIsNoRow
<1>3. /\ \A q \in Writers : write'[q] = IF q = r THEN None ELSE left(q)
      /\ \A g \in Activities : followUp'[g] = IF g = f THEN new ELSE followUp[g]
      /\ owners' = owners
  BY DEF FollowUpIInv, F!FollowUpsSound, F!TypeOK, F!Update, F!Forgotten
<1>4. \A q \in Writers : write[q] # None =>
        /\ left(q) \in F!Write /\ left(q) # None
        /\ left(q).step = write[q].step /\ left(q).lead = write[q].lead
        /\ left(q).activity = write[q].activity /\ left(q).users = write[q].users
        /\ left(q).moving = write[q].moving /\ left(q).late = write[q].late
        /\ left(q).step = "handOver" => left(q).rows = write[q].rows \ {f}
  <2> SUFFICES ASSUME NEW q \in Writers, write[q] # None
               PROVE  /\ left(q) \in F!Write /\ left(q) # None
                      /\ left(q).step = write[q].step /\ left(q).lead = write[q].lead
                      /\ left(q).activity = write[q].activity /\ left(q).users = write[q].users
                      /\ left(q).moving = write[q].moving /\ left(q).late = write[q].late
                      /\ left(q).step = "handOver" => left(q).rows = write[q].rows \ {f}
    OBVIOUS
  <2>1. write[q] \in F!Write
    BY WriteTyped DEF FollowUpIInv, F!FollowUpsSound
  <2>2. left(q) \in F!Write
    BY <2>1 DEF F!Write
  <2>3. left(q) # None
    BY <2>2, Zenon DEF F!NoneIsNoRow
  <2> QED BY <2>1, <2>2, <2>3 DEF F!At, F!Write
<1>5. new.lead = followUp[f].lead /\ new.assignees = write[r].users
      /\ (new.completedBy = followUp[f].completedBy) /\ new.deleted = followUp[f].deleted
      /\ (new.late <=> write[r].late \/ F!Held(followUp[f].lead))
  BY <1>1 DEF F!FollowUp
<1> HIDE DEF new, left
<1>6. F!Rows' = F!Rows
  BY <1>1, <1>2, <1>3 DEF F!Rows
<1>7. F!TypeOK'
  <2>1. followUp' \in [Activities -> F!FollowUp \cup {None}]
    BY <1>2 DEF F!Update, new, FollowUpIInv, F!FollowUpsSound, F!TypeOK
  <2>2. \A q \in Writers : write'[q] \in F!Write \cup {None}
    BY <1>3, <1>4 DEF left, F!At
  <2>3. write' \in [Writers -> F!Write \cup {None}]
    BY <2>2 DEF F!Update, F!Forgotten
  <2>4. \A q \in Writers : write'[q] # None /\ write'[q].step \in {"create", "update"}
                               => write'[q].users # {}
    BY <1>3, <1>4 DEF left, F!At, FollowUpIInv, F!FollowUpsSound, F!TypeOK
  <2> QED BY <1>3, <2>1, <2>3, <2>4 DEF FollowUpIInv, F!FollowUpsSound, F!TypeOK
<1>8. F!OnOwnLeads'
  <2>1. write[r].late \/ write[r].users \cap Agents \subseteq owners[write[r].lead]
    BY <1>1 DEF FollowUpIInv, WritesPlaced, Placed
  <2> QED BY <1>1, <1>3, <1>5, <1>6, <2>1
          DEF FollowUpIInv, F!FollowUpsSound, F!OnOwnLeads, F!Rows, F!Open
<1>9. F!SomebodyOnIt'
  BY <1>1, <1>3, <1>5, <1>6 DEF FollowUpIInv, F!FollowUpsSound, F!SomebodyOnIt, F!Rows
<1>10. \A g \in F!Rows : g \in Activities /\ followUp'[g].lead = followUp[g].lead
  BY <1>3, <1>5 DEF F!Rows
<1>11. WritesPlaced'
  <2> SUFFICES ASSUME NEW q \in Writers, write'[q] # None
               PROVE  Placed(write[q])'
    BY DEF WritesPlaced
  <2>1. q # r /\ write'[q] = left(q) /\ write[q] # None /\ Placed(write[q])
    BY <1>3 DEF left, F!At, FollowUpIInv, WritesPlaced
  <2> QED BY <1>3, <1>4, <1>6, <1>10, <2>1 DEF Placed
<1>12. OneHolder'
  <2>1. \A q \in Writers :
          F!At(q, "handOver")' => F!At(q, "handOver") /\ write'[q].lead = write[q].lead
    BY <1>3, <1>4 DEF F!At, left
  <2> QED BY <2>1 DEF FollowUpIInv, OneHolder
<1>13. HoldersRead'
  <2> SUFFICES ASSUME NEW q \in Writers, F!At(q, "handOver")'
               PROVE  Reads(q)'
    BY DEF HoldersRead
  <2>1. /\ q # r /\ write'[q] = left(q) /\ write[q] # None /\ F!At(q, "handOver")
    BY <1>3, <1>4 DEF F!At, left
  <2>2. /\ write'[q].lead = write[q].lead /\ write'[q].users = write[q].users
        /\ write'[q].moving = write[q].moving /\ write'[q].rows = write[q].rows \ {f}
        /\ F!Departing(q)' = F!Departing(q) /\ Reads(q)
    BY <1>3, <1>4, <2>1 DEF F!At, F!Departing, FollowUpIInv, HoldersRead
  <2>3. ASSUME NEW g \in F!Rows, F!Open(g)', followUp'[g].lead = write[q].lead,
               ~followUp'[g].late
        PROVE  g # f /\ followUp'[g] = followUp[g] /\ F!Open(g)
    <3>1. g # f
      BY <1>3, <1>5, <1>10, <2>1, <2>3 DEF F!Held
    <3> QED BY <1>3, <1>10, <2>3, <3>1 DEF F!Open
  <2>4. ASSUME NEW g \in F!Rows, F!Open(g)', followUp'[g].lead = write[q].lead,
               ~followUp'[g].late
        PROVE  (g \in write'[q].rows <=> Meets(q, g)')
               /\ (g \in write'[q].moving <=> Meets(q, g)')
    BY <2>2, <2>3, <2>4 DEF Reads, Meets
  <2> QED BY <1>6, <1>10, <2>2, <2>4 DEF Reads
<1> QED BY <1>7, <1>8, <1>9, <1>11, <1>12, <1>13 DEF FollowUpIInv, F!FollowUpsSound

\* A completion or deletion closes its row and changes nothing else of it.
Closes(r) ==
  LET f == write[r].activity
  IN /\ write[r] # None /\ write[r].step \in {"complete", "delete"}
     /\ \A q \in Writers : write'[q] = IF q = r THEN None ELSE write[q]
     /\ F!Done(r)
     /\ followUp' \in [Activities -> F!FollowUp \cup {None}]
     /\ \A g \in Activities : g # f => followUp'[g] = followUp[g]
     /\ f \in F!Rows /\ f \in F!Rows'
     /\ followUp'[f].lead = followUp[f].lead
     /\ followUp'[f].assignees = followUp[f].assignees
     /\ followUp'[f].late = followUp[f].late
     /\ \A g \in F!Rows : F!Open(g)' => F!Open(g)
     /\ UNCHANGED owners

LEMMA CompleteCloses ==
  ASSUME F!NoneIsNoRow, FollowUpIInv, NEW r \in Writers, F!Complete(r)
  PROVE  Closes(r)
<1> DEFINE f == write[r].activity
           new == [followUp[f] EXCEPT !.completedBy = F!CompletedBy(f, r)]
<1>1. /\ write[r] # None /\ write[r].step = "complete" /\ f \in F!Rows /\ f \in Activities
      /\ followUp[f] \in F!FollowUp
  BY WrittenRow DEF F!Complete, F!At
<1>2. new \in F!FollowUp
  BY <1>1 DEF F!FollowUp, F!CompletedBy
<1>3. new # None
  BY <1>2, Zenon DEF F!NoneIsNoRow
<1>4. /\ \A q \in Writers : write'[q] = IF q = r THEN None ELSE write[q]
      /\ \A g \in Activities : followUp'[g] = IF g = f THEN new ELSE followUp[g]
      /\ owners' = owners
  BY DEF FollowUpIInv, F!FollowUpsSound, F!TypeOK, F!Complete, F!Done
<1>5. followUp' \in [Activities -> F!FollowUp \cup {None}]
  BY <1>2 DEF F!Complete, new, FollowUpIInv, F!FollowUpsSound, F!TypeOK
<1>6. new.lead = followUp[f].lead /\ new.assignees = followUp[f].assignees
      /\ (new.late = followUp[f].late) /\ new.deleted = followUp[f].deleted
      /\ (new.completedBy = None => followUp[f].completedBy = None)
  BY <1>1, <1>2 DEF F!FollowUp, F!CompletedBy, F!NoneIsNoRow
<1> HIDE DEF new
<1>7. f \in F!Rows'
  BY <1>1, <1>3, <1>4 DEF F!Rows
<1>8. \A g \in F!Rows : F!Open(g)' => F!Open(g)
  BY <1>1, <1>4, <1>6, <1>7 DEF F!Open, F!Rows
<1> QED BY <1>1, <1>4, <1>5, <1>6, <1>7, <1>8 DEF Closes, F!Complete

LEMMA DeleteCloses ==
  ASSUME F!NoneIsNoRow, FollowUpIInv, NEW r \in Writers, F!Delete(r)
  PROVE  Closes(r)
<1> DEFINE f == write[r].activity
           new == [followUp[f] EXCEPT !.deleted = TRUE]
<1>1. /\ write[r] # None /\ write[r].step = "delete" /\ f \in F!Rows /\ f \in Activities
      /\ followUp[f] \in F!FollowUp
  BY WrittenRow DEF F!Delete, F!At
<1>2. new \in F!FollowUp
  BY <1>1 DEF F!FollowUp
<1>3. new # None
  BY <1>2, Zenon DEF F!NoneIsNoRow
<1>4. /\ \A q \in Writers : write'[q] = IF q = r THEN None ELSE write[q]
      /\ \A g \in Activities : followUp'[g] = IF g = f THEN new ELSE followUp[g]
      /\ owners' = owners
  BY DEF FollowUpIInv, F!FollowUpsSound, F!TypeOK, F!Delete, F!Done
<1>5. followUp' \in [Activities -> F!FollowUp \cup {None}]
  BY <1>2 DEF F!Delete, new, FollowUpIInv, F!FollowUpsSound, F!TypeOK
<1>6. new.lead = followUp[f].lead /\ new.assignees = followUp[f].assignees
      /\ (new.late = followUp[f].late) /\ new.deleted
  BY <1>1, <1>2 DEF F!FollowUp
<1> HIDE DEF new
<1>7. f \in F!Rows'
  BY <1>1, <1>3, <1>4 DEF F!Rows
<1>8. \A g \in F!Rows : F!Open(g)' => F!Open(g)
  BY <1>1, <1>4, <1>6 DEF F!Open, F!Rows
<1> QED BY <1>1, <1>4, <1>5, <1>6, <1>7, <1>8 DEF Closes, F!Delete

LEMMA ClosesKeeps ==
  ASSUME FollowUpIInv, NEW r \in Writers, Closes(r)
  PROVE  FollowUpIInv'
<1> DEFINE f == write[r].activity
<1>1. /\ F!Rows' = F!Rows /\ owners' = owners
      /\ \A q \in Writers : write'[q] = IF q = r THEN None ELSE write[q]
      /\ \A g \in F!Rows : /\ g \in Activities
                           /\ F!Open(g)' => F!Open(g)
                           /\ followUp'[g].lead = followUp[g].lead
                           /\ followUp'[g].assignees = followUp[g].assignees
                           /\ followUp'[g].late = followUp[g].late
  BY DEF Closes, F!Rows, F!Open
<1>2. F!TypeOK'
  BY <1>1 DEF FollowUpIInv, F!FollowUpsSound, F!TypeOK, Closes, F!Done
<1>3. F!OnOwnLeads' /\ F!SomebodyOnIt'
  BY <1>1 DEF FollowUpIInv, F!FollowUpsSound, F!OnOwnLeads, F!SomebodyOnIt, F!Open
<1>4. WritesPlaced'
  <2> SUFFICES ASSUME NEW q \in Writers, write'[q] # None
               PROVE  Placed(write[q])'
    BY DEF WritesPlaced
  <2>1. q # r /\ write'[q] = write[q] /\ write[q] # None /\ Placed(write[q])
    BY <1>1 DEF FollowUpIInv, WritesPlaced
  <2> QED BY <1>1, <2>1 DEF Placed
<1>5. OneHolder'
  BY <1>1 DEF FollowUpIInv, OneHolder, F!At
<1>6. HoldersRead'
  <2> SUFFICES ASSUME NEW q \in Writers, F!At(q, "handOver")'
               PROVE  Reads(q)'
    BY DEF HoldersRead
  <2>1. write'[q] = write[q] /\ F!Departing(q)' = F!Departing(q) /\ Reads(q)
    BY <1>1 DEF F!At, F!Departing, FollowUpIInv, HoldersRead
  <2> QED BY <1>1, <2>1 DEF Reads, Meets, F!Open
<1> QED BY <1>2, <1>3, <1>4, <1>5, <1>6 DEF FollowUpIInv, F!FollowUpsSound

\* The lead is nobody's yet, and what is read is what there is.
LEMMA TakeLeadKeeps ==
  ASSUME F!NoneIsNoRow, FollowUpIInv, NEW r \in Writers, F!TakeLead(r)
  PROVE  FollowUpIInv'
<1> DEFINE new == [write[r] EXCEPT !.step = "handOver", !.rows = F!Moving(r),
                                   !.moving = F!Moving(r)]
<1>1. /\ write[r] # None /\ write[r] \in F!Write /\ write[r].step = "reassign"
      /\ write[r].users # {}
  BY WriteTyped DEF FollowUpIInv, F!FollowUpsSound, F!TakeLead, F!At, WritesPlaced, Placed
<1>2. F!Moving(r) \in SUBSET Activities
  BY DEF F!Moving, F!Rows
<1>3. new \in F!Write
  BY <1>1, <1>2 DEF F!Write
<1>4. new # None
  BY <1>3, Zenon DEF F!NoneIsNoRow
<1>5. /\ new.step = "handOver" /\ new.lead = write[r].lead /\ new.users = write[r].users
      /\ new.rows = F!Moving(r) /\ new.moving = F!Moving(r)
  BY <1>1 DEF F!Write
<1>6. /\ \A q \in Writers : write'[q] = IF q = r THEN new ELSE write[q]
      /\ owners' = owners /\ followUp' = followUp
  BY DEF FollowUpIInv, F!FollowUpsSound, F!TypeOK, F!TakeLead
<1>7. write' \in [Writers -> F!Write \cup {None}]
  BY <1>3 DEF F!TakeLead, new, FollowUpIInv, F!FollowUpsSound, F!TypeOK
<1> HIDE DEF new
<1>8. F!TypeOK'
  BY <1>5, <1>6, <1>7 DEF FollowUpIInv, F!FollowUpsSound, F!TypeOK
<1>9. F!OnOwnLeads' /\ F!SomebodyOnIt'
  BY <1>6 DEF FollowUpIInv, F!FollowUpsSound, F!OnOwnLeads, F!SomebodyOnIt, F!Rows, F!Open
<1>10. WritesPlaced'
  BY <1>1, <1>5, <1>6 DEF FollowUpIInv, WritesPlaced, Placed, F!Rows
<1>11. OneHolder'
  BY <1>5, <1>6 DEF FollowUpIInv, OneHolder, F!At, F!TakeLead, F!Held
<1>12. HoldersRead'
  <2> SUFFICES ASSUME NEW q \in Writers, F!At(q, "handOver")'
               PROVE  Reads(q)'
    BY DEF HoldersRead
  <2>1. CASE q = r
    <3>1. write'[r] = new /\ F!Departing(r)' = F!Departing(r)
      BY <1>5, <1>6 DEF F!Departing
    <3> QED BY <1>5, <1>6, <2>1, <3>1 DEF Reads, Meets, F!Moving, F!Rows, F!Open
  <2>2. CASE q # r
    BY <1>6, <2>2 DEF FollowUpIInv, HoldersRead, Reads, Meets, F!Departing, F!At, F!Rows, F!Open
  <2> QED BY <2>1, <2>2
<1> QED BY <1>8, <1>9, <1>10, <1>11, <1>12 DEF FollowUpIInv, F!FollowUpsSound

\* What a hand-over writes, of the rows and of the other requests.
HandsOver(r) ==
  /\ write[r] # None /\ write[r] \in F!Write /\ write[r].step = "handOver" /\ Reads(r)
  /\ \A q \in Writers :
       /\ q = r => write'[q] = None
       /\ q # r /\ write[q] = None => write'[q] = None
       /\ q # r /\ write[q] # None =>
            /\ write'[q] \in F!Write /\ write'[q] # None
            /\ write'[q].step = write[q].step /\ write'[q].lead = write[q].lead
            /\ write'[q].activity = write[q].activity
            /\ write'[q].users = write[q].users /\ write'[q].rows = write[q].rows
            /\ write'[q].moving = write[q].moving
            /\ write[q].lead = write[r].lead => write'[q].late = TRUE
            /\ write[q].lead # write[r].lead => write'[q].late = write[q].late
  /\ F!Rows' = F!Rows
  /\ \A f \in F!Rows :
       /\ followUp'[f] \in F!FollowUp
       /\ F!Open(f)' <=> F!Open(f)
       /\ followUp'[f].lead = followUp[f].lead /\ followUp'[f].late = followUp[f].late
       /\ followUp'[f].completedBy = followUp[f].completedBy
       /\ followUp'[f].assignees = IF f \in write[r].moving THEN F!HandedOver(r, f)
                                                           ELSE followUp[f].assignees
  /\ \A l \in Leads : owners'[l] = IF l = write[r].lead THEN write[r].users ELSE owners[l]

LEMMA HandOverWrites ==
  ASSUME F!NoneIsNoRow, FollowUpIInv, NEW r \in Writers, F!HandOver(r)
  PROVE  HandsOver(r)
<1>1. write[r] # None /\ write[r] \in F!Write /\ write[r].step = "handOver" /\ Reads(r)
  BY WriteTyped DEF F!HandOver, F!At, FollowUpIInv, F!FollowUpsSound, HoldersRead
<1>2. ASSUME NEW q \in Writers, q # r, write[q] # None
      PROVE  /\ write'[q] \in F!Write /\ write'[q] # None
             /\ write'[q].step = write[q].step /\ write'[q].lead = write[q].lead
             /\ write'[q].activity = write[q].activity
             /\ write'[q].users = write[q].users /\ write'[q].rows = write[q].rows
             /\ write'[q].moving = write[q].moving
             /\ write[q].lead = write[r].lead => write'[q].late = TRUE
             /\ write[q].lead # write[r].lead => write'[q].late = write[q].late
  <2>1. write[q] \in F!Write
    BY <1>2, WriteTyped DEF FollowUpIInv, F!FollowUpsSound
  <2>2. write'[q] = IF write[q].lead = write[r].lead THEN [write[q] EXCEPT !.late = TRUE]
                                                     ELSE write[q]
    BY <1>2 DEF F!HandOver
  <2>3. write'[q] \in F!Write
    BY <2>1, <2>2 DEF F!Write
  <2>4. write'[q] # None
    BY <2>3, Zenon DEF F!NoneIsNoRow
  <2> QED BY <2>1, <2>2, <2>3, <2>4 DEF F!Write
<1>3. \A q \in Writers : (q = r => write'[q] = None)
                         /\ (q # r /\ write[q] = None => write'[q] = None)
  BY DEF F!HandOver
<1>4. ASSUME NEW f \in F!Rows
      PROVE  /\ followUp'[f] \in F!FollowUp /\ f \in F!Rows'
             /\ followUp'[f].lead = followUp[f].lead /\ followUp'[f].late = followUp[f].late
             /\ followUp'[f].completedBy = followUp[f].completedBy
             /\ followUp'[f].deleted = followUp[f].deleted
             /\ followUp'[f].assignees = IF f \in write[r].moving THEN F!HandedOver(r, f)
                                                                 ELSE followUp[f].assignees
  <2>1. followUp[f] \in F!FollowUp /\ f \in Activities
    BY RowTyped DEF FollowUpIInv, F!FollowUpsSound
  <2>2. F!HandedOver(r, f) \in SUBSET Staff
    BY <1>1, <2>1 DEF F!HandedOver, F!Write, F!FollowUp
  <2>3. followUp'[f] = IF f \in write[r].moving
                       THEN [followUp[f] EXCEPT !.assignees = F!HandedOver(r, f)]
                       ELSE followUp[f]
    BY <2>1 DEF F!HandOver
  <2>4. followUp'[f] \in F!FollowUp
    BY <2>1, <2>2, <2>3 DEF F!FollowUp
  <2>5. followUp'[f] # None
    BY <2>4, Zenon DEF F!NoneIsNoRow
  <2> QED BY <2>1, <2>2, <2>3, <2>4, <2>5 DEF F!FollowUp, F!Rows
<1>5. F!Rows' = F!Rows
  <2>1. \A f \in Activities : followUp[f] = None => followUp'[f] = None
    BY <1>1 DEF F!HandOver, Reads, F!Rows
  <2> QED BY <1>4, <2>1 DEF F!Rows
<1>6. \A f \in F!Rows : F!Open(f)' <=> F!Open(f)
  BY <1>4, <1>5 DEF F!Open
<1>7. \A l \in Leads : owners'[l] = IF l = write[r].lead THEN write[r].users ELSE owners[l]
  BY DEF F!HandOver, FollowUpIInv, F!FollowUpsSound, F!TypeOK
<1> QED BY <1>1, <1>2, <1>3, <1>4, <1>5, <1>6, <1>7 DEF HandsOver

\* The rows it read are the ones its departing owners were on, so they all change hands;
\* the writes that checked the lead before are late from here on.
LEMMA HandOverKeeps ==
  ASSUME F!NoneIsNoRow, FollowUpIInv, NEW r \in Writers, F!HandOver(r)
  PROVE  FollowUpIInv'
<1> DEFINE l == write[r].lead
<1>0. HandsOver(r)
  BY HandOverWrites
<1> USE <1>0 DEF HandsOver
<1>1. F!TypeOK'
  <2>1. owners' \in [Leads -> SUBSET Staff]
    BY DEF F!HandOver, F!Write, FollowUpIInv, F!FollowUpsSound, F!TypeOK
  <2>2. write' \in [Writers -> F!Write \cup {None}]
    <3>1. \A q \in Writers : write'[q] \in F!Write \cup {None}
      OBVIOUS
    <3> QED BY <3>1 DEF F!HandOver
  <2>3. followUp' \in [Activities -> F!FollowUp \cup {None}]
    <3>1. \A f \in Activities : followUp'[f] \in F!FollowUp \cup {None}
      BY DEF F!Rows
    <3> QED BY <3>1 DEF F!HandOver
  <2>4. \A q \in Writers : write'[q] # None /\ write'[q].step \in {"create", "update"}
                               => write'[q].users # {}
    BY DEF FollowUpIInv, F!FollowUpsSound, F!TypeOK
  <2> QED BY <2>1, <2>2, <2>3, <2>4 DEF F!TypeOK
<1>2. write[r].users # {} /\ l \in Leads
  BY DEF FollowUpIInv, WritesPlaced, Placed, F!Write
<1>3. ASSUME NEW f \in F!Rows, F!Open(f), ~followUp[f].late
      PROVE  followUp'[f].assignees \cap Agents \subseteq owners'[followUp[f].lead]
  <2>1. followUp[f].assignees \cap Agents \subseteq owners[followUp[f].lead]
        /\ followUp[f].lead \in Leads
    BY <1>3, RowTyped DEF FollowUpIInv, F!FollowUpsSound, F!OnOwnLeads, F!FollowUp
  <2>2. CASE followUp[f].lead = l
    <3>1. (f \in write[r].rows <=> Meets(r, f)) /\ (f \in write[r].moving <=> Meets(r, f))
      BY <1>3, <2>2 DEF Reads
    <3> QED BY <2>1, <2>2, <3>1 DEF Meets, F!HandedOver, F!Departing
  <2>3. CASE followUp[f].lead # l
    <3>1. f \notin write[r].moving
      BY <2>3 DEF Reads
    <3> QED BY <2>1, <2>3, <3>1
  <2> QED BY <2>2, <2>3
<1>4. F!OnOwnLeads'
  BY <1>3 DEF F!OnOwnLeads, F!Open
<1>5. F!SomebodyOnIt'
  BY <1>2 DEF FollowUpIInv, F!FollowUpsSound, F!SomebodyOnIt, F!HandedOver
<1>6. WritesPlaced'
  <2> SUFFICES ASSUME NEW q \in Writers, write'[q] # None
               PROVE  Placed(write[q])'
    BY DEF WritesPlaced
  <2>1. q # r /\ write[q] # None /\ Placed(write[q]) /\ write[q].lead \in Leads
    BY WriteTyped DEF FollowUpIInv, F!FollowUpsSound, WritesPlaced, F!Write
  <2> QED BY <2>1 DEF Placed
<1>7. \A q \in Writers : F!At(q, "handOver")' =>
        q # r /\ F!At(q, "handOver") /\ write[q].lead # l
  BY DEF F!At, FollowUpIInv, OneHolder
<1>8. OneHolder'
  BY <1>7 DEF FollowUpIInv, OneHolder, F!At
<1>9. HoldersRead'
  <2> SUFFICES ASSUME NEW q \in Writers, F!At(q, "handOver")'
               PROVE  Reads(q)'
    BY DEF HoldersRead
  <2>1. q # r /\ F!At(q, "handOver") /\ write[q] # None /\ write[q].lead # l /\ Reads(q)
    BY <1>7 DEF F!At, FollowUpIInv, HoldersRead
  <2>2. F!Departing(q)' = F!Departing(q)
    BY <2>1, WriteTyped DEF F!Departing, FollowUpIInv, F!FollowUpsSound, F!Write
  <2>3. \A f \in F!Rows : followUp[f].lead = write[q].lead =>
                           followUp'[f].assignees = followUp[f].assignees
    BY <2>1 DEF Reads
  <2> QED BY <2>1, <2>2, <2>3 DEF Reads, Meets, F!Open
<1> QED BY <1>1, <1>4, <1>5, <1>6, <1>8, <1>9 DEF FollowUpIInv, F!FollowUpsSound

-----------------------------------------------------------------------------
(* The invariant, and what follows from it. *)

LEMMA FollowUpInitIInv ==
  ASSUME F!Roles, F!NoneIsNoRow, F!Init
  PROVE  FollowUpIInv
<1>1. F!Rows = {} /\ \A r \in Writers : write[r] = None
  BY DEF F!Init, F!Rows
<1>2. F!TypeOK
  BY <1>1 DEF F!Init, F!TypeOK, F!Roles
<1> QED BY <1>1, <1>2
        DEF FollowUpIInv, F!FollowUpsSound, F!OnOwnLeads, F!SomebodyOnIt, WritesPlaced,
                          OneHolder, HoldersRead, F!At

\* Every step is one of those above, or stutters.
LEMMA StepCases ==
  ASSUME F!Roles, F!NoneIsNoRow, FollowUpIInv, F!Next
  PROVE  \E r \in Writers :
           \/ \E w : Starts(r, w)
           \/ \E f \in Activities : F!Create(r, f)
           \/ F!Update(r) \/ F!Complete(r) \/ F!Delete(r) \/ F!TakeLead(r) \/ F!HandOver(r)
           \/ F!Fail(r)
BY ChecksStart DEF F!Next

LEMMA FollowUpNextIInv ==
  ASSUME F!Roles, F!NoneIsNoRow, FollowUpIInv, [F!Next]_(F!vars)
  PROVE  FollowUpIInv'
<1>1. CASE F!Next
  <2>1. PICK r \in Writers :
           \/ \E w : Starts(r, w)
           \/ \E f \in Activities : F!Create(r, f)
           \/ F!Update(r) \/ F!Complete(r) \/ F!Delete(r) \/ F!TakeLead(r) \/ F!HandOver(r)
           \/ F!Fail(r)
    BY <1>1, StepCases
  <2>2. CASE \E w : Starts(r, w)
    BY <2>2, StartKeeps
  <2>3. CASE \E f \in Activities : F!Create(r, f)
    BY <2>3, FollowUpCreateKeeps
  <2>4. CASE F!Update(r)
    BY <2>4, FollowUpUpdateKeeps
  <2>5. CASE F!Complete(r) \/ F!Delete(r)
    BY <2>5, CompleteCloses, DeleteCloses, ClosesKeeps
  <2>6. CASE F!TakeLead(r)
    BY <2>6, TakeLeadKeeps
  <2>7. CASE F!HandOver(r)
    BY <2>7, HandOverKeeps
  <2>8. CASE F!Fail(r)
    BY <2>8, FollowUpFailKeeps
  <2> QED BY <2>1, <2>2, <2>3, <2>4, <2>5, <2>6, <2>7, <2>8
<1>2. CASE UNCHANGED F!vars
  BY <1>2
  DEF F!vars, FollowUpIInv, F!FollowUpsSound, F!TypeOK, F!OnOwnLeads, F!SomebodyOnIt,
      WritesPlaced, Placed,
              OneHolder, HoldersRead, Reads, Meets, F!Departing, F!At, F!Rows, F!Open
<1> QED BY <1>1, <1>2

\* Whatever the edits, completions, deletions and hand-overs in flight, an open follow-up's
\* agents have its lead, and every follow-up has somebody on it.
THEOREM FollowUpRowsSound ==
  ASSUME F!Roles, F!NoneIsNoRow
  PROVE  F!Spec => []F!FollowUpsSound
<1>1. F!Init => FollowUpIInv
  BY FollowUpInitIInv
<1>2. FollowUpIInv /\ [F!Next]_(F!vars) => FollowUpIInv'
  BY FollowUpNextIInv
<1>3. FollowUpIInv => F!FollowUpsSound
  BY DEF FollowUpIInv
<1> QED BY <1>1, <1>2, <1>3, PTL DEF F!Spec

-----------------------------------------------------------------------------
(* What a step may not do. *)

LEMMA StepKeepsCompletion ==
  ASSUME F!Roles, F!NoneIsNoRow, FollowUpIInv, [F!Next]_(F!vars), NEW f \in F!Rows,
         followUp[f].completedBy # None
  PROVE  followUp'[f].completedBy = followUp[f].completedBy
<1>0. f \in Activities /\ followUp[f] \in F!FollowUp
  BY RowTyped DEF FollowUpIInv, F!FollowUpsSound
<1>1. CASE F!Next
  <2>1. PICK r \in Writers :
           \/ \E w : Starts(r, w)
           \/ \E g \in Activities : F!Create(r, g)
           \/ F!Update(r) \/ F!Complete(r) \/ F!Delete(r) \/ F!TakeLead(r) \/ F!HandOver(r)
           \/ F!Fail(r)
    BY <1>1, StepCases
  <2>2. CASE (\E w : Starts(r, w)) \/ F!TakeLead(r) \/ F!Fail(r)
    BY <2>2 DEF Starts, F!TakeLead, F!Fail
  <2>3. CASE \E g \in Activities : F!Create(r, g)
    BY <2>3, <1>0 DEF F!Create, F!Rows
  <2>4. CASE F!Update(r)
    BY <2>4, <1>0 DEF F!Update, F!FollowUp, FollowUpIInv, F!FollowUpsSound, F!TypeOK
  <2>5. CASE F!Complete(r)
    BY <2>5, <1>0
    DEF F!Complete, F!CompletedBy, F!FollowUp, FollowUpIInv, F!FollowUpsSound, F!TypeOK
  <2>6. CASE F!Delete(r)
    BY <2>6, <1>0 DEF F!Delete, F!FollowUp, FollowUpIInv, F!FollowUpsSound, F!TypeOK
  <2>7. CASE F!HandOver(r)
    BY <2>7, HandOverWrites DEF HandsOver
  <2> QED BY <2>1, <2>2, <2>3, <2>4, <2>5, <2>6, <2>7
<1>2. CASE UNCHANGED F!vars
  BY <1>2 DEF F!vars
<1> QED BY <1>1, <1>2

\* A completion is never undone, whatever else was in flight when it was written.
THEOREM CompletionsStand ==
  ASSUME F!Roles, F!NoneIsNoRow
  PROVE  F!Spec => F!FirstCompletionStands
<1>1. F!Init => FollowUpIInv
  BY FollowUpInitIInv
<1>2. FollowUpIInv /\ [F!Next]_(F!vars) => FollowUpIInv'
  BY FollowUpNextIInv
<1> DEFINE Stands == \A f \in F!Rows : followUp[f].completedBy # None =>
                       followUp'[f].completedBy = followUp[f].completedBy
<1>3. FollowUpIInv /\ [F!Next]_(F!vars) => [Stands]_(F!vars)
  BY StepKeepsCompletion
<1> QED BY <1>1, <1>2, <1>3, PTL DEF F!Spec, F!FirstCompletionStands

\* A lead's assignments are changed only by the hand-over that holds it.
LEMMA OwnersChangeHands ==
  ASSUME F!Roles, F!NoneIsNoRow, FollowUpIInv, [F!Next]_(F!vars), NEW r \in Writers, F!At(r,
         "handOver"),
         owners'[write[r].lead] # owners[write[r].lead]
  PROVE  F!HandOver(r)
<1>0. write[r] # None /\ write[r].lead \in Leads
  BY WriteTyped DEF F!At, FollowUpIInv, F!FollowUpsSound, F!Write
<1>1. F!Next
  BY DEF F!vars
<1>2. PICK q \in Writers :
           \/ \E w : Starts(q, w)
           \/ \E g \in Activities : F!Create(q, g)
           \/ F!Update(q) \/ F!Complete(q) \/ F!Delete(q) \/ F!TakeLead(q) \/ F!HandOver(q)
           \/ F!Fail(q)
  BY <1>1, StepCases
<1>3. F!HandOver(q)
  BY <1>2 DEF Starts, F!Create, F!Update, F!Complete, F!Delete, F!TakeLead, F!Fail
<1>4. write[q].lead = write[r].lead
  BY <1>0, <1>3 DEF F!HandOver, FollowUpIInv, F!FollowUpsSound, F!TypeOK
<1>5. q = r
  BY <1>3, <1>4 DEF F!HandOver, FollowUpIInv, OneHolder
<1> QED BY <1>3, <1>5

\* The new owner is put on every open follow-up the departing one was on, and those who
\* stay are left on it, unless an edit came between.
THEOREM OwnersTakeOver ==
  ASSUME F!Roles, F!NoneIsNoRow
  PROVE  F!Spec => F!NewOwnerTakesOver
<1>1. F!Init => FollowUpIInv
  BY FollowUpInitIInv
<1>2. FollowUpIInv /\ [F!Next]_(F!vars) => FollowUpIInv'
  BY FollowUpNextIInv
<1> DEFINE Takes ==
  \A r \in Writers, f \in F!Rows :
    LET l == followUp[f].lead
    IN /\ F!At(r, "handOver") /\ write[r].lead = l /\ owners'[l] # owners[l]
       /\ F!Open(f) /\ ~followUp[f].late
       /\ followUp[f].assignees \cap F!Departing(r) # {}
       => followUp'[f].assignees = (followUp[f].assignees \ F!Departing(r)) \cup write[r].users
<1>3. FollowUpIInv /\ [F!Next]_(F!vars) => Takes
  <2> SUFFICES ASSUME FollowUpIInv, [F!Next]_(F!vars), NEW r \in Writers, NEW f \in F!Rows,
                      F!At(r, "handOver"), write[r].lead = followUp[f].lead,
                      owners'[write[r].lead] # owners[write[r].lead], F!Open(f),
                      ~followUp[f].late, followUp[f].assignees \cap F!Departing(r) # {}
               PROVE  followUp'[f].assignees =
                        (followUp[f].assignees \ F!Departing(r)) \cup write[r].users
    OBVIOUS
  <2>1. F!HandOver(r)
    BY OwnersChangeHands
  <2>2. HandsOver(r)
    BY <2>1, HandOverWrites
  <2>3. f \in write[r].rows /\ f \in write[r].moving
    BY <2>2 DEF HandsOver, Reads, Meets
  <2> QED BY <2>2, <2>3 DEF HandsOver, F!HandedOver
<1> QED BY <1>1, <1>2, <1>3, PTL DEF F!Spec, F!NewOwnerTakesOver
-----------------------------------------------------------------------------
(***************************************************************************)
(* Documents, for any members, documents, objects and requests: the        *)
(* pictures that are shown can be loaded, no object is left behind         *)
(* unnoticed, and a deleted document is gone with its bytes.  The          *)
(* invariant says which request holds the object that no row names yet,    *)
(* and what a request that read a picture still knows of it.               *)
(***************************************************************************)

\* The request has stored an object that no row names yet.
Owns(r) == docRequest[r] # None /\ docRequest[r].step \in {"create", "undo", "setPicture"}

\* It has read a picture that it may come to replace.
Remembers(r) ==
  /\ docRequest[r] # None /\ docRequest[r].step \in {"put", "setPicture", "drop"}
  /\ docRequest[r].old # None

Deletes(r) == docRequest[r] # None /\ docRequest[r].step \in {"erase", "delete"}

\* An object without a row is one request's, and no other request is about it.
OwnedAlone ==
  \A r \in Writers : Owns(r) =>
    /\ docRequest[r].key \in Keys /\ D!Stored(docRequest[r].key)
    /\ \A d \in D!Rows : document[d].key # docRequest[r].key
    /\ \A u \in Owners : picture[u] # docRequest[r].key
    /\ \A q \in Writers :
         /\ q # r /\ Owns(q) => docRequest[q].key # docRequest[r].key
         /\ Remembers(q) => docRequest[q].old # docRequest[r].key
         /\ Deletes(q) => docRequest[r].key \notin docRequest[q].keys

\* A picture is its user's alone: no document has it, no deletion takes it, and the uploads
\* that have replaced it no longer find it shown.
PicturesApart ==
  \A u \in Owners : picture[u] # None =>
    /\ \A v \in Owners : picture[v] = picture[u] => v = u
    /\ \A d \in D!Rows : document[d].key # picture[u]
    /\ \A r \in Writers :
         /\ Deletes(r) => picture[u] \notin docRequest[r].keys
         /\ Remembers(r) /\ docRequest[r].old = picture[u] =>
              docRequest[r].user = u /\ docRequest[r].step # "drop"

\* What somebody refers to is not free to be stored anew.
NothingFree ==
  /\ \A d \in D!Rows : object[document[d].key] # "free"
  /\ \A r \in Writers :
       /\ Remembers(r) => object[docRequest[r].old] # "free"
       /\ Deletes(r) => \A k \in docRequest[r].keys : object[k] # "free"

\* A deletion has the keys of the documents it still has to delete, and removed them all
\* before it deletes the rows.
DeletionsInStep ==
  /\ \A d \in D!Rows : deletions[d] = 0
  /\ \A r \in Writers :
       /\ Deletes(r) => \A d \in docRequest[r].documents :
            /\ d \in D!Rows => document[d].key \in docRequest[r].keys
            /\ d \notin D!Rows => deletions[d] = 1
       /\ D!At(r, "delete") => \A k \in docRequest[r].keys : object[k] = "removed"

\* The request still has to give the object a row or to remove it.
SeesTo(r, k) ==
  \/ Owns(r) /\ docRequest[r].key = k
  \/ D!At(r, "drop") /\ docRequest[r].old = k

\* A stored object has a row, is shown, or has a request that sees to it.
StoredIsHeld ==
  \A k \in Keys : D!Stored(k) =>
    \/ \E d \in D!Rows : document[d].key = k
    \/ \E u \in Owners : picture[u] = k
    \/ \E r \in Writers : SeesTo(r, k)
    \/ k \in stray

DocumentIInv ==
  /\ D!TypeOK /\ D!PictureLoads
  /\ OwnedAlone /\ PicturesApart /\ NothingFree /\ DeletionsInStep /\ StoredIsHeld

-----------------------------------------------------------------------------
LEMMA RequestTyped ==
  ASSUME D!TypeOK, NEW r \in Writers, docRequest[r] # None
  PROVE  docRequest[r] \in D!Request
BY DEF D!TypeOK

LEMMA RequestIsSome ==
  ASSUME D!NoneIsNoRow, NEW w \in D!Request
  PROVE  w # None
BY Zenon DEF D!NoneIsNoRow

LEMMA DocumentRowTyped ==
  ASSUME D!TypeOK, NEW d \in D!Rows
  PROVE  d \in Documents /\ document[d] \in D!Document /\ document[d].key \in Keys
BY DEF D!TypeOK, D!Rows, D!Document

\* A stored object that nobody has to see to any more is one left behind.
LEMMA InvariantSound ==
  ASSUME DocumentIInv
  PROVE  D!DocumentsSound
<1>1. D!NoStrayObject
  BY DEF DocumentIInv, StoredIsHeld, D!NoStrayObject, D!InUse, SeesTo, Owns, D!At
<1> QED BY <1>1 DEF DocumentIInv, D!DocumentsSound

-----------------------------------------------------------------------------
(* The steps that keep the invariant. *)

\* The key was free, so nothing refers to it yet.
LEMMA FreshKey ==
  ASSUME D!NoneIsNoRow, DocumentIInv, NEW k \in Keys, object[k] = "free"
  PROVE  /\ \A d \in D!Rows : document[d].key # k
         /\ \A u \in Owners : picture[u] # k
         /\ \A q \in Writers : /\ Owns(q) => docRequest[q].key # k
                               /\ Remembers(q) => docRequest[q].old # k
                               /\ Deletes(q) => k \notin docRequest[q].keys
BY DEF DocumentIInv, NothingFree, D!PictureLoads, OwnedAlone, D!Stored, D!NoneIsNoRow

LEMMA UploadKeeps ==
  ASSUME D!NoneIsNoRow, DocumentIInv, NEW r \in Writers, NEW u \in Owners, NEW k \in Keys,
         NEW A \in SUBSET Owners, D!Upload(r, u, k, A)
  PROVE  DocumentIInv'
<1> DEFINE w == [D!Started("create", u) EXCEPT !.key = k, !.access = A]
<1>1. /\ w \in D!Request /\ w.step = "create" /\ w.key = k
  BY DEF D!Started, D!Request
<1>2. w # None /\ k # None
  BY <1>1, RequestIsSome DEF D!NoneIsNoRow
<1>3. /\ \A q \in Writers : docRequest'[q] = IF q = r THEN w ELSE docRequest[q]
      /\ \A j \in Keys : object'[j] = IF j = k THEN "stored" ELSE object[j]
      /\ object[k] = "free" /\ docRequest[r] = None
      /\ document' = document /\ picture' = picture /\ deletions' = deletions /\ stray' = stray
      /\ D!Rows' = D!Rows
  BY DEF DocumentIInv, D!TypeOK, D!Upload, D!Store, D!Rows
<1>4. D!TypeOK'
  BY <1>1, <1>3 DEF DocumentIInv, D!TypeOK, D!Upload, D!Store
<1> HIDE DEF w
<1>5. D!PictureLoads'
  BY <1>3 DEF DocumentIInv, D!TypeOK, D!PictureLoads, D!Stored
<1>6. OwnedAlone'
  BY <1>1, <1>2, <1>3, FreshKey DEF DocumentIInv, OwnedAlone, Owns, Remembers, Deletes, D!Stored
<1>7. PicturesApart'
  BY <1>1, <1>3 DEF DocumentIInv, PicturesApart, Remembers, Deletes
<1>8. NothingFree'
  BY <1>1, <1>3, DocumentRowTyped
  DEF DocumentIInv, NothingFree, Remembers, Deletes, D!TypeOK, D!Request
<1>9. DeletionsInStep'
  BY <1>1, <1>3, FreshKey, RequestTyped
  DEF DocumentIInv, DeletionsInStep, Deletes, D!At, D!Request
<1>10. StoredIsHeld'
  BY <1>1, <1>2, <1>3 DEF DocumentIInv, StoredIsHeld, D!Stored, SeesTo, Owns, D!At
<1> QED BY <1>4, <1>5, <1>6, <1>7, <1>8, <1>9, <1>10 DEF DocumentIInv

LEMMA DocumentCreateKeeps ==
  ASSUME D!NoneIsNoRow, DocumentIInv, NEW r \in Writers, NEW d \in Documents, D!Create(r, d)
  PROVE  DocumentIInv'
<1> DEFINE w == [key |-> docRequest[r].key, owner |-> docRequest[r].user,
                 access |-> docRequest[r].access]
<1>1. /\ Owns(r) /\ docRequest[r].key \in Keys /\ docRequest[r].step = "create"
      /\ w \in D!Document /\ w # None /\ w.key = docRequest[r].key
  <2>1. Owns(r) /\ docRequest[r].key \in Keys /\ docRequest[r] \in D!Request
        /\ docRequest[r].step = "create"
    BY RequestTyped DEF D!Create, D!At, Owns, DocumentIInv, OwnedAlone
  <2>2. w \in D!Document
    BY <2>1 DEF D!Document, D!Request
  <2> QED BY <2>1, <2>2, Zenon DEF D!NoneIsNoRow
<1>2. d \notin D!Rows /\ deletions[d] = 0
  BY DEF D!Create, D!Rows
<1>3. /\ \A q \in Writers : docRequest'[q] = IF q = r THEN None ELSE docRequest[q]
      /\ \A e \in Documents : document'[e] = IF e = d THEN w ELSE document[e]
      /\ object' = object /\ picture' = picture /\ deletions' = deletions /\ stray' = stray
      /\ D!Rows' = D!Rows \cup {d} /\ \A e \in D!Rows : e \in Documents
  BY <1>1 DEF DocumentIInv, D!TypeOK, D!Create, D!Done, D!Rows
<1>4. D!TypeOK'
  BY <1>1, <1>3 DEF DocumentIInv, D!TypeOK, D!Create, D!Done
<1> HIDE DEF w
<1>5. D!PictureLoads'
  BY <1>1, <1>2, <1>3 DEF DocumentIInv, D!TypeOK, D!PictureLoads, D!Stored
<1>6. OwnedAlone'
  BY <1>1, <1>2, <1>3 DEF DocumentIInv, OwnedAlone, Owns, Remembers, Deletes, D!Stored
<1>7. PicturesApart'
  BY <1>1, <1>2, <1>3 DEF DocumentIInv, PicturesApart, OwnedAlone, Owns, Remembers, Deletes
<1>8. NothingFree'
  BY <1>1, <1>2, <1>3, DocumentRowTyped, RequestTyped
  DEF DocumentIInv, NothingFree, Remembers, Deletes, D!Request, OwnedAlone, D!Stored
<1>9. DeletionsInStep'
  BY <1>1, <1>2, <1>3, RequestTyped DEF DocumentIInv, DeletionsInStep, Deletes, D!At, D!Request
<1>10. StoredIsHeld'
  BY <1>1, <1>2, <1>3 DEF DocumentIInv, StoredIsHeld, D!Stored, SeesTo, Owns, D!At
<1> QED BY <1>4, <1>5, <1>6, <1>7, <1>8, <1>9, <1>10 DEF DocumentIInv

LEMMA CreateFailsKeeps ==
  ASSUME D!NoneIsNoRow, DocumentIInv, NEW r \in Writers, D!CreateFails(r)
  PROVE  DocumentIInv'
<1> DEFINE w == [docRequest[r] EXCEPT !.step = "undo"]
<1>1. /\ Owns(r) /\ docRequest[r] # None /\ docRequest[r] \in D!Request
      /\ docRequest[r].step = "create"
  BY RequestTyped DEF D!CreateFails, D!At, Owns, DocumentIInv
<1>2. /\ w \in D!Request /\ w # None /\ w.step = "undo" /\ w.key = docRequest[r].key
  BY <1>1, RequestIsSome DEF D!Request
<1>3. /\ \A q \in Writers : docRequest'[q] = IF q = r THEN w ELSE docRequest[q]
      /\ document' = document /\ object' = object /\ picture' = picture
      /\ deletions' = deletions /\ stray' = stray /\ D!Rows' = D!Rows
  BY DEF DocumentIInv, D!TypeOK, D!CreateFails, D!ThenUndo, D!Goto, D!Rows
<1>4. D!TypeOK'
  BY <1>2, <1>3 DEF DocumentIInv, D!TypeOK, D!CreateFails, D!ThenUndo, D!Goto
<1> HIDE DEF w
<1>5. D!PictureLoads'
  BY <1>1, <1>2, <1>3 DEF DocumentIInv, D!TypeOK, D!PictureLoads, D!Stored
<1>6. OwnedAlone'
  BY <1>1, <1>2, <1>3 DEF DocumentIInv, OwnedAlone, Owns, Remembers, Deletes, D!Stored
<1>7. PicturesApart'
  BY <1>1, <1>2, <1>3 DEF DocumentIInv, PicturesApart, Owns, Remembers, Deletes
<1>8. NothingFree'
  BY <1>1, <1>2, <1>3, DocumentRowTyped, RequestTyped
  DEF DocumentIInv, NothingFree, Remembers, Deletes, D!Request
<1>9. DeletionsInStep'
  BY <1>1, <1>2, <1>3, RequestTyped DEF DocumentIInv, DeletionsInStep, Deletes, D!At, D!Request
<1>10. StoredIsHeld'
  BY <1>1, <1>2, <1>3 DEF DocumentIInv, StoredIsHeld, D!Stored, SeesTo, Owns, D!At
<1> QED BY <1>4, <1>5, <1>6, <1>7, <1>8, <1>9, <1>10 DEF DocumentIInv

LEMMA UndoKeeps ==
  ASSUME D!NoneIsNoRow, DocumentIInv, NEW r \in Writers, D!Undo(r)
  PROVE  DocumentIInv'
<1> DEFINE k == docRequest[r].key
<1>1. /\ Owns(r) /\ docRequest[r].step = "undo" /\ k \in Keys
  BY RequestTyped DEF D!Undo, D!At, Owns, DocumentIInv, OwnedAlone
<1>2. /\ \A u \in Owners : picture[u] # k
      /\ \A q \in Writers : Owns(q) /\ q # r => docRequest[q].key # k
  BY <1>1 DEF DocumentIInv, OwnedAlone
<1>3. /\ \A q \in Writers : docRequest'[q] = IF q = r THEN None ELSE docRequest[q]
      /\ \A j \in Keys : object'[j] = IF j = k THEN "removed" ELSE object[j]
      /\ document' = document /\ picture' = picture
      /\ deletions' = deletions /\ stray' = stray /\ D!Rows' = D!Rows
  BY DEF DocumentIInv, D!TypeOK, D!Undo, D!Erased, D!Done, D!Rows
<1>4. D!TypeOK'
  BY <1>1, <1>3 DEF DocumentIInv, D!TypeOK, D!Undo, D!Erased, D!Done
<1>5. D!PictureLoads'
  BY <1>1, <1>2, <1>3 DEF DocumentIInv, D!TypeOK, D!PictureLoads, D!Stored
<1>6. OwnedAlone'
  BY <1>1, <1>2, <1>3 DEF DocumentIInv, OwnedAlone, Owns, Remembers, Deletes, D!Stored
<1>7. PicturesApart'
  BY <1>1, <1>2, <1>3 DEF DocumentIInv, PicturesApart, Owns, Remembers, Deletes
<1>8. NothingFree'
  BY <1>1, <1>2, <1>3, DocumentRowTyped, RequestTyped
  DEF DocumentIInv, NothingFree, Remembers, Deletes, D!Request
<1>9. DeletionsInStep'
  BY <1>1, <1>2, <1>3, RequestTyped DEF DocumentIInv, DeletionsInStep, Deletes, D!At, D!Request
<1>10. StoredIsHeld'
  BY <1>1, <1>2, <1>3 DEF DocumentIInv, StoredIsHeld, D!Stored, SeesTo, Owns, D!At
<1> QED BY <1>4, <1>5, <1>6, <1>7, <1>8, <1>9, <1>10 DEF DocumentIInv

LEMMA CheckUpdateKeeps ==
  ASSUME D!NoneIsNoRow, DocumentIInv, NEW r \in Writers, NEW u \in Owners, NEW d \in Documents,
         NEW A \in SUBSET Owners, D!CheckUpdate(r, u, d, A)
  PROVE  DocumentIInv'
<1> DEFINE w == [D!Started("update", u) EXCEPT !.documents = {d}, !.access = A]
<1>1. w \in D!Request /\ w.step = "update"
  BY DEF D!Started, D!Request
<1>2. w # None
  BY <1>1, RequestIsSome
<1>3. /\ \A q \in Writers : docRequest'[q] = IF q = r THEN w ELSE docRequest[q]
      /\ docRequest[r] = None
      /\ document' = document /\ object' = object /\ picture' = picture
      /\ deletions' = deletions /\ stray' = stray /\ D!Rows' = D!Rows
  BY DEF DocumentIInv, D!TypeOK, D!CheckUpdate, D!Rows
<1>4. D!TypeOK'
  BY <1>1, <1>3 DEF DocumentIInv, D!TypeOK, D!CheckUpdate
<1> HIDE DEF w
<1>5. D!PictureLoads'
  BY <1>1, <1>2, <1>3 DEF DocumentIInv, D!TypeOK, D!PictureLoads, D!Stored
<1>6. OwnedAlone'
  BY <1>1, <1>2, <1>3 DEF DocumentIInv, OwnedAlone, Owns, Remembers, Deletes, D!Stored
<1>7. PicturesApart'
  BY <1>1, <1>2, <1>3 DEF DocumentIInv, PicturesApart, Owns, Remembers, Deletes
<1>8. NothingFree'
  BY <1>1, <1>2, <1>3, DocumentRowTyped, RequestTyped
  DEF DocumentIInv, NothingFree, Remembers, Deletes, D!Request
<1>9. DeletionsInStep'
  BY <1>1, <1>2, <1>3, RequestTyped DEF DocumentIInv, DeletionsInStep, Deletes, D!At, D!Request
<1>10. StoredIsHeld'
  BY <1>1, <1>2, <1>3 DEF DocumentIInv, StoredIsHeld, D!Stored, SeesTo, Owns, D!At
<1> QED BY <1>4, <1>5, <1>6, <1>7, <1>8, <1>9, <1>10 DEF DocumentIInv

LEMMA DocumentUpdateKeeps ==
  ASSUME D!NoneIsNoRow, DocumentIInv, NEW r \in Writers, D!Update(r)
  PROVE  DocumentIInv'
<1>1. docRequest[r] # None /\ docRequest[r] \in D!Request /\ docRequest[r].step = "update"
  BY RequestTyped DEF D!Update, D!At, DocumentIInv
<1>2. \A d \in D!Rows : /\ document'[d] \in D!Document /\ document'[d] # None
                        /\ document'[d].key = document[d].key
  <2> SUFFICES ASSUME NEW d \in D!Rows
               PROVE  /\ document'[d] \in D!Document /\ document'[d] # None
                      /\ document'[d].key = document[d].key
    OBVIOUS
  <2>1. document'[d] = IF d \in docRequest[r].documents
                       THEN [document[d] EXCEPT !.access = docRequest[r].access]
                       ELSE document[d]
    BY DocumentRowTyped DEF D!Update, DocumentIInv
  <2>2. document'[d] \in D!Document /\ document'[d].key = document[d].key
    BY <1>1, <2>1, DocumentRowTyped DEF DocumentIInv, D!Document, D!Request
  <2> QED BY <2>2, Zenon DEF D!NoneIsNoRow
<1>3. /\ \A q \in Writers : docRequest'[q] = IF q = r THEN None ELSE docRequest[q]
      /\ object' = object /\ picture' = picture
      /\ deletions' = deletions /\ stray' = stray /\ D!Rows' = D!Rows
  <2>1. \A d \in Documents : d \notin D!Rows => document'[d] = None
    BY DEF D!Update, D!Rows
  <2> QED BY <1>2, <2>1 DEF DocumentIInv, D!TypeOK, D!Update, D!Done, D!Rows
<1>4. D!TypeOK'
  <2>1. document' \in [Documents -> D!Document \cup {None}]
    BY <1>2, <1>3 DEF D!Update, D!Rows
  <2> QED BY <1>3, <2>1 DEF DocumentIInv, D!TypeOK, D!Update, D!Done
<1>5. D!PictureLoads'
  BY <1>1, <1>2, <1>3 DEF DocumentIInv, D!TypeOK, D!PictureLoads, D!Stored
<1>6. OwnedAlone'
  BY <1>1, <1>2, <1>3 DEF DocumentIInv, OwnedAlone, Owns, Remembers, Deletes, D!Stored
<1>7. PicturesApart'
  BY <1>1, <1>2, <1>3 DEF DocumentIInv, PicturesApart, Owns, Remembers, Deletes
<1>8. NothingFree'
  BY <1>1, <1>2, <1>3, DocumentRowTyped, RequestTyped
  DEF DocumentIInv, NothingFree, Remembers, Deletes, D!Request
<1>9. DeletionsInStep'
  BY <1>1, <1>2, <1>3, RequestTyped DEF DocumentIInv, DeletionsInStep, Deletes, D!At, D!Request
<1>10. StoredIsHeld'
  BY <1>1, <1>2, <1>3 DEF DocumentIInv, StoredIsHeld, D!Stored, SeesTo, Owns, D!At
<1> QED BY <1>4, <1>5, <1>6, <1>7, <1>8, <1>9, <1>10 DEF DocumentIInv

LEMMA CheckDeleteKeeps ==
  ASSUME D!NoneIsNoRow, DocumentIInv, NEW r \in Writers, NEW u \in Owners,
         NEW names \in SUBSET Documents,
         D!CheckDelete(r, u, names)
  PROVE  DocumentIInv'
<1> DEFINE S == {d \in names \cap D!Rows : D!MayEdit(u, d)}
           w == [D!Started("erase", u) EXCEPT !.documents = S,
                                            !.keys = {document[d].key : d \in S}]
<1>1. /\ w \in D!Request /\ w.step = "erase" /\ w.documents = S
      /\ w.keys = {document[d].key : d \in S} /\ S \subseteq D!Rows
  <2>1. {document[d].key : d \in S} \in SUBSET Keys
    BY DocumentRowTyped DEF DocumentIInv
  <2> QED BY <2>1 DEF D!Started, D!Request
<1>2. w # None
  BY <1>1, RequestIsSome
<1>3. /\ \A q \in Writers : docRequest'[q] = IF q = r THEN w ELSE docRequest[q]
      /\ docRequest[r] = None
      /\ document' = document /\ object' = object /\ picture' = picture
      /\ deletions' = deletions /\ stray' = stray /\ D!Rows' = D!Rows
  BY DEF DocumentIInv, D!TypeOK, D!CheckDelete, D!Rows
<1>4. D!TypeOK'
  BY <1>1, <1>3 DEF DocumentIInv, D!TypeOK, D!CheckDelete
<1> HIDE DEF w, S
<1>5. D!PictureLoads'
  BY <1>1, <1>2, <1>3 DEF DocumentIInv, D!TypeOK, D!PictureLoads, D!Stored
<1>6. OwnedAlone'
  BY <1>1, <1>2, <1>3 DEF DocumentIInv, OwnedAlone, Owns, Remembers, Deletes, D!Stored
<1>7. PicturesApart'
  BY <1>1, <1>2, <1>3 DEF DocumentIInv, PicturesApart, Owns, Remembers, Deletes
<1>8. NothingFree'
  BY <1>1, <1>2, <1>3, DocumentRowTyped, RequestTyped
  DEF DocumentIInv, NothingFree, Remembers, Deletes, D!Request
<1>9. DeletionsInStep'
  BY <1>1, <1>2, <1>3, RequestTyped DEF DocumentIInv, DeletionsInStep, Deletes, D!At, D!Request
<1>10. StoredIsHeld'
  BY <1>1, <1>2, <1>3 DEF DocumentIInv, StoredIsHeld, D!Stored, SeesTo, Owns, D!At
<1> QED BY <1>4, <1>5, <1>6, <1>7, <1>8, <1>9, <1>10 DEF DocumentIInv

\* The objects of a deletion are its documents' alone.
LEMMA EraseKeeps ==
  ASSUME D!NoneIsNoRow, DocumentIInv, NEW r \in Writers, NEW S \in SUBSET Keys, D!Erase(r, S)
  PROVE  DocumentIInv'
<1> DEFINE w == IF S = docRequest[r].keys THEN [docRequest[r] EXCEPT !.step = "delete"] ELSE None
<1>1. /\ Deletes(r) /\ docRequest[r].step = "erase" /\ docRequest[r] \in D!Request
      /\ S \subseteq docRequest[r].keys
  BY RequestTyped DEF D!Erase, D!At, Deletes, DocumentIInv
<1>2. /\ w # None => /\ w \in D!Request /\ w.step = "delete" /\ S = docRequest[r].keys
                     /\ w.keys = docRequest[r].keys /\ w.documents = docRequest[r].documents
  BY <1>1 DEF D!Request
<1>3. /\ \A q \in Writers : docRequest'[q] = IF q = r THEN w ELSE docRequest[q]
      /\ \A j \in Keys : object'[j] = IF j \in S THEN "removed" ELSE object[j]
      /\ document' = document /\ picture' = picture
      /\ deletions' = deletions /\ stray' = stray /\ D!Rows' = D!Rows
  BY DEF DocumentIInv, D!TypeOK, D!Erase, D!ThenDelete, D!Erased, D!Goto, D!Done, D!Rows
<1>4. D!TypeOK'
  <2>1. docRequest' = [docRequest EXCEPT ![r] = w]
    BY DEF D!Erase, D!ThenDelete, D!Goto, D!Done, DocumentIInv, D!TypeOK
  <2> QED BY <1>2, <1>3, <2>1 DEF DocumentIInv, D!TypeOK, D!Erase, D!Erased
<1> HIDE DEF w
<1>5. D!PictureLoads'
  BY <1>1, <1>2, <1>3 DEF DocumentIInv, D!TypeOK, D!PictureLoads, PicturesApart, D!Stored
<1>6. OwnedAlone'
  BY <1>1, <1>2, <1>3 DEF DocumentIInv, OwnedAlone, Owns, Remembers, Deletes, D!Stored
<1>7. PicturesApart'
  BY <1>1, <1>2, <1>3 DEF DocumentIInv, PicturesApart, Owns, Remembers, Deletes
<1>8. NothingFree'
  BY <1>1, <1>2, <1>3, DocumentRowTyped, RequestTyped
  DEF DocumentIInv, NothingFree, Remembers, Deletes, D!Request
<1>9. DeletionsInStep'
  BY <1>1, <1>2, <1>3, RequestTyped DEF DocumentIInv, DeletionsInStep, Deletes, D!At, D!Request
<1>10. StoredIsHeld'
  BY <1>1, <1>2, <1>3 DEF DocumentIInv, StoredIsHeld, D!Stored, SeesTo, Owns, D!At
<1> QED BY <1>4, <1>5, <1>6, <1>7, <1>8, <1>9, <1>10 DEF DocumentIInv

LEMMA DeleteKeeps ==
  ASSUME D!NoneIsNoRow, DocumentIInv, NEW r \in Writers, D!Delete(r)
  PROVE  DocumentIInv'
<1>1. /\ Deletes(r) /\ D!At(r, "delete") /\ docRequest[r].step = "delete"
      /\ docRequest[r] \in D!Request
  BY RequestTyped DEF D!Delete, D!At, Deletes, DocumentIInv
<1>2. \A d \in D!StillThere(r) : d \in D!Rows /\ deletions[d] = 0
                               /\ object[document[d].key] = "removed"
  BY <1>1 DEF D!StillThere, DocumentIInv, DeletionsInStep
<1>3. /\ \A q \in Writers : docRequest'[q] = IF q = r THEN None ELSE docRequest[q]
      /\ \A d \in Documents :
           /\ document'[d] = IF d \in D!StillThere(r) THEN None ELSE document[d]
           /\ deletions'[d] = IF d \in D!StillThere(r) THEN deletions[d] + 1 ELSE deletions[d]
      /\ object' = object /\ picture' = picture /\ stray' = stray
      /\ D!Rows' = D!Rows \ D!StillThere(r) /\ \A d \in D!Rows : d \in Documents
  BY DEF DocumentIInv, D!TypeOK, D!Delete, D!Done, D!Rows
<1>4. D!TypeOK'
  BY <1>2, <1>3 DEF DocumentIInv, D!TypeOK, D!Delete, D!Done
<1>5. D!PictureLoads'
  BY <1>1, <1>2, <1>3 DEF DocumentIInv, D!TypeOK, D!PictureLoads, D!Stored
<1>6. OwnedAlone'
  BY <1>1, <1>2, <1>3 DEF DocumentIInv, OwnedAlone, Owns, Remembers, Deletes, D!Stored
<1>7. PicturesApart'
  BY <1>1, <1>2, <1>3 DEF DocumentIInv, PicturesApart, Owns, Remembers, Deletes
<1>8. NothingFree'
  BY <1>1, <1>2, <1>3, DocumentRowTyped, RequestTyped
  DEF DocumentIInv, NothingFree, Remembers, Deletes, D!Request
<1>9. DeletionsInStep'
  BY <1>1, <1>2, <1>3, RequestTyped DEF DocumentIInv, DeletionsInStep, Deletes, D!At, D!Request
<1>10. StoredIsHeld'
  BY <1>1, <1>2, <1>3 DEF DocumentIInv, StoredIsHeld, D!Stored, SeesTo, Owns, D!At
<1> QED BY <1>4, <1>5, <1>6, <1>7, <1>8, <1>9, <1>10 DEF DocumentIInv

LEMMA ReadPictureKeeps ==
  ASSUME D!NoneIsNoRow, DocumentIInv, NEW r \in Writers, NEW u \in Owners, D!ReadPicture(r, u)
  PROVE  DocumentIInv'
<1> DEFINE w == [D!Started("put", u) EXCEPT !.old = picture[u]]
<1>1. w \in D!Request /\ w.step = "put" /\ w.old = picture[u] /\ w.user = u
  BY DEF D!Started, D!Request, DocumentIInv, D!TypeOK
<1>2. w # None
  BY <1>1, RequestIsSome
<1>3. /\ \A q \in Writers : docRequest'[q] = IF q = r THEN w ELSE docRequest[q]
      /\ docRequest[r] = None
      /\ document' = document /\ object' = object /\ picture' = picture
      /\ deletions' = deletions /\ stray' = stray /\ D!Rows' = D!Rows
  BY DEF DocumentIInv, D!TypeOK, D!ReadPicture, D!Rows
<1>4. D!TypeOK'
  BY <1>1, <1>3 DEF DocumentIInv, D!TypeOK, D!ReadPicture
<1> HIDE DEF w
<1>5. D!PictureLoads'
  BY <1>1, <1>2, <1>3 DEF DocumentIInv, D!TypeOK, D!PictureLoads, D!Stored
<1>6. OwnedAlone'
  BY <1>1, <1>2, <1>3 DEF DocumentIInv, OwnedAlone, Owns, Remembers, Deletes, D!Stored
<1>7. PicturesApart'
  BY <1>1, <1>2, <1>3 DEF DocumentIInv, PicturesApart, Owns, Remembers, Deletes
<1>8. NothingFree'
  BY <1>1, <1>2, <1>3, DocumentRowTyped, RequestTyped
  DEF DocumentIInv, NothingFree, Remembers, Deletes, D!Request, D!PictureLoads, D!Stored
<1>9. DeletionsInStep'
  BY <1>1, <1>2, <1>3, RequestTyped DEF DocumentIInv, DeletionsInStep, Deletes, D!At, D!Request
<1>10. StoredIsHeld'
  BY <1>1, <1>2, <1>3 DEF DocumentIInv, StoredIsHeld, D!Stored, SeesTo, Owns, D!At
<1> QED BY <1>4, <1>5, <1>6, <1>7, <1>8, <1>9, <1>10 DEF DocumentIInv

LEMMA PutPictureKeeps ==
  ASSUME D!NoneIsNoRow, DocumentIInv, NEW r \in Writers, NEW k \in Keys, D!PutPicture(r, k)
  PROVE  DocumentIInv'
<1> DEFINE w == [docRequest[r] EXCEPT !.step = "setPicture", !.key = k]
<1>1. docRequest[r] # None /\ docRequest[r] \in D!Request /\ docRequest[r].step = "put"
  BY RequestTyped DEF D!PutPicture, D!At, DocumentIInv
<1>2. /\ w \in D!Request /\ w # None /\ w.step = "setPicture" /\ w.key = k
      /\ w.old = docRequest[r].old /\ w.user = docRequest[r].user
  BY <1>1, RequestIsSome DEF D!Request
<1>3. /\ \A q \in Writers : docRequest'[q] = IF q = r THEN w ELSE docRequest[q]
      /\ \A j \in Keys : object'[j] = IF j = k THEN "stored" ELSE object[j]
      /\ object[k] = "free"
      /\ document' = document /\ picture' = picture
      /\ deletions' = deletions /\ stray' = stray /\ D!Rows' = D!Rows
  BY DEF DocumentIInv, D!TypeOK, D!PutPicture, D!Store, D!Rows
<1>4. D!TypeOK'
  BY <1>2, <1>3 DEF DocumentIInv, D!TypeOK, D!PutPicture, D!Store
<1> HIDE DEF w
<1>5. D!PictureLoads'
  BY <1>1, <1>2, <1>3 DEF DocumentIInv, D!TypeOK, D!PictureLoads, D!Stored
<1>6. OwnedAlone'
  BY <1>1, <1>2, <1>3, FreshKey DEF DocumentIInv, OwnedAlone, Owns, Remembers, Deletes, D!Stored
<1>7. PicturesApart'
  BY <1>1, <1>2, <1>3 DEF DocumentIInv, PicturesApart, Owns, Remembers, Deletes
<1>8. NothingFree'
  BY <1>1, <1>2, <1>3, DocumentRowTyped, RequestTyped
  DEF DocumentIInv, NothingFree, Remembers, Deletes, D!Request
<1>9. DeletionsInStep'
  BY <1>1, <1>2, <1>3, RequestTyped, FreshKey
  DEF DocumentIInv, DeletionsInStep, Deletes, D!At, D!Request
<1>10. StoredIsHeld'
  BY <1>1, <1>2, <1>3 DEF DocumentIInv, StoredIsHeld, D!Stored, SeesTo, Owns, D!At
<1> QED BY <1>4, <1>5, <1>6, <1>7, <1>8, <1>9, <1>10 DEF DocumentIInv

\* The picture it replaces is the one it remembers, another one is left behind.
LEMMA SetPictureKeeps ==
  ASSUME D!NoneIsNoRow, DocumentIInv, NEW r \in Writers, D!SetPicture(r)
  PROVE  DocumentIInv'
<1> DEFINE u == docRequest[r].user
           k == docRequest[r].key
           old == docRequest[r].old
           w == IF old = None THEN None ELSE [docRequest[r] EXCEPT !.step = "drop"]
<1>1. /\ Owns(r) /\ docRequest[r] # None /\ docRequest[r] \in D!Request
      /\ docRequest[r].step = "setPicture"
      /\ u \in Owners /\ k \in Keys /\ D!Stored(k) /\ k # None
  BY RequestTyped DEF D!SetPicture, D!At, Owns, DocumentIInv, OwnedAlone, D!Request, D!NoneIsNoRow
<1>2. /\ old = None => w = None
      /\ old # None => /\ w \in D!Request /\ w # None /\ w.step = "drop" /\ w.old = old
                       /\ w.user = u /\ Remembers(r)
  BY <1>1, RequestIsSome DEF D!Request, Remembers
<1>3. /\ \A q \in Writers : docRequest'[q] = IF q = r THEN w ELSE docRequest[q]
      /\ \A v \in Owners : picture'[v] = IF v = u THEN k ELSE picture[v]
      /\ stray' = IF picture[u] # old /\ picture[u] # None THEN stray \cup {picture[u]} ELSE stray
      /\ document' = document /\ object' = object /\ deletions' = deletions /\ D!Rows' = D!Rows
  BY DEF DocumentIInv, D!TypeOK, D!SetPicture, D!Goto, D!Done, D!Rows
<1>4. D!TypeOK'
  <2>1. docRequest' = [docRequest EXCEPT ![r] = w]
    BY DEF D!SetPicture, D!Goto, D!Done, DocumentIInv, D!TypeOK
  <2> QED BY <1>1, <1>2, <1>3, <2>1 DEF DocumentIInv, D!TypeOK, D!SetPicture
<1>alone. /\ \A d \in D!Rows : document[d].key # k
       /\ \A v \in Owners : picture[v] # k
       /\ \A q \in Writers : /\ q # r /\ Owns(q) => docRequest[q].key # k
                             /\ Remembers(q) => docRequest[q].old # k
                             /\ Deletes(q) => k \notin docRequest[q].keys
  BY <1>1 DEF DocumentIInv, OwnedAlone
<1> HIDE DEF w
<1>5. D!PictureLoads'
  BY <1>1, <1>2, <1>3 DEF DocumentIInv, D!TypeOK, D!PictureLoads, D!Stored
<1>6. OwnedAlone'
  BY <1>1, <1>2, <1>3, <1>alone DEF DocumentIInv, OwnedAlone, Owns, Remembers, Deletes, D!Stored
<1>7. PicturesApart'
  BY <1>1, <1>2, <1>3, <1>alone DEF DocumentIInv, PicturesApart, Owns, Remembers, Deletes
<1>8. NothingFree'
  BY <1>1, <1>2, <1>3, DocumentRowTyped, RequestTyped
  DEF DocumentIInv, NothingFree, Remembers, Deletes, D!Request
<1>9. DeletionsInStep'
  BY <1>1, <1>2, <1>3, RequestTyped DEF DocumentIInv, DeletionsInStep, Deletes, D!At, D!Request
<1>10. StoredIsHeld'
  <2> SUFFICES ASSUME NEW j \in Keys, D!Stored(j)
               PROVE  \/ \E d \in D!Rows : document[d].key = j
                      \/ \E v \in Owners : picture'[v] = j
                      \/ \E q \in Writers : SeesTo(q, j)'
                      \/ j \in stray'
    BY <1>3 DEF StoredIsHeld, D!Stored
  <2>1. CASE \E v \in Owners : picture[v] = j
    <3>1. PICK v \in Owners : picture[v] = j
      BY <2>1
    <3>2. CASE v = u /\ old = j
      <4>1. old # None /\ SeesTo(r, j)'
        BY <1>2, <1>3, <3>2 DEF SeesTo, D!At, D!NoneIsNoRow
      <4> QED BY <4>1
    <3>3. CASE v # u \/ old # j
      BY <1>3, <3>1, <3>3 DEF D!NoneIsNoRow
    <3> QED BY <3>2, <3>3
  <2>2. CASE \E q \in Writers : SeesTo(q, j)
    <3>1. PICK q \in Writers : SeesTo(q, j)
      BY <2>2
    <3>2. CASE q = r
      <4>1. picture'[u] = j
        BY <1>1, <1>3, <3>1, <3>2 DEF SeesTo, D!At
      <4> QED BY <4>1, <1>1
    <3>3. CASE q # r
      BY <1>3, <3>1, <3>3 DEF SeesTo, Owns, D!At
    <3> QED BY <3>2, <3>3
  <2>3. CASE j \in stray
    BY <1>3, <2>3
  <2> QED BY <2>1, <2>2, <2>3 DEF DocumentIInv, StoredIsHeld
<1> QED BY <1>4, <1>5, <1>6, <1>7, <1>8, <1>9, <1>10 DEF DocumentIInv

LEMMA DropPictureKeeps ==
  ASSUME D!NoneIsNoRow, DocumentIInv, NEW r \in Writers, D!DropPicture(r)
  PROVE  DocumentIInv'
<1> DEFINE old == docRequest[r].old
<1>1. /\ docRequest[r] # None /\ docRequest[r].step = "drop" /\ docRequest[r] \in D!Request
      /\ D!At(r, "drop")
  BY RequestTyped DEF D!DropPicture, D!At, DocumentIInv
<1>2. \A j \in Keys : j = old =>
        /\ Remembers(r)
        /\ \A u \in Owners : picture[u] # j
        /\ \A q \in Writers : Owns(q) => docRequest[q].key # j
  <2> SUFFICES ASSUME NEW j \in Keys, j = old
               PROVE  /\ Remembers(r)
                      /\ \A u \in Owners : picture[u] # j
                      /\ \A q \in Writers : Owns(q) => docRequest[q].key # j
    OBVIOUS
  <2>1. Remembers(r) /\ old # None
    BY <1>1 DEF Remembers, D!NoneIsNoRow
  <2> QED BY <1>1, <2>1 DEF DocumentIInv, PicturesApart, OwnedAlone
<1>3. /\ \A q \in Writers : docRequest'[q] = IF q = r THEN None ELSE docRequest[q]
      /\ \A j \in Keys : object'[j] = IF j = old THEN "removed" ELSE object[j]
      /\ document' = document /\ picture' = picture
      /\ deletions' = deletions /\ stray' = stray /\ D!Rows' = D!Rows
  BY DEF DocumentIInv, D!TypeOK, D!DropPicture, D!Replaced, D!Erased, D!Done, D!Rows
<1>4. D!TypeOK'
  BY <1>3 DEF DocumentIInv, D!TypeOK, D!DropPicture, D!Replaced, D!Erased, D!Done
<1>5. D!PictureLoads'
  BY <1>1, <1>2, <1>3 DEF DocumentIInv, D!TypeOK, D!PictureLoads, D!Stored
<1>6. OwnedAlone'
  BY <1>1, <1>2, <1>3 DEF DocumentIInv, OwnedAlone, Owns, Remembers, Deletes, D!Stored
<1>7. PicturesApart'
  BY <1>1, <1>2, <1>3 DEF DocumentIInv, PicturesApart, Owns, Remembers, Deletes
<1>8. NothingFree'
  BY <1>1, <1>2, <1>3, DocumentRowTyped, RequestTyped
  DEF DocumentIInv, NothingFree, Remembers, Deletes, D!Request
<1>9. DeletionsInStep'
  BY <1>1, <1>2, <1>3, RequestTyped DEF DocumentIInv, DeletionsInStep, Deletes, D!At, D!Request
<1>10. StoredIsHeld'
  BY <1>1, <1>2, <1>3 DEF DocumentIInv, StoredIsHeld, D!Stored, SeesTo, Owns, D!At
<1> QED BY <1>4, <1>5, <1>6, <1>7, <1>8, <1>9, <1>10 DEF DocumentIInv

LEMMA DocumentFailKeeps ==
  ASSUME D!NoneIsNoRow, DocumentIInv, NEW r \in Writers, D!Fail(r)
  PROVE  DocumentIInv'
<1>1. docRequest[r] # None /\ docRequest[r] \in D!Request
  BY RequestTyped DEF D!Fail, DocumentIInv
<1>2. \A k \in Keys : SeesTo(r, k) => k \in D!Owed(r)
  BY DEF SeesTo, D!Owed, Owns, D!At, D!NoneIsNoRow
<1>3. /\ \A q \in Writers : docRequest'[q] = IF q = r THEN None ELSE docRequest[q]
      /\ stray' = stray \cup D!Owed(r)
      /\ document' = document /\ object' = object /\ picture' = picture
      /\ deletions' = deletions /\ D!Rows' = D!Rows
  BY DEF DocumentIInv, D!TypeOK, D!Fail, D!Done, D!Rows
<1>4. D!TypeOK'
  <2>1. D!Owed(r) \subseteq Keys
    BY <1>1 DEF D!Owed, D!Request
  <2> QED BY <1>3, <2>1 DEF DocumentIInv, D!TypeOK, D!Fail, D!Done
<1>5. D!PictureLoads'
  BY <1>1, <1>2, <1>3 DEF DocumentIInv, D!TypeOK, D!PictureLoads, D!Stored
<1>6. OwnedAlone'
  BY <1>1, <1>2, <1>3 DEF DocumentIInv, OwnedAlone, Owns, Remembers, Deletes, D!Stored
<1>7. PicturesApart'
  BY <1>1, <1>2, <1>3 DEF DocumentIInv, PicturesApart, Owns, Remembers, Deletes
<1>8. NothingFree'
  BY <1>1, <1>2, <1>3, DocumentRowTyped, RequestTyped
  DEF DocumentIInv, NothingFree, Remembers, Deletes, D!Request
<1>9. DeletionsInStep'
  BY <1>1, <1>2, <1>3, RequestTyped DEF DocumentIInv, DeletionsInStep, Deletes, D!At, D!Request
<1>10. StoredIsHeld'
  BY <1>1, <1>2, <1>3 DEF DocumentIInv, StoredIsHeld, D!Stored, SeesTo, Owns, D!At
<1> QED BY <1>4, <1>5, <1>6, <1>7, <1>8, <1>9, <1>10 DEF DocumentIInv

-----------------------------------------------------------------------------
(* The invariant, and what follows from it. *)

LEMMA DocumentInitIInv ==
  ASSUME D!NoneIsNoRow, D!Init
  PROVE  DocumentIInv
<1>1. /\ D!Rows = {} /\ \A r \in Writers : docRequest[r] = None
      /\ \A u \in Owners : picture[u] = None
  BY DEF D!Init, D!Rows
<1>2. D!TypeOK /\ \A k \in Keys : ~D!Stored(k)
  BY DEF D!Init, D!TypeOK, D!Stored
<1> QED BY <1>1, <1>2 DEF DocumentIInv, D!PictureLoads, OwnedAlone, PicturesApart, NothingFree,
                          DeletionsInStep, StoredIsHeld, Owns, Remembers, Deletes, D!At

LEMMA DocumentNextIInv ==
  ASSUME D!NoneIsNoRow, DocumentIInv, [D!Next]_(D!vars)
  PROVE  DocumentIInv'
<1>1. CASE D!Next
  <2>1. PICK r \in Writers :
          \/ \E u \in Owners :
               \/ \E k \in Keys, A \in SUBSET Owners : D!Upload(r, u, k, A)
               \/ \E d \in Documents, A \in SUBSET Owners : D!CheckUpdate(r, u, d, A)
               \/ \E names \in SUBSET Documents : D!CheckDelete(r, u, names)
               \/ D!ReadPicture(r, u)
          \/ \E d \in Documents : D!Create(r, d)
          \/ \E k \in Keys : D!PutPicture(r, k)
          \/ \E S \in SUBSET Keys : D!Erase(r, S)
          \/ D!CreateFails(r) \/ D!Undo(r) \/ D!Update(r) \/ D!Delete(r)
          \/ D!SetPicture(r) \/ D!DropPicture(r) \/ D!Fail(r)
    BY <1>1 DEF D!Next
  <2>2. ASSUME NEW u \in Owners,
               \/ \E k \in Keys, A \in SUBSET Owners : D!Upload(r, u, k, A)
               \/ \E d \in Documents, A \in SUBSET Owners : D!CheckUpdate(r, u, d, A)
               \/ \E names \in SUBSET Documents : D!CheckDelete(r, u, names)
               \/ D!ReadPicture(r, u)
        PROVE  DocumentIInv'
    BY <2>2, UploadKeeps, CheckUpdateKeeps, CheckDeleteKeeps, ReadPictureKeeps
  <2>3. CASE \/ \E d \in Documents : D!Create(r, d)
             \/ \E k \in Keys : D!PutPicture(r, k)
             \/ \E S \in SUBSET Keys : D!Erase(r, S)
    BY <2>3, DocumentCreateKeeps, PutPictureKeeps, EraseKeeps
  <2>4. CASE D!CreateFails(r) \/ D!Undo(r) \/ D!Update(r) \/ D!Delete(r)
    BY <2>4, CreateFailsKeeps, UndoKeeps, DocumentUpdateKeeps, DeleteKeeps
  <2>5. CASE D!SetPicture(r) \/ D!DropPicture(r) \/ D!Fail(r)
    BY <2>5, SetPictureKeeps, DropPictureKeeps, DocumentFailKeeps
  <2> QED BY <2>1, <2>2, <2>3, <2>4, <2>5
<1>2. CASE UNCHANGED D!vars
  BY <1>2
  DEF D!vars, DocumentIInv, D!TypeOK, D!PictureLoads, OwnedAlone, PicturesApart, NothingFree,
              DeletionsInStep, StoredIsHeld, Owns, Remembers, Deletes, D!At, SeesTo, D!Rows,
              D!Stored
<1> QED BY <1>1, <1>2

\* Whatever uploads, replacements and deletions run into each other or fail halfway, a shown
\* picture has its bytes, and a stored object that nobody refers to is one that a failed or
\* overtaken request has left.
THEOREM DocumentRowsSound ==
  ASSUME D!NoneIsNoRow
  PROVE  D!Spec => []D!DocumentsSound
<1>1. D!Init => DocumentIInv
  BY DocumentInitIInv
<1>2. DocumentIInv /\ [D!Next]_(D!vars) => DocumentIInv'
  BY DocumentNextIInv
<1>3. DocumentIInv => D!DocumentsSound
  BY InvariantSound
<1> QED BY <1>1, <1>2, <1>3, PTL DEF D!Spec

\* Rows disappear in Delete alone, which comes after the objects of all of them are removed.
LEMMA RowsGoWithBytes ==
  ASSUME D!NoneIsNoRow, DocumentIInv, [D!Next]_(D!vars), NEW d \in D!Rows, document'[d] = None
  PROVE  ~D!Stored(document[d].key)
<1>1. d \in Documents /\ document[d] # None
  BY DocumentRowTyped DEF DocumentIInv, D!Rows
<1>2. ASSUME NEW r \in Writers, D!Create(r, d)
      PROVE  FALSE
  BY <1>1, <1>2 DEF D!Create
<1>3. ASSUME NEW r \in Writers, NEW e \in Documents, D!Create(r, e)
      PROVE  FALSE
  BY <1>1, <1>2, <1>3 DEF D!Create, DocumentIInv, D!TypeOK
<1>4. ASSUME NEW r \in Writers, D!Update(r)
      PROVE  FALSE
  <2>1. document'[d] = IF d \in docRequest[r].documents
                       THEN [document[d] EXCEPT !.access = docRequest[r].access]
                       ELSE document[d]
    BY <1>1, <1>4 DEF D!Update
  <2>2. docRequest[r] \in D!Request
    BY <1>4, RequestTyped DEF D!Update, D!At, DocumentIInv
  <2>3. document'[d] \in D!Document
    BY <2>1, <2>2, DocumentRowTyped DEF DocumentIInv, D!Document, D!Request
  <2> QED BY <2>3, Zenon DEF D!NoneIsNoRow
<1>5. PICK r \in Writers : D!Delete(r)
  BY <1>1, <1>3, <1>4
     DEF D!Next, D!vars, D!Upload, D!CheckUpdate, D!CheckDelete, D!ReadPicture, D!PutPicture,
         D!Erase,
         D!CreateFails, D!Undo, D!SetPicture, D!DropPicture, D!Fail
<1>6. d \in docRequest[r].documents /\ D!At(r, "delete") /\ Deletes(r)
  BY <1>1, <1>5 DEF D!Delete, D!StillThere, D!At, Deletes
<1> QED BY <1>6 DEF DocumentIInv, DeletionsInStep, D!Stored

\* A deletion that failed halfway can be repeated: the row stays until the bytes are gone.
THEOREM DocumentRowsStay ==
  ASSUME D!NoneIsNoRow
  PROVE  D!Spec => D!GoneWithBytes
<1>1. D!Init => DocumentIInv
  BY DocumentInitIInv
<1>2. DocumentIInv /\ [D!Next]_(D!vars) => DocumentIInv'
  BY DocumentNextIInv
<1> DEFINE Gone == \A d \in D!Rows : document'[d] = None => ~D!Stored(document[d].key)
<1>3. DocumentIInv /\ [D!Next]_(D!vars) => [Gone]_(D!vars)
  BY RowsGoWithBytes
<1> QED BY <1>1, <1>2, <1>3, PTL DEF D!Spec, D!GoneWithBytes
-----------------------------------------------------------------------------
(* Counting. *)

\* Imports counts as this module does.
LEMMA Counting == \A S : I!Cardinality(S) = Cardinality(S)
BY DEF I!Cardinality, Cardinality

\* Rotation counts as this module does.
LEMMA CountedAlike ==
  /\ \A S : R!Cardinality(S) = Cardinality(S)
  /\ \A S : R!IsFiniteSet(S) <=> IsFiniteSet(S)
BY DEF R!Cardinality, Cardinality, R!IsFiniteSet, IsFiniteSet

\* A finite set of numbers can be gone through upwards: the n-th of them has n up to it.
LEMMA PlacesCounted ==
  ASSUME NEW P, IsFiniteSet(P), P \subseteq Nat
  PROVE  \E f \in [1..R!Cardinality(P) -> P] :
           /\ \A i \in P : \E n \in 1..R!Cardinality(P) : f[n] = i
           /\ \A m, n \in 1..R!Cardinality(P) : m < n => f[m] < f[n]
           /\ \A n \in 1..R!Cardinality(P) : f[n] = R!Nth(P, n)
           /\ \A n \in 1..R!Cardinality(P) : R!Cardinality({k \in P : k <= f[n]}) = n
<1> DEFINE C == R!Cardinality(P)
           Upto(i) == {k \in P : k <= i}
           rank == [i \in P |-> R!Cardinality(Upto(i))]
<1>1. C \in Nat
  BY FS_CardinalityType, CountedAlike
<1>2. \A i \in P : rank[i] \in 1..C
  <2> SUFFICES ASSUME NEW i \in P PROVE R!Cardinality(Upto(i)) \in 1..C
    OBVIOUS
  <2>1. IsFiniteSet(Upto(i)) /\ R!Cardinality(Upto(i)) <= C
    BY FS_Subset, CountedAlike
  <2>2. R!Cardinality(Upto(i)) \in Nat /\ R!Cardinality(Upto(i)) # 0
    <3>1. i \in Upto(i)
      OBVIOUS
    <3> QED BY <2>1, <3>1, FS_CardinalityType, CountedAlike, FS_EmptySet, CountedAlike
  <2> HIDE DEF Upto
  <2> QED BY <1>1, <2>1, <2>2
<1>3. \A i, j \in P : i < j => rank[i] < rank[j]
  <2> SUFFICES ASSUME NEW i \in P, NEW j \in P, i < j
               PROVE  R!Cardinality(Upto(i)) < R!Cardinality(Upto(j))
    OBVIOUS
  <2>1. Upto(i) \subseteq Upto(j) /\ j \in Upto(j) /\ j \notin Upto(i)
    <3>1. i \in Nat /\ j \in Nat /\ \A k \in P : k \in Nat
      OBVIOUS
    <3>2. \A k \in P : k <= i => k <= j
      BY <3>1
    <3>3. j <= j /\ ~(j <= i)
      BY <3>1
    <3> QED BY <3>2, <3>3, Zenon
  <2>2. IsFiniteSet(Upto(j)) /\ IsFiniteSet(Upto(i))
    BY FS_Subset, CountedAlike
  <2> HIDE DEF Upto
  <2>3. R!Cardinality(Upto(i)) <= R!Cardinality(Upto(j))
        /\ R!Cardinality(Upto(i)) # R!Cardinality(Upto(j))
    BY <2>1, <2>2, FS_Subset, CountedAlike
  <2> QED BY <2>2, <2>3, FS_CardinalityType, CountedAlike
<1>4. rank \in Injection(P, 1..C)
  <2>1. rank \in [P -> 1..C]
    BY <1>2
  <2>2. \A i, j \in P : rank[i] = rank[j] => i = j
    <3> SUFFICES ASSUME NEW i \in P, NEW j \in P, rank[i] = rank[j], i # j PROVE FALSE
      OBVIOUS
    <3>1. i \in Nat /\ j \in Nat
      OBVIOUS
    <3>2. rank[i] \in 1..C /\ rank[j] \in 1..C
      BY <1>2
    <3> HIDE DEF rank
    <3> QED BY <1>1, <1>3, <3>1, <3>2
  <2> QED BY <2>1, <2>2 DEF Injection, IsInjective
<1>5. rank \in Surjection(P, 1..C)
  <2>1. IsFiniteSet(1..C) /\ R!Cardinality(1..C) = C
    BY <1>1, FS_Interval, CountedAlike
  <2> HIDE DEF rank
  <2> QED BY <1>4, <2>1, FS_Injection, CountedAlike
<1>6. \A n \in 1..C : R!Nth(P, n) \in P /\ rank[R!Nth(P, n)] = n
  <2> SUFFICES ASSUME NEW n \in 1..C
               PROVE  R!Nth(P, n) \in P /\ R!Cardinality(Upto(R!Nth(P, n))) = n
    OBVIOUS
  <2>1. \E i \in P : R!Cardinality(Upto(i)) = n
    BY <1>5 DEF Surjection
  <2> QED BY <2>1 DEF R!Nth
<1> DEFINE f == [n \in 1..C |-> R!Nth(P, n)]
<1>7. f \in [1..C -> P]
  BY <1>6
<1>8. \A n \in 1..C : f[n] = R!Nth(P, n) /\ rank[f[n]] = n /\ f[n] \in P
  BY <1>6
<1>9. \A i \in P : \E n \in 1..C : f[n] = i
  <2> SUFFICES ASSUME NEW i \in P PROVE f[rank[i]] = i
    BY <1>2
  <2>1. rank[i] \in 1..C
    BY <1>2
  <2>2. rank[f[rank[i]]] = rank[i] /\ f[rank[i]] \in P
    BY <1>8, <2>1
  <2> HIDE DEF rank, f
  <2> QED BY <1>4, <2>2 DEF Injection, IsInjective
<1>10. ASSUME NEW m \in 1..C, NEW n \in 1..C, m < n PROVE f[m] < f[n]
  <2>1. f[m] \in Nat /\ f[n] \in Nat /\ rank[f[m]] = m /\ rank[f[n]] = n
        /\ f[m] \in P /\ f[n] \in P
    BY <1>8
  <2> HIDE DEF rank, f
  <2>2. f[m] # f[n]
    BY <1>1, <1>10, <2>1
  <2>3. ~(f[n] < f[m])
    BY <1>1, <1>3, <1>10, <2>1
  <2> QED BY <2>1, <2>2, <2>3
<1>11. \A n \in 1..C : R!Cardinality({k \in P : k <= f[n]}) = n
  <2> SUFFICES ASSUME NEW n \in 1..C PROVE R!Cardinality(Upto(f[n])) = n
    OBVIOUS
  <2>1. rank[f[n]] = n /\ f[n] \in P
    BY <1>8
  <2> QED BY <2>1, Zenon
<1> QED BY <1>7, <1>8, <1>9, <1>10, <1>11

-----------------------------------------------------------------------------
(***************************************************************************)
(* Imports, for every file, batch size and number of jobs: a settled job's *)
(* figures and its list of unwritten rows are what the run did, wherever   *)
(* the run stopped.                                                        *)
(***************************************************************************)

LeadsCounted == \E S : leads \in Seq(S)

JobsTyped == job \in [Jobs -> I!Job \cup {None}]

\* A run has the fields it started with, and nothing of its file is forgotten.
RunShape(r) ==
  \E E, K, B : r \in [step: {"lookUp", "insert", "progress", "complete", "fail"},
                      landed: SUBSET Nat, seen: Nat, existing: E, ranked: K, inBatch: B]

RunsTyped ==
  /\ run = [j \in Jobs |-> run[j]]
  /\ \A j \in Jobs : run[j] # None => RunShape(run[j])

\* A run is one job's, under way; it holds exactly the rows written so far, and it comes to
\* its completion when none is left.
RunsMatch ==
  \A j \in Jobs : run[j] # None =>
    /\ job[j] # None /\ job[j].status = "PROCESSING"
    /\ run[j].landed = I!Written(j)
    /\ I!At(j, "complete") => I!Remaining(j) = {}

\* Until it is settled a job counts as failed the refused rows alone.
JobsMatch ==
  \A j \in Jobs : job[j] # None =>
    /\ I!Written(j) \subseteq I!Plain(job[j].file)
    /\ job[j].status = "PROCESSING" =>
         job[j].failed = I!Refused(job[j].file) /\ job[j].unwritten = {}

ImportIInv ==
  LeadsCounted /\ JobsTyped /\ RunsTyped /\ RunsMatch /\ JobsMatch /\ I!ReportMatchesTable

-----------------------------------------------------------------------------
(* Rows and batches. *)

LEMMA FunctionIsSeq ==
  ASSUME NEW n \in Nat, NEW S, NEW f \in [1..n -> S]
  PROVE  f \in Seq(S) /\ Len(f) = n
OBVIOUS

LEMMA PlainCounted ==
  ASSUME I!Inputs, NEW file \in Files
  PROVE  /\ Len(file) \in Nat /\ I!Plain(file) \subseteq 1..Len(file)
         /\ IsFiniteSet(I!Plain(file)) /\ I!Cardinality(I!Plain(file)) \in Nat
         /\ I!Cardinality(I!Plain(file)) <= Len(file) /\ I!Refused(file) \in Nat
<1>1. Len(file) \in Nat /\ DOMAIN file = 1..Len(file)
  BY LenProperties DEF I!Inputs
<1>2. I!Plain(file) \subseteq 1..Len(file)
  BY <1>1 DEF I!Plain
<1>3. IsFiniteSet(1..Len(file)) /\ I!Cardinality(1..Len(file)) = Len(file)
  <2>1. Len(file) \in Int /\ 1 \in Int
    BY <1>1
  <2>2. IsFiniteSet(1..Len(file))
        /\ I!Cardinality(1..Len(file)) = IF 1 > Len(file) THEN 0 ELSE Len(file) - 1 + 1
    BY <2>1, FS_Interval, Counting, Zenon
  <2> QED BY <1>1, <2>2
<1>4. IsFiniteSet(I!Plain(file)) /\ I!Cardinality(I!Plain(file)) <= Len(file)
  BY <1>2, <1>3, FS_Subset, Counting
<1>5. I!Cardinality(I!Plain(file)) \in Nat
  BY <1>4, FS_CardinalityType, Counting
<1> QED BY <1>1, <1>2, <1>4, <1>5 DEF I!Refused

\* What is left of a file and what is written make up what could be written.
LEMMA CountsAddUp ==
  ASSUME I!Inputs, NEW file \in Files, NEW W \in SUBSET I!Plain(file)
  PROVE  /\ I!Cardinality(W) \in Nat /\ I!Cardinality(I!Plain(file) \ W) \in Nat
         /\ I!Cardinality(W) + I!Cardinality(I!Plain(file) \ W) = I!Cardinality(I!Plain(file))
<1>1. IsFiniteSet(I!Plain(file))
  BY PlainCounted
<1>2. IsFiniteSet(W) /\ IsFiniteSet(I!Plain(file) \ W)
  BY <1>1, FS_Subset, Counting
<1>3. I!Cardinality(I!Plain(file) \ W)
        = I!Cardinality(I!Plain(file)) - I!Cardinality(I!Plain(file) \cap W)
  BY <1>1, FS_Difference, Counting
<1>4. I!Cardinality(I!Plain(file) \cap W) = I!Cardinality(W)
  <2>1. I!Plain(file) \cap W = W
    OBVIOUS
  <2> QED BY <2>1, Zenon
<1>5. /\ I!Cardinality(W) \in Nat /\ I!Cardinality(I!Plain(file) \ W) \in Nat
      /\ I!Cardinality(I!Plain(file)) \in Nat
  BY <1>1, <1>2, FS_CardinalityType, Counting
<1> DEFINE a == I!Cardinality(W)
           b == I!Cardinality(I!Plain(file) \ W)
           c == I!Cardinality(I!Plain(file))
<1>6. b = c - a /\ a \in Nat /\ b \in Nat /\ c \in Nat
  BY <1>3, <1>4, <1>5, Zenon
<1> HIDE DEF a, b, c
<1>7. a + b = c
  BY <1>6
<1> QED BY <1>5, <1>7 DEF a, b, c

LEMMA JobTyped ==
  ASSUME ImportIInv, NEW j \in Jobs, job[j] # None
  PROVE  job[j] \in I!Job /\ job[j].file \in Files
BY DEF ImportIInv, JobsTyped, I!Job

LEMMA JobIsSome ==
  ASSUME I!NoneIsNoRow, NEW w \in I!Job
  PROVE  w # None
BY Zenon DEF I!NoneIsNoRow

LEMMA BatchFinite ==
  ASSUME I!Inputs, ImportIInv, NEW j \in Jobs, run[j] # None, NEW i \in I!Batch(j)
  PROVE  /\ i \in I!Plain(job[j].file) /\ i \in Nat /\ I!Batch(j) \subseteq I!Plain(job[j].file)
         /\ I!Cardinality({k \in I!Batch(j) : k < i}) \in Nat
<1>1. job[j] # None /\ job[j].file \in Files
  BY JobTyped DEF ImportIInv, RunsMatch
<1>2. I!Batch(j) \subseteq I!Plain(job[j].file)
  BY DEF I!Batch, I!Remaining
<1>3. IsFiniteSet({k \in I!Batch(j) : k < i})
  BY <1>1, <1>2, PlainCounted, FS_Subset, Counting
<1> QED BY <1>1, <1>2, <1>3, PlainCounted, FS_CardinalityType, Counting

-----------------------------------------------------------------------------
(* The steps that keep the invariant. *)

\* A step that writes no job, and at most moves runs on or ends them.
MovesRuns ==
  /\ job' = job /\ LeadsCounted' /\ run' = [j \in Jobs |-> run'[j]]
  /\ \A j \in Jobs :
       \/ run'[j] = run[j] \/ run'[j] = None
       \/ /\ run[j] # None /\ RunShape(run'[j])
          /\ run'[j].landed = run[j].landed /\ run'[j].step # "complete"

LEMMA MovesKeep ==
  ASSUME ImportIInv, MovesRuns
  PROVE  ImportIInv'
<1>1. JobsTyped' /\ LeadsCounted'
  BY DEF ImportIInv, JobsTyped, MovesRuns
<1>2. RunsTyped'
  BY DEF ImportIInv, RunsTyped, MovesRuns
<1>3. \A j \in Jobs : I!Written(j)' = I!Written(j)
  BY DEF I!Written, MovesRuns
<1>4. RunsMatch'
  BY <1>3 DEF ImportIInv, RunsMatch, MovesRuns, I!At, I!Remaining
<1>5. JobsMatch' /\ I!ReportMatchesTable'
  BY <1>3 DEF ImportIInv, JobsMatch, I!ReportMatchesTable, MovesRuns
<1> QED BY <1>1, <1>2, <1>4, <1>5 DEF ImportIInv

LEMMA LookUpMoves ==
  ASSUME ImportIInv, NEW j \in Jobs, I!LookUp(j)
  PROVE  MovesRuns
<1>1. PICK wide \in BOOLEAN, c \in [I!Batch(j) -> 0..Len(leads)] :
        run' = [run EXCEPT ![j] = [@ EXCEPT !.step = "insert", !.seen = Len(leads),
                                            !.existing = c, !.ranked = I!RankedIn(j, wide),
                                            !.inBatch = I!InBatch(j, c)]]
  BY DEF I!LookUp
<1> DEFINE w == [run[j] EXCEPT !.step = "insert", !.seen = Len(leads),
                               !.existing = c, !.ranked = I!RankedIn(j, wide),
                               !.inBatch = I!InBatch(j, c)]
<1>2. run[j] # None /\ RunShape(run[j])
  BY DEF I!LookUp, I!At, ImportIInv, RunsTyped
<1>3. RunShape(w) /\ w.landed = run[j].landed /\ w.step = "insert"
  <2>1. Len(leads) \in Nat
    BY LenProperties DEF ImportIInv, LeadsCounted
  <2>2. PICK E, K, B : run[j] \in [step: {"lookUp", "insert", "progress", "complete", "fail"},
                                landed: SUBSET Nat, seen: Nat, existing: E, ranked: K, inBatch: B]
    BY <1>2 DEF RunShape
  <2> DEFINE M == I!InBatch(j, c)
             T == I!RankedIn(j, wide)
  <2> HIDE DEF M, T
  <2>3. w \in [step: {"lookUp", "insert", "progress", "complete", "fail"}, landed: SUBSET Nat,
               seen: Nat, existing: E \cup {c}, ranked: K \cup {T}, inBatch: B \cup {M}]
        /\ w.landed = run[j].landed /\ w.step = "insert"
    BY <2>1, <2>2 DEF M, T
  <2> QED BY <2>3 DEF RunShape
<1>4. run' = [i \in Jobs |-> IF i = j THEN w ELSE run[i]]
  BY <1>1 DEF ImportIInv, RunsTyped
<1> HIDE DEF w
<1> QED BY <1>2, <1>3, <1>4 DEF MovesRuns, I!LookUp, ImportIInv, LeadsCounted

LEMMA RunFailsMoves ==
  ASSUME ImportIInv, NEW j \in Jobs, I!RunFails(j)
  PROVE  MovesRuns
<1> DEFINE w == [run[j] EXCEPT !.step = "fail"]
<1>1. run[j] # None /\ RunShape(run[j])
  BY DEF I!RunFails, ImportIInv, RunsTyped
<1>2. RunShape(w) /\ w.landed = run[j].landed /\ w.step = "fail"
  BY <1>1 DEF RunShape
<1>3. run' = [i \in Jobs |-> IF i = j THEN w ELSE run[i]]
  BY DEF I!RunFails, I!Goto, ImportIInv, RunsTyped
<1> HIDE DEF w
<1> QED BY <1>1, <1>2, <1>3 DEF MovesRuns, I!RunFails, ImportIInv, LeadsCounted

LEMMA RunsEndMove ==
  ASSUME ImportIInv, I!Crash \/ \E j \in Jobs : I!FailureUnrecorded(j)
  PROVE  MovesRuns
<1>1. \A j \in Jobs : run'[j] = run[j] \/ run'[j] = None
  BY DEF I!Crash, I!FailureUnrecorded, I!Ended, ImportIInv, RunsTyped
<1>2. run' = [j \in Jobs |-> run'[j]]
  BY DEF I!Crash, I!FailureUnrecorded, I!Ended, ImportIInv, RunsTyped
<1> QED BY <1>1, <1>2 DEF MovesRuns, I!Crash, I!FailureUnrecorded, ImportIInv, LeadsCounted

\* The leads as rewritten, one by one.
LEMMA LeadsRewritten ==
  ASSUME NEW S, leads \in Seq(S), NEW T, NEW h, leads' = [k \in I!Ids |-> h[k]],
         \A k \in I!Ids : h[k] \in T
  PROVE  leads' \in Seq(T) /\ Len(leads') = Len(leads) /\ I!Ids' = I!Ids
<1>1. I!Ids = 1..Len(leads) /\ Len(leads) \in Nat
  BY LenProperties DEF I!Ids
<1>2. leads' \in [1..Len(leads) -> T]
  BY <1>1
<1>3. leads' \in Seq(T) /\ Len(leads') = Len(leads)
  BY <1>1, <1>2, FunctionIsSeq
<1> QED BY <1>1, <1>2, <1>3, LenProperties DEF I!Ids

\* What happens to one lead i after it was created.
Changes(i) ==
  \/ I!ArchiveLead(i) \/ I!RestoreLead(i) \/ I!DeleteLead(i)
  \/ \E keys \in Enquiries : I!EditLead(i, keys)

Submits(f) ==
  \/ \E keys \in Enquiries : I!CheckCreate(f, keys)
  \/ \E i \in I!Ids : I!CheckCopy(f, i)

\* The forms and the changes, which know nothing of the jobs.
LEMMA LeadsMove ==
  ASSUME ImportIInv,
         \/ \E f \in Forms : I!CreateLead(f) \/ Submits(f)
         \/ \E i \in I!Ids : Changes(i)
  PROVE  MovesRuns
<1>1. job' = job /\ run' = run
  BY DEF I!CreateLead, I!CheckCreate, I!CheckCopy, I!ArchiveLead, I!RestoreLead, I!DeleteLead,
         I!EditLead, I!Disturbs, Changes, Submits
<1>2. PICK S : leads \in Seq(S)
  BY DEF ImportIInv, LeadsCounted
<1>3. ASSUME NEW x, leads' = Append(leads, x)
      PROVE  LeadsCounted'
  <2>1. leads \in Seq(S \cup {x})
    BY <1>2, SeqMonotonic
  <2>2. Append(leads, x) \in Seq(S \cup {x})
    BY <2>1
  <2> QED BY <1>3, <2>2 DEF LeadsCounted
<1>4. ASSUME NEW i \in I!Ids, Changes(i)
      PROVE  LeadsCounted'
  <2>1. leads' = [k \in I!Ids |-> leads'[k]]
    <3>1. leads = [k \in I!Ids |-> leads[k]]
      BY <1>2, LenProperties DEF I!Ids
    <3> QED BY <1>4, <3>1
            DEF Changes, I!ArchiveLead, I!RestoreLead, I!DeleteLead, I!EditLead
  <2> DEFINE T == {leads'[k] : k \in I!Ids}
  <2>2. \A k \in I!Ids : leads'[k] \in T
    OBVIOUS
  <2>3. PICK h : h = leads'
    OBVIOUS
  <2> HIDE DEF T
  <2>4. leads' \in Seq(T)
    BY <1>2, <2>1, <2>2, <2>3, LeadsRewritten
  <2> QED BY <2>4 DEF LeadsCounted
<1>5. LeadsCounted'
  <2>1. CASE \E f \in Forms : I!CreateLead(f)
    BY <2>1, <1>2, <1>3 DEF I!CreateLead, LeadsCounted
  <2>2. CASE \E f \in Forms : Submits(f)
    BY <2>2, <1>2 DEF Submits, I!CheckCreate, I!CheckCopy, LeadsCounted
  <2>3. CASE \E i \in I!Ids : Changes(i)
    BY <2>3, <1>4
  <2> QED BY <2>1, <2>2, <2>3
<1> QED BY <1>1, <1>5 DEF MovesRuns, ImportIInv, RunsTyped

\* A job that is judged: nothing of it is written.
LEMMA ImportStartKeeps ==
  ASSUME I!Inputs, I!NoneIsNoRow, ImportIInv, NEW j \in Jobs, NEW file \in Files,
         I!StartImport(j, file)
  PROVE  ImportIInv'
<1>0. PICK wide \in BOOLEAN :
        job' = [job EXCEPT ![j] =
                  [file |-> file, status |-> "PROCESSING", imported |-> 0,
                   processed |-> I!Refused(file), failed |-> I!Refused(file),
                   unwritten |-> {}, flagged |-> I!Flagged(file, wide), written |-> {}]]
  BY DEF I!StartImport
<1> DEFINE b == [file |-> file, status |-> "PROCESSING", imported |-> 0,
                 processed |-> I!Refused(file), failed |-> I!Refused(file),
                 unwritten |-> {}, flagged |-> I!Flagged(file, wide), written |-> {}]
           w == [step |-> IF I!Plain(file) = {} THEN "complete" ELSE "lookUp",
                 landed |-> {}, seen |-> 0, existing |-> <<>>, ranked |-> <<>>,
                 inBatch |-> <<>>]
<1>1. I!Flagged(file, wide) \subseteq Nat /\ I!Refused(file) \in Nat
  BY PlainCounted DEF I!Flagged
<1>2. b \in I!Job
  BY <1>1 DEF I!Job, I!Statuses
<1>3. /\ b # None /\ b.file = file /\ b.status = "PROCESSING" /\ b.failed = I!Refused(file)
      /\ b.unwritten = {} /\ b.written = {}
  BY <1>2, JobIsSome
<1>4. RunShape(w) /\ w.landed = {} /\ (w.step = "complete" => I!Plain(file) = {})
  <2>1. w \in [step: {"lookUp", "insert", "progress", "complete", "fail"}, landed: SUBSET Nat,
               seen: Nat, existing: {<<>>}, ranked: {<<>>}, inBatch: {<<>>}]
    OBVIOUS
  <2> QED BY <2>1 DEF RunShape
<1> HIDE DEF b, w
<1>5. /\ \A i \in Jobs : job'[i] = IF i = j THEN b ELSE job[i]
      /\ run' = [i \in Jobs |-> IF i = j THEN w ELSE run[i]]
      /\ leads' = leads
  BY <1>0 DEF I!StartImport, b, w, ImportIInv, JobsTyped, RunsTyped
<1>6. LeadsCounted' /\ JobsTyped' /\ RunsTyped'
  <2>1. job' \in [Jobs -> I!Job \cup {None}]
    BY <1>0, <1>2 DEF b, ImportIInv, JobsTyped
  <2> QED BY <1>4, <1>5, <2>1 DEF ImportIInv, LeadsCounted, JobsTyped, RunsTyped
<1>7. /\ I!Written(j)' = {}
      /\ \A i \in Jobs : i # j => I!Written(i)' = I!Written(i)
  BY <1>3, <1>5 DEF I!Written
<1>8. RunsMatch'
  BY <1>3, <1>4, <1>5, <1>7 DEF ImportIInv, RunsMatch, I!At, I!Remaining
<1>9. JobsMatch' /\ I!ReportMatchesTable'
  BY <1>3, <1>5, <1>7 DEF ImportIInv, JobsMatch, I!ReportMatchesTable
<1> QED BY <1>6, <1>8, <1>9 DEF ImportIInv

\* A batch is written with its rows held as landed, in one step.
LEMMA InsertKeeps ==
  ASSUME I!Inputs, I!NoneIsNoRow, ImportIInv, NEW j \in Jobs, I!InsertBatch(j)
  PROVE  ImportIInv'
<1> DEFINE P == {<<i, I!IdOf(j, i)>> : i \in I!Batch(j)}
           b == [job[j] EXCEPT !.written = @ \cup P]
           w == [run[j] EXCEPT !.step = "progress", !.landed = I!Landed(j)]
<1>1. run[j] # None /\ RunShape(run[j]) /\ run[j].landed = I!Written(j)
      /\ job[j] # None /\ job[j].status = "PROCESSING"
  BY DEF I!InsertBatch, I!At, ImportIInv, RunsTyped, RunsMatch
<1>2. job[j] \in I!Job /\ Len(leads) \in Nat
  BY <1>1, JobTyped, LenProperties DEF ImportIInv, LeadsCounted
<1>3. /\ P \subseteq Nat \X Nat /\ I!Batch(j) \subseteq Nat
      /\ I!Batch(j) \subseteq I!Plain(job[j].file)
  <2>1. ASSUME NEW i \in I!Batch(j)
        PROVE  i \in Nat /\ i \in I!Plain(job[j].file) /\ I!IdOf(j, i) \in Nat
    <3> DEFINE n == I!Cardinality({k \in I!Batch(j) : k < i})
    <3>1. n \in Nat /\ i \in Nat /\ i \in I!Plain(job[j].file)
      BY <1>1, BatchFinite
    <3>2. I!IdOf(j, i) = Len(leads) + 1 + n
      BY DEF I!IdOf
    <3> HIDE DEF n
    <3> QED BY <1>2, <3>1, <3>2
  <2> QED BY <2>1
<1>4. \A x : x \in I!Batch(j) <=> \E p \in P : p[1] = x
  <2>1. \A i : <<i, I!IdOf(j, i)>>[1] = i
    OBVIOUS
  <2>2. ASSUME NEW x \in I!Batch(j)
        PROVE  \E p \in P : p[1] = x
    BY <2>1, Zenon
  <2>3. ASSUME NEW p \in P
        PROVE  p[1] \in I!Batch(j)
    BY <2>1, Zenon
  <2> HIDE DEF P
  <2> QED BY <2>2, <2>3
<1> HIDE DEF P
<1>5. /\ b \in I!Job /\ b.written = job[j].written \cup P /\ b.file = job[j].file
      /\ b.status = job[j].status /\ b.failed = job[j].failed /\ b.unwritten = job[j].unwritten
  BY <1>2, <1>3 DEF I!Job
<1>6. RunShape(w) /\ w.landed = I!Written(j) \cup I!Batch(j) /\ w.step = "progress"
  <2>1. PICK E, K, B : run[j] \in [step: {"lookUp", "insert", "progress", "complete", "fail"},
                                landed: SUBSET Nat, seen: Nat, existing: E, ranked: K, inBatch: B]
    BY <1>1 DEF RunShape
  <2>2. w \in [step: {"lookUp", "insert", "progress", "complete", "fail"},
               landed: SUBSET Nat, seen: Nat, existing: E, ranked: K, inBatch: B]
        /\ w.landed = run[j].landed \cup I!Batch(j) /\ w.step = "progress"
    BY <1>3, <2>1 DEF I!Landed
  <2> QED BY <1>1, <2>2 DEF RunShape
<1>7. b # None
  BY <1>5, JobIsSome
<1>8. /\ job' = [job EXCEPT ![j] = b]
      /\ run' = [run EXCEPT ![j] = w]
  BY DEF I!InsertBatch, P, ImportIInv, JobsTyped
<1> HIDE DEF b, w
<1>9. /\ \A i \in Jobs : job'[i] = IF i = j THEN b ELSE job[i]
      /\ run' = [i \in Jobs |-> IF i = j THEN w ELSE run[i]]
  BY <1>8 DEF ImportIInv, JobsTyped, RunsTyped
<1>10. LeadsCounted'
  <2>1. PICK S : leads \in Seq(S)
    BY DEF ImportIInv, LeadsCounted
  <2> DEFINE n == I!Cardinality(I!Batch(j))
             row == [k \in 1..n |-> CHOOSE i \in I!Batch(j) : I!IdOf(j, i) = Len(leads) + k]
             new == [k \in DOMAIN row |->
                       I!New(job[j].file[row[k]].keys, I!OriginalOf(j, row[k]), run[j].seen,
                             run[j].ranked[row[k]])]
             T == {new[k] : k \in 1..n}
  <2>2. n \in Nat
    <3>1. IsFiniteSet(I!Batch(j))
      BY <1>1, <1>3, JobTyped, PlainCounted, FS_Subset, Counting
    <3> QED BY <3>1, FS_CardinalityType, Counting
  <2>3. new \in [1..n -> T]
    OBVIOUS
  <2>4. leads' = leads \o new
    BY DEF I!InsertBatch
  <2> HIDE DEF n, new, T
  <2>5. new \in Seq(S \cup T) /\ leads \in Seq(S \cup T)
    BY <2>1, <2>2, <2>3, FunctionIsSeq, SeqMonotonic
  <2> QED BY <2>4, <2>5, ConcatProperties DEF LeadsCounted
<1>11. JobsTyped' /\ RunsTyped'
  <2>1. job' \in [Jobs -> I!Job \cup {None}]
    BY <1>5, <1>8 DEF ImportIInv, JobsTyped
  <2> QED BY <1>6, <1>9, <2>1 DEF ImportIInv, JobsTyped, RunsTyped
<1>12. /\ I!Written(j)' = I!Written(j) \cup I!Batch(j)
       /\ \A i \in Jobs : i # j => I!Written(i)' = I!Written(i)
  BY <1>4, <1>5, <1>9 DEF I!Written
<1>13. RunsMatch'
  BY <1>1, <1>5, <1>6, <1>7, <1>9, <1>12 DEF ImportIInv, RunsMatch, I!At, I!Remaining
<1>14. JobsMatch' /\ I!ReportMatchesTable'
  BY <1>1, <1>3, <1>5, <1>9, <1>12 DEF ImportIInv, JobsMatch, I!ReportMatchesTable
<1> QED BY <1>10, <1>11, <1>13, <1>14 DEF ImportIInv

\* The figures of a run that is under way.
LEMMA RunCounted ==
  ASSUME I!Inputs, ImportIInv, NEW j \in Jobs, run[j] # None
  PROVE  /\ job[j] \in I!Job /\ job[j] # None /\ job[j].file \in Files
         /\ job[j].status = "PROCESSING" /\ RunShape(run[j])
         /\ run[j].landed = I!Written(j) /\ I!Written(j) \subseteq I!Plain(job[j].file)
         /\ I!Remaining(j) = I!Plain(job[j].file) \ I!Written(j) /\ I!Remaining(j) \subseteq Nat
         /\ I!Cardinality(I!Written(j)) \in Nat /\ I!Cardinality(I!Remaining(j)) \in Nat
         /\ I!Cardinality(I!Written(j)) + I!Cardinality(I!Remaining(j))
              = I!Cardinality(I!Plain(job[j].file))
         /\ I!Cardinality(I!Plain(job[j].file)) \in Nat /\ Len(job[j].file) \in Nat
         /\ I!Refused(job[j].file) = Len(job[j].file) - I!Cardinality(I!Plain(job[j].file))
         /\ I!Refused(job[j].file) \in Nat
<1>1. /\ job[j] \in I!Job /\ job[j] # None /\ job[j].file \in Files
      /\ job[j].status = "PROCESSING" /\ RunShape(run[j])
      /\ run[j].landed = I!Written(j) /\ I!Written(j) \subseteq I!Plain(job[j].file)
  BY JobTyped DEF ImportIInv, RunsTyped, RunsMatch, JobsMatch
<1>2. I!Remaining(j) = I!Plain(job[j].file) \ I!Written(j)
  BY <1>1 DEF I!Remaining
<1>3. /\ I!Plain(job[j].file) \subseteq 1..Len(job[j].file) /\ Len(job[j].file) \in Nat
      /\ I!Cardinality(I!Plain(job[j].file)) \in Nat /\ I!Refused(job[j].file) \in Nat
  BY <1>1, PlainCounted
<1>4. /\ I!Cardinality(I!Written(j)) \in Nat /\ I!Cardinality(I!Remaining(j)) \in Nat
      /\ I!Cardinality(I!Written(j)) + I!Cardinality(I!Remaining(j))
           = I!Cardinality(I!Plain(job[j].file))
  BY <1>1, <1>2, CountsAddUp
<1>5. I!Remaining(j) \subseteq Nat
  BY <1>2, <1>3
<1> QED BY <1>1, <1>2, <1>3, <1>4, <1>5 DEF I!Refused

LEMMA ProgressKeeps ==
  ASSUME I!Inputs, I!NoneIsNoRow, ImportIInv, NEW j \in Jobs, I!Progress(j)
  PROVE  ImportIInv'
<1> DEFINE n == I!Cardinality(run[j].landed)
           b == [job[j] EXCEPT !.imported = n, !.processed = I!Refused(job[j].file) + n]
           w == [run[j] EXCEPT !.step = I!NextStep(j)]
<1>1. run[j] # None
  BY DEF I!Progress, I!At
<1>2. n \in Nat /\ I!Refused(job[j].file) + n \in Nat
  BY <1>1, RunCounted
<1>3. /\ b \in I!Job /\ b.written = job[j].written /\ b.file = job[j].file
      /\ b.status = job[j].status /\ b.failed = job[j].failed /\ b.unwritten = job[j].unwritten
  <2>1. job[j] \in I!Job
    BY <1>1, RunCounted
  <2> QED BY <1>2, <2>1 DEF I!Job
<1>4. RunShape(w) /\ w.landed = run[j].landed /\ (w.step = "complete" => I!Remaining(j) = {})
  <2>1. PICK E, K, B : run[j] \in [step: {"lookUp", "insert", "progress", "complete", "fail"},
                                landed: SUBSET Nat, seen: Nat, existing: E, ranked: K, inBatch: B]
    BY <1>1, RunCounted DEF RunShape
  <2>2. w \in [step: {"lookUp", "insert", "progress", "complete", "fail"},
               landed: SUBSET Nat, seen: Nat, existing: E, ranked: K, inBatch: B]
        /\ w.landed = run[j].landed /\ w.step = I!NextStep(j)
    BY <2>1 DEF I!NextStep
  <2> QED BY <2>2 DEF RunShape, I!NextStep
<1>5. b # None
  BY <1>3, JobIsSome
<1>6. job' = [job EXCEPT ![j] = b] /\ run' = [run EXCEPT ![j] = w]
  BY DEF I!Progress, I!Goto, ImportIInv, JobsTyped
<1> HIDE DEF n, b, w
<1>7. /\ \A i \in Jobs : job'[i] = IF i = j THEN b ELSE job[i]
      /\ run' = [i \in Jobs |-> IF i = j THEN w ELSE run[i]]
  BY <1>6 DEF ImportIInv, JobsTyped, RunsTyped
<1>8. LeadsCounted' /\ JobsTyped' /\ RunsTyped'
  <2>1. job' \in [Jobs -> I!Job \cup {None}]
    BY <1>3, <1>6 DEF ImportIInv, JobsTyped
  <2> QED BY <1>4, <1>7, <2>1 DEF I!Progress, ImportIInv, LeadsCounted, JobsTyped, RunsTyped
<1>9. \A i \in Jobs : I!Written(i)' = I!Written(i)
  BY <1>3, <1>7 DEF I!Written
<1>10. RunsMatch'
  BY <1>1, <1>3, <1>4, <1>5, <1>7, <1>9 DEF ImportIInv, RunsMatch, I!At, I!Remaining
<1>11. job[j] # None /\ job[j].status = "PROCESSING"
  BY <1>1, RunCounted
<1>12. JobsMatch'
  <2> SUFFICES ASSUME NEW i \in Jobs, job'[i] # None
               PROVE  /\ I!Written(i) \subseteq I!Plain(job'[i].file)
                      /\ job'[i].status = "PROCESSING" =>
                           job'[i].failed = I!Refused(job'[i].file) /\ job'[i].unwritten = {}
    BY <1>9 DEF JobsMatch
  <2>1. CASE i = j
    BY <1>3, <1>7, <1>11, <2>1 DEF ImportIInv, JobsMatch
  <2>2. CASE i # j
    BY <1>7, <2>2 DEF ImportIInv, JobsMatch
  <2> QED BY <2>1, <2>2
<1>13. I!ReportMatchesTable'
  <2> SUFFICES ASSUME NEW i \in Jobs, job'[i] # None, job'[i].status # "PROCESSING"
               PROVE  /\ job'[i].imported = I!Cardinality(I!Written(i))
                      /\ job'[i].unwritten = I!Plain(job'[i].file) \ I!Written(i)
                      /\ job'[i].imported + job'[i].failed = Len(job'[i].file)
                      /\ job'[i].processed = Len(job'[i].file)
    BY <1>9 DEF I!ReportMatchesTable
  <2>1. job'[i] = job[i]
    BY <1>3, <1>7, <1>11
  <2> QED BY <2>1 DEF ImportIInv, I!ReportMatchesTable
<1> QED BY <1>8, <1>10, <1>12, <1>13 DEF ImportIInv

\* A job that is settled, as completed or as failed: its figures are those of its run.
Settles(j, b) ==
  /\ run[j] # None
  /\ b \in I!Job /\ b.file = job[j].file /\ b.written = job[j].written /\ b.status # "PROCESSING"
  /\ b.imported = I!Cardinality(I!Written(j)) /\ b.unwritten = I!Remaining(j)
  /\ b.imported + b.failed = Len(job[j].file) /\ b.processed = Len(job[j].file)
  /\ job' = [job EXCEPT ![j] = b] /\ run' = I!Ended(j) /\ leads' = leads

LEMMA CompleteSettles ==
  ASSUME I!Inputs, ImportIInv, NEW j \in Jobs, I!Complete(j)
  PROVE  \E b : Settles(j, b)
<1> DEFINE c == I!Cardinality(I!Plain(job[j].file))
           n == Len(job[j].file)
           b == [job[j] EXCEPT !.status = "COMPLETED", !.imported = c, !.processed = n]
<1>1. run[j] # None /\ I!Remaining(j) = {} /\ job[j].failed = I!Refused(job[j].file)
      /\ job[j].unwritten = {}
  BY RunCounted DEF I!Complete, I!At, ImportIInv, RunsMatch, JobsMatch
<1>2. /\ I!Plain(job[j].file) = I!Written(j) /\ c \in Nat /\ n \in Nat
      /\ job[j].failed = n - c /\ job[j] \in I!Job
  BY <1>1, RunCounted
<1>3. c = I!Cardinality(I!Written(j))
  BY <1>2, Zenon
<1>4. job' = [job EXCEPT ![j] = b] /\ run' = I!Ended(j) /\ leads' = leads
  BY DEF I!Complete, ImportIInv, JobsTyped
<1> HIDE DEF c, n
<1>5. /\ b \in I!Job /\ b.file = job[j].file /\ b.written = job[j].written
      /\ b.status = "COMPLETED" /\ b.imported = c /\ b.unwritten = {} /\ b.failed = n - c
      /\ b.processed = n
  BY <1>1, <1>2 DEF I!Job, I!Statuses
<1> HIDE DEF b
<1>6. b.imported + b.failed = n
  BY <1>2, <1>5
<1>7. Settles(j, b)
  BY <1>1, <1>3, <1>4, <1>5, <1>6 DEF Settles, n
<1> QED BY <1>7

LEMMA FailureSettles ==
  ASSUME I!Inputs, ImportIInv, NEW j \in Jobs, I!RecordFailure(j)
  PROVE  \E b : Settles(j, b)
<1> DEFINE a == I!Cardinality(run[j].landed)
           m == I!Cardinality(I!Remaining(j))
           n == Len(job[j].file)
           f == I!Refused(job[j].file)
           b == [job[j] EXCEPT !.status = "FAILED", !.imported = a, !.processed = n,
                               !.unwritten = I!Remaining(j), !.failed = f + m]
<1>1. run[j] # None
  BY DEF I!RecordFailure, I!At
<1>2. /\ a \in Nat /\ m \in Nat /\ n \in Nat /\ f \in Nat /\ a + f + m = n
      /\ a = I!Cardinality(I!Written(j)) /\ job[j] \in I!Job /\ I!Remaining(j) \subseteq Nat
  <2> DEFINE c == I!Cardinality(I!Plain(job[j].file))
  <2>1. /\ run[j].landed = I!Written(j) /\ I!Cardinality(I!Written(j)) \in Nat /\ m \in Nat
        /\ I!Cardinality(I!Written(j)) + m = c /\ c \in Nat /\ n \in Nat /\ f \in Nat /\ f = n - c
        /\ job[j] \in I!Job /\ I!Remaining(j) \subseteq Nat
    BY <1>1, RunCounted
  <2>2. a = I!Cardinality(I!Written(j))
    BY <2>1
  <2> HIDE DEF a, m, n, f, c
  <2> QED BY <2>1, <2>2
<1>3. job' = [job EXCEPT ![j] = b] /\ run' = I!Ended(j) /\ leads' = leads
  BY DEF I!RecordFailure, ImportIInv, JobsTyped
<1> HIDE DEF a, m, n, f
<1>4. /\ b \in I!Job /\ b.file = job[j].file /\ b.written = job[j].written
      /\ b.status = "FAILED" /\ b.imported = a /\ b.unwritten = I!Remaining(j)
      /\ b.failed = f + m /\ b.processed = n
  <2> DEFINE left == I!Remaining(j)
             s == f + m
  <2>1. left \in SUBSET Nat /\ s \in Nat
    BY <1>2
  <2> HIDE DEF left, s
  <2>2. [job[j] EXCEPT !.status = "FAILED", !.imported = a, !.processed = n,
                       !.unwritten = left, !.failed = s] \in I!Job
    BY <1>2, <2>1 DEF I!Job, I!Statuses
  <2> QED BY <1>2, <2>1, <2>2 DEF I!Job, left, s
<1> HIDE DEF b
<1>5. b.imported + b.failed = n
  BY <1>2, <1>4
<1>6. Settles(j, b)
  BY <1>1, <1>2, <1>3, <1>4, <1>5 DEF Settles, n
<1> QED BY <1>6

LEMMA SettlesKeeps ==
  ASSUME I!Inputs, I!NoneIsNoRow, ImportIInv, NEW j \in Jobs, NEW b, Settles(j, b)
  PROVE  ImportIInv'
<1>1. b # None
  BY JobIsSome DEF Settles
<1>2. /\ \A i \in Jobs : job'[i] = IF i = j THEN b ELSE job[i]
      /\ run' = [i \in Jobs |-> IF i = j THEN None ELSE run[i]]
      /\ job' \in [Jobs -> I!Job \cup {None}] /\ leads' = leads
  BY DEF Settles, I!Ended, ImportIInv, JobsTyped, RunsTyped
<1>3. LeadsCounted' /\ JobsTyped' /\ RunsTyped'
  BY <1>2 DEF ImportIInv, LeadsCounted, JobsTyped, RunsTyped
<1>4. \A i \in Jobs : I!Written(i)' = I!Written(i)
  BY <1>2 DEF I!Written, Settles
<1>5. RunsMatch'
  BY <1>2, <1>4 DEF ImportIInv, RunsMatch, I!At, I!Remaining
<1>6. JobsMatch'
  BY <1>2, <1>4, RunCounted DEF ImportIInv, JobsMatch, Settles
<1>7. I!ReportMatchesTable'
  BY <1>2, <1>4, RunCounted DEF ImportIInv, I!ReportMatchesTable, Settles
<1> QED BY <1>3, <1>5, <1>6, <1>7 DEF ImportIInv

-----------------------------------------------------------------------------
(* The invariant, and what follows from it. *)

LEMMA ImportInitIInv ==
  ASSUME I!Init
  PROVE  ImportIInv
<1>1. LeadsCounted
  BY EmptySeq DEF I!Init, LeadsCounted
<1> QED BY <1>1
        DEF I!Init, ImportIInv, JobsTyped, RunsTyped, RunsMatch, JobsMatch, I!ReportMatchesTable

LEMMA ImportNextIInv ==
  ASSUME I!Inputs, I!NoneIsNoRow, ImportIInv, [I!Next]_(I!vars)
  PROVE  ImportIInv'
<1>1. ASSUME NEW j \in Jobs, I!Steps(j)
      PROVE  ImportIInv'
  <2>1. CASE I!LookUp(j)
    BY <2>1, LookUpMoves, MovesKeep
  <2>2. CASE I!InsertBatch(j)
    BY <2>2, InsertKeeps
  <2>3. CASE I!Progress(j)
    BY <2>3, ProgressKeeps
  <2>4. CASE I!Complete(j)
    BY <2>4, CompleteSettles, SettlesKeeps
  <2>5. CASE I!RecordFailure(j)
    BY <2>5, FailureSettles, SettlesKeeps
  <2>6. CASE I!RunFails(j)
    BY <2>6, RunFailsMoves, MovesKeep
  <2>7. CASE I!FailureUnrecorded(j)
    BY <2>7, RunsEndMove, MovesKeep
  <2> QED BY <1>1, <2>1, <2>2, <2>3, <2>4, <2>5, <2>6, <2>7 DEF I!Steps
<1>2. ASSUME NEW j \in Jobs, NEW file \in Files, I!StartImport(j, file)
      PROVE  ImportIInv'
  BY <1>2, ImportStartKeeps
<1>3. CASE \/ \E f \in Forms : I!CreateLead(f) \/ Submits(f)
           \/ \E i \in I!Ids : Changes(i)
  BY <1>3, LeadsMove, MovesKeep
<1>4. CASE I!Crash
  BY <1>4, RunsEndMove, MovesKeep
<1>5. CASE UNCHANGED I!vars
  BY <1>5 DEF I!vars, ImportIInv, LeadsCounted, JobsTyped, RunsTyped, RunsMatch, JobsMatch,
              I!ReportMatchesTable, I!Written, I!Remaining, I!At
<1> QED BY <1>1, <1>2, <1>3, <1>4, <1>5 DEF I!Next, Submits, Changes

\* A settled job tells the truth, wherever its run failed and whether or not it is given its turns:
\* it counts what was written, reports exactly the rows that were not, and its totals add up.
THEOREM SettledJobsSound ==
  ASSUME I!Inputs, I!NoneIsNoRow
  PROVE  I!Init /\ [][I!Next]_(I!vars) => []I!ReportMatchesTable
<1>1. I!Init => ImportIInv
  BY ImportInitIInv
<1>2. ImportIInv /\ [I!Next]_(I!vars) => ImportIInv'
  BY ImportNextIInv
<1>3. ImportIInv => I!ReportMatchesTable
  BY DEF ImportIInv
<1> QED BY <1>1, <1>2, <1>3, PTL
-----------------------------------------------------------------------------
(***************************************************************************)
(* The duplicates, for any files, batches, jobs and forms at once, and any *)
(* leads deleted between: a lead that shares a contact is linked, and what *)
(* a preview said comes true.  The invariant says how far a lookup's       *)
(* answer holds while other requests write: it has seen every lead unless  *)
(* one came after it, and what it found stands in the table, with its      *)
(* contacts, whatever is deleted.                                          *)
(***************************************************************************)

\* What holds of 0 and of the number after each, up to N, holds up to N.
LEMMA Upward ==
  ASSUME NEW N \in Nat, NEW P, 0 \in P, \A k \in 0..N : k \in P /\ k < N => k + 1 \in P
  PROVE  0..N \subseteq P
<1> DEFINE Missed == (0..N) \ P
           Failing == {0..k : k \in Missed}
<1>1. SUFFICES ASSUME Missed # {} PROVE FALSE
  OBVIOUS
<1>2. IsFiniteSet(0..N)
  BY FS_Interval
<1>3. IsWellFoundedOn(StrictSubsetOrdering(0..N), FiniteSubsetsOf(0..N))
  BY <1>2, FS_StrictSubsetOrderingWellFounded
<1>4. Failing \subseteq FiniteSubsetsOf(0..N)
  <2>1. \A k \in Missed : 0..k \in SUBSET (0..N)
    OBVIOUS
  <2> QED BY <2>1, <1>2, FS_FiniteSubsetsOfFinite
<1>5. Failing # {}
  BY <1>1
<1>6. PICK A \in Failing : \A B \in Failing : <<B, A>> \notin StrictSubsetOrdering(0..N)
  <2> HIDE DEF Failing
  <2> QED BY <1>3, <1>4, <1>5, WFMin
<1>7. PICK k \in Missed : A = 0..k
  BY <1>6
<1>8. k \in 0..N /\ k # 0 /\ k \notin P
  BY <1>7
<1>9. k - 1 \in 0..N /\ k - 1 < N /\ (k - 1) + 1 = k
  BY <1>8
<1>10. k - 1 \notin P
  BY <1>8, <1>9
<1>11. 0..(k - 1) \in Failing
  BY <1>9, <1>10
<1>12. /\ 0..(k - 1) \in SUBSET (0..N) /\ 0..k \in SUBSET (0..N)
       /\ 0..(k - 1) \subseteq 0..k /\ 0..(k - 1) # 0..k
  <2>1. k \in 0..k /\ k \notin 0..(k - 1)
    BY <1>8
  <2> QED BY <1>8, <1>9, <2>1
<1> QED BY <1>6, <1>7, <1>11, <1>12 DEF StrictSubsetOrdering

-----------------------------------------------------------------------------
(* A batch. *)

\* The earlier rows of the batch that row i shares a contact with, and the row it duplicates,
\* given what the earlier ones duplicate.
Repeated(j, i) == {k \in I!Batch(j) : k < i /\ I!Shares(j, i, k)}
Repeats(j, c, of, i) ==
  LET linked == {k \in Repeated(j, i) : c[k] # 0 \/ of[k] # 0}
  IN IF c[i] # 0 \/ Repeated(j, i) = {} THEN 0
     ELSE CHOOSE k \in I!Originals(Repeated(j, i), linked, [h \in Repeated(j, i) |-> h]) : TRUE

Links(j, c, of) == of = [i \in I!Batch(j) |-> Repeats(j, c, of, i)]

LEMMA AgreedRepeats ==
  ASSUME NEW j, NEW c, NEW f, NEW g, NEW i,
         \A k \in Repeated(j, i) : f[k] = g[k]
  PROVE  Repeats(j, c, f, i) = Repeats(j, c, g, i)
<1> DEFINE X == {k \in Repeated(j, i) : c[k] # 0 \/ f[k] # 0}
           Y == {k \in Repeated(j, i) : c[k] # 0 \/ g[k] # 0}
           With(linked) ==
             IF c[i] # 0 \/ Repeated(j, i) = {} THEN 0
             ELSE CHOOSE k \in I!Originals(Repeated(j, i), linked, [h \in Repeated(j, i) |-> h]) : TRUE
<1>1. X = Y
  OBVIOUS
<1>2. Repeats(j, c, f, i) = With(X) /\ Repeats(j, c, g, i) = With(Y)
  BY DEF Repeats
<1> HIDE DEF X, Y, With
<1> QED BY <1>1, <1>2

\* The rows of a batch are judged one after another.
LEMMA LinksExist ==
  ASSUME NEW j, NEW c, NEW N \in Nat, I!Batch(j) \subseteq 1..N
  PROVE  \E f : Links(j, c, f)
<1> DEFINE Upto(n) == {i \in I!Batch(j) : i <= n}
           Some(n) == \E f : f = [i \in Upto(n) |-> Repeats(j, c, f, i)]
           P == {n \in 0..N : Some(n)}
<1>1. 0 \in P
  <2> DEFINE f == [i \in {} |-> 0]
  <2>1. Upto(0) = {}
    OBVIOUS
  <2>2. f = [i \in Upto(0) |-> Repeats(j, c, f, i)]
    BY <2>1
  <2>3. Some(0)
    BY <2>2
  <2> HIDE DEF Some
  <2> QED BY <2>3
<1>2. ASSUME NEW n \in 0..N, n \in P, n < N PROVE n + 1 \in P
  <2>1. PICK f : f = [i \in Upto(n) |-> Repeats(j, c, f, i)]
    BY <1>2
  <2> DEFINE g == [i \in Upto(n + 1) |-> IF i \in Upto(n) THEN f[i] ELSE Repeats(j, c, f, i)]
  <2>2. ASSUME NEW i \in Upto(n + 1)
        PROVE  g[i] = Repeats(j, c, f, i) /\ \A k \in Repeated(j, i) : g[k] = f[k]
    <3>1. g[i] = Repeats(j, c, f, i)
      BY <2>1
    <3>2. ASSUME NEW k \in Repeated(j, i) PROVE k \in Upto(n) /\ k \in Upto(n + 1)
      <4>1. k \in I!Batch(j) /\ k < i /\ k \in 1..N /\ i \in 1..N /\ i <= n + 1
        BY DEF Repeated
      <4> QED BY <4>1
    <3> QED BY <3>1, <3>2
  <2> HIDE DEF g
  <2>3. \A i \in Upto(n + 1) : g[i] = Repeats(j, c, g, i)
    BY <2>2, AgreedRepeats
  <2>4. g = [i \in Upto(n + 1) |-> g[i]]
    BY DEF g
  <2>5. g = [i \in Upto(n + 1) |-> Repeats(j, c, g, i)]
    <3> HIDE DEF Upto
    <3> QED BY <2>3, <2>4
  <2>6. Some(n + 1)
    BY <2>5
  <2> HIDE DEF Some
  <2> QED BY <1>2, <2>6
<1>3. N \in P
  <2> HIDE DEF P
  <2>1. 0..N \subseteq P
    BY <1>1, <1>2, Upward
  <2> QED BY <2>1
<1>4. Upto(N) = I!Batch(j)
  OBVIOUS
<1> HIDE DEF Upto
<1>5. Some(N)
  BY <1>3
<1> QED BY <1>4, <1>5 DEF Links

\* A set of naturals that is not empty has a least.
LEMMA LeastOf ==
  ASSUME NEW N \in Nat, NEW S \in SUBSET (1..N), S # {}
  PROVE  \E m \in S : \A x \in S : m <= x
<1> SUFFICES ASSUME \A m \in S : \E x \in S : x < m PROVE FALSE
  OBVIOUS
<1> DEFINE P == {n \in 0..N : \A x \in S : x > n}
<1>1. 0 \in P
  OBVIOUS
<1>2. ASSUME NEW n \in 0..N, n \in P, n < N PROVE n + 1 \in P
  BY <1>2
<1>3. N \in P
  <2> HIDE DEF P
  <2>1. 0..N \subseteq P
    BY <1>1, <1>2, Upward
  <2> QED BY <2>1
<1>4. PICK x \in S : TRUE
  OBVIOUS
<1>5. x > N /\ x \in 1..N
  BY <1>3
<1> QED BY <1>5

\* A row that repeats others of its batch, and matches no lead, duplicates an earlier one.
LEMMA InBatchLinks ==
  ASSUME NEW j, NEW c, NEW N \in Nat, I!Batch(j) \subseteq 1..N, NEW i \in I!Batch(j)
  PROVE  LET of == I!InBatch(j, c) IN
         /\ of[i] # 0 => of[i] \in I!Batch(j) /\ of[i] < i /\ I!Shares(j, i, of[i])
         /\ c[i] = 0 /\ Repeated(j, i) # {} => of[i] # 0
<1> DEFINE of == I!InBatch(j, c)
           linked == {k \in Repeated(j, i) : c[k] # 0 \/ of[k] # 0}
           Best == I!Originals(Repeated(j, i), linked, [h \in Repeated(j, i) |-> h])
<1>1. Links(j, c, CHOOSE f : Links(j, c, f))
  BY LinksExist
<1>2. Links(j, c, of)
  BY <1>1 DEF Links, Repeats, Repeated, I!InBatch
<1>3. of[i] = IF c[i] # 0 \/ Repeated(j, i) = {} THEN 0 ELSE CHOOSE k \in Best : TRUE
  BY <1>2 DEF Links, Repeats
<1>4. ASSUME Repeated(j, i) # {} PROVE Best # {} /\ Best \subseteq Repeated(j, i)
  <2> DEFINE Q == IF Repeated(j, i) \subseteq linked THEN Repeated(j, i) ELSE Repeated(j, i) \ linked
             age == [h \in Repeated(j, i) |-> h]
  <2>1. Q # {} /\ Q \subseteq Repeated(j, i) /\ Q \in SUBSET (1..N)
    <3> HIDE DEF linked
    <3>1. Repeated(j, i) \subseteq 1..N
      BY DEF Repeated
    <3> QED BY <1>4, <3>1
  <2>2. Best = {k \in Q : \A d \in Q : age[k] <= age[d]}
    BY DEF I!Originals
  <2> HIDE DEF Q
  <2>3. \A k \in Q : age[k] = k
    BY <2>1
  <2>4. PICK m \in Q : \A d \in Q : m <= d
    BY <2>1, LeastOf
  <2>5. m \in Best
    BY <2>2, <2>3, <2>4
  <2> HIDE DEF Best
  <2> QED BY <2>1, <2>2, <2>5
<1> HIDE DEF Best, of
<1>5. Repeated(j, i) # {} => (CHOOSE k \in Best : TRUE) \in Repeated(j, i)
  BY <1>4
<1>6. \A k \in Repeated(j, i) : k # 0 /\ k \in I!Batch(j) /\ k < i /\ I!Shares(j, i, k)
  <2>1. 0 \notin 1..N
    OBVIOUS
  <2> QED BY <2>1 DEF Repeated
<1> QED BY <1>3, <1>5, <1>6 DEF of

-----------------------------------------------------------------------------
(* The leads a batch becomes. *)

\* They have the next ids, in file order.
LEMMA BatchNumbered ==
  ASSUME I!Inputs, ImportIInv, NEW j \in Jobs, run[j] # None
  PROVE  LET B == I!Batch(j)
             C == I!Cardinality(B)
         IN /\ C \in Nat /\ Len(leads) \in Nat
            /\ \A i \in B : I!IdOf(j, i) \in Len(leads) + 1..Len(leads) + C
            /\ \A n \in 1..C : \E i \in B : I!IdOf(j, i) = Len(leads) + n
            /\ \A i, k \in B : i < k => I!IdOf(j, i) < I!IdOf(j, k)
<1> DEFINE B == I!Batch(j)
           C == I!Cardinality(B)
           N == Len(leads)
<1>1. N \in Nat
  BY LenProperties DEF ImportIInv, LeadsCounted
<1>2. IsFiniteSet(B) /\ B \subseteq Nat
  <2>1. job[j] # None /\ job[j].file \in Files
    BY JobTyped DEF ImportIInv, RunsMatch
  <2>2. B \subseteq I!Plain(job[j].file)
    BY DEF I!Batch, I!Remaining
  <2> QED BY <2>1, <2>2, PlainCounted, FS_Subset
<1>3. C \in Nat
  BY <1>2, FS_CardinalityType, Counting
<1>4. R!Cardinality(B) = C
  BY Counting, CountedAlike
<1>5. PICK f \in [1..C -> B] :
           /\ \A i \in B : \E n \in 1..C : f[n] = i
           /\ \A m, n \in 1..C : m < n => f[m] < f[n]
           /\ \A n \in 1..C : R!Cardinality({k \in B : k <= f[n]}) = n
  <2> HIDE DEF B, C
  <2>1. PICK f \in [1..R!Cardinality(B) -> B] :
           /\ \A i \in B : \E n \in 1..R!Cardinality(B) : f[n] = i
           /\ \A m, n \in 1..R!Cardinality(B) : m < n => f[m] < f[n]
           /\ \A n \in 1..R!Cardinality(B) : f[n] = R!Nth(B, n)
           /\ \A n \in 1..R!Cardinality(B) : R!Cardinality({k \in B : k <= f[n]}) = n
    BY <1>2, PlacesCounted
  <2>2. /\ f \in [1..C -> B]
        /\ \A i \in B : \E n \in 1..C : f[n] = i
        /\ \A m, n \in 1..C : m < n => f[m] < f[n]
    BY <1>4, <2>1
  <2>3. \A n \in 1..C : R!Cardinality({k \in B : k <= f[n]}) = n
    BY <1>4, <2>1, Zenon
  <2> QED BY <2>2, <2>3
<1>6. ASSUME NEW n \in 1..C PROVE I!IdOf(j, f[n]) = N + n
  <2> DEFINE i == f[n]
             L == {k \in B : k < i}
             U == {k \in B : k <= i}
  <2>1. i \in B /\ i \in Nat
    BY <1>2, <1>5
  <2>2. U = L \cup {i} /\ i \notin L
    <3> HIDE DEF i
    <3> QED BY <1>2, <2>1
  <2>3. IsFiniteSet(L)
    BY <1>2, FS_Subset
  <2>4. Cardinality(U) = Cardinality(L) + 1 /\ Cardinality(L) \in Nat
    <3>1. IsFiniteSet(L \cup {i}) /\ Cardinality(L \cup {i}) = Cardinality(L) + 1
      <4> HIDE DEF L, i
      <4> QED BY <2>2, <2>3, FS_AddElement
    <3> QED BY <2>2, <2>3, <3>1, FS_CardinalityType, Zenon
  <2>5. Cardinality(U) = n
    <3>1. R!Cardinality(U) = n
      BY <1>5
    <3> QED BY <3>1, CountedAlike
  <2>6. I!IdOf(j, i) = N + 1 + Cardinality(L)
    <3>1. I!IdOf(j, i) = N + 1 + I!Cardinality(L)
      BY DEF I!IdOf
    <3>2. I!Cardinality(L) = Cardinality(L)
      BY Counting
    <3> QED BY <3>1, <3>2
  <2> HIDE DEF L, U, N
  <2> QED BY <1>1, <2>4, <2>5, <2>6
<1> HIDE DEF B, C, N
<1>7. ASSUME NEW i \in B PROVE I!IdOf(j, i) \in N + 1..N + C
  <2>1. PICK n \in 1..C : f[n] = i
    BY <1>5
  <2>2. I!IdOf(j, i) = N + n
    BY <1>6, <2>1
  <2> QED BY <1>1, <1>3, <2>2
<1>8. ASSUME NEW n \in 1..C PROVE \E i \in B : I!IdOf(j, i) = N + n
  BY <1>5, <1>6
<1>9. ASSUME NEW i \in B, NEW k \in B, i < k PROVE I!IdOf(j, i) < I!IdOf(j, k)
  <2>1. PICK m \in 1..C : f[m] = i
    BY <1>5
  <2>2. PICK n \in 1..C : f[n] = k
    BY <1>5
  <2>3. I!IdOf(j, i) = N + m /\ I!IdOf(j, k) = N + n
    BY <1>6, <2>1, <2>2
  <2>4. i \in Nat /\ k \in Nat
    BY <1>2
  <2>5. ~(n < m) /\ n # m
    BY <1>5, <1>9, <2>1, <2>2, <2>4
  <2> QED BY <1>1, <1>3, <2>3, <2>5
<1> QED BY <1>1, <1>3, <1>7, <1>8, <1>9 DEF B, C, N

\* The leads after a batch: those before it, and a new one for each of its rows.
LEMMA BatchWritten ==
  ASSUME I!Inputs, ImportIInv, NEW j \in Jobs, I!InsertBatch(j)
  PROVE  LET B == I!Batch(j)
             N == Len(leads)
             M == Len(leads')
         IN /\ N \in Nat /\ M \in Nat /\ N <= M /\ DOMAIN leads = 1..N /\ DOMAIN leads' = 1..M
            /\ \A a \in 1..N : leads'[a] = leads[a]
            /\ \A i \in B : /\ I!IdOf(j, i) \in N + 1..M
                            /\ leads'[I!IdOf(j, i)]
                                 = I!New(job[j].file[i].keys, I!OriginalOf(j, i), run[j].seen,
                                         run[j].ranked[i])
            /\ \A b \in N + 1..M : \E i \in B : b = I!IdOf(j, i)
            /\ \A i, k \in B : I!IdOf(j, i) < I!IdOf(j, k) => i < k
<1> DEFINE B == I!Batch(j)
           C == I!Cardinality(B)
           N == Len(leads)
           row == [n \in 1..C |-> CHOOSE i \in B : I!IdOf(j, i) = N + n]
           lead(i) == I!New(job[j].file[i].keys, I!OriginalOf(j, i), run[j].seen,
                                         run[j].ranked[i])
           new == [n \in DOMAIN row |-> lead(row[n])]
           T == {new[k] : k \in 1..C}
<1>1. run[j] # None
  BY DEF I!InsertBatch, I!At
<1>2. /\ C \in Nat /\ N \in Nat
      /\ \A i \in B : I!IdOf(j, i) \in N + 1..N + C
      /\ \A n \in 1..C : \E i \in B : I!IdOf(j, i) = N + n
      /\ \A i, k \in B : i < k => I!IdOf(j, i) < I!IdOf(j, k)
  BY <1>1, BatchNumbered
<1>3. leads' = leads \o new
  BY DEF I!InsertBatch
<1>4. PICK S : leads \in Seq(S)
  BY DEF ImportIInv, LeadsCounted
<1>5. \A n \in 1..C : row[n] \in B /\ I!IdOf(j, row[n]) = N + n
  BY <1>2
<1>6. /\ new \in [1..C -> T]
      /\ \A n \in 1..C : new[n] = lead(row[n])
  OBVIOUS
<1> HIDE DEF B, C, N, row, lead, new, T
<1>7. new \in Seq(S \cup T) /\ leads \in Seq(S \cup T) /\ Len(new) = C
  BY <1>2, <1>4, <1>6, FunctionIsSeq, SeqMonotonic
<1>8. /\ Len(leads') = N + C /\ DOMAIN leads = 1..N /\ DOMAIN leads' = 1..N + C
      /\ \A a \in 1..N : leads'[a] = leads[a]
      /\ \A n \in 1..C : leads'[N + n] = new[n]
  <2>1. Len(leads \o new) = N + C /\ leads \o new \in Seq(S \cup T)
    BY <1>7, ConcatProperties DEF N
  <2>2. DOMAIN leads = 1..N /\ DOMAIN leads' = 1..N + C
    BY <1>3, <1>7, <2>1, LenProperties DEF N
  <2>3. \A a \in 1..N + C : leads'[a] = IF a <= N THEN leads[a] ELSE new[a - N]
    BY <1>3, <1>7, ConcatProperties DEF N
  <2>4. Len(leads') = N + C
    BY <1>3, <2>1
  <2>5. ASSUME NEW a \in 1..N PROVE leads'[a] = leads[a]
    <3>1. a \in 1..N + C /\ a <= N
      BY <1>2
    <3> QED BY <2>3, <3>1
  <2>6. ASSUME NEW n \in 1..C PROVE leads'[N + n] = new[n]
    <3>1. N + n \in 1..N + C /\ ~(N + n <= N) /\ (N + n) - N = n
      BY <1>2
    <3>2. leads'[N + n] = new[(N + n) - N]
      BY <2>3, <3>1
    <3> QED BY <3>1, <3>2
  <2> QED BY <2>2, <2>4, <2>5, <2>6
<1>9. ASSUME NEW i \in B PROVE leads'[I!IdOf(j, i)] = lead(i)
  <2>1. PICK n \in 1..C : I!IdOf(j, i) = N + n
    <3>1. I!IdOf(j, i) - N \in 1..C /\ I!IdOf(j, i) = N + (I!IdOf(j, i) - N)
      BY <1>2
    <3> QED BY <3>1
  <2>2. row[n] = i
    <3>1. row[n] \in B /\ I!IdOf(j, row[n]) = N + n
      BY <1>5
    <3>2. B \subseteq Nat
      BY <1>1, BatchFinite DEF B
    <3>3. ~(row[n] < i) /\ ~(i < row[n])
      <4>1. ~(N + n < N + n)
        BY <1>2
      <4> QED BY <1>2, <2>1, <3>1, <4>1
    <3>4. row[n] \in Nat /\ i \in Nat
      BY <3>1, <3>2
    <3> QED BY <3>3, <3>4
  <2> QED BY <1>6, <1>8, <2>1, <2>2
<1>10. ASSUME NEW b \in N + 1..N + C PROVE \E i \in B : b = I!IdOf(j, i)
  <2>1. b - N \in 1..C /\ b = N + (b - N)
    BY <1>2
  <2> QED BY <1>2, <2>1
<1>11. ASSUME NEW i \in B, NEW k \in B, I!IdOf(j, i) < I!IdOf(j, k) PROVE i < k
  <2>1. i \in Nat /\ k \in Nat
    BY <1>1, BatchFinite DEF B
  <2>2. ~(k < i) /\ i # k
    BY <1>2, <1>11
  <2> QED BY <2>1, <2>2
<1> QED BY <1>2, <1>8, <1>9, <1>10, <1>11 DEF B, N, lead

\* A batch takes the first rows there are left.
LEMMA BatchFirst ==
  ASSUME I!Inputs, I!Sizes, ImportIInv, NEW j \in Jobs, run[j] # None,
         NEW i \in I!Batch(j), NEW k \in I!Remaining(j), k < i
  PROVE  k \in I!Batch(j)
<1> DEFINE X == {h \in I!Remaining(j) : h < k}
           Y == {h \in I!Remaining(j) : h < i}
<1>1. IsFiniteSet(I!Remaining(j)) /\ I!Remaining(j) \subseteq Nat
  <2>1. job[j] # None /\ job[j].file \in Files
    BY JobTyped DEF ImportIInv, RunsMatch
  <2> QED BY <2>1, PlainCounted, FS_Subset DEF I!Remaining
<1>2. IsFiniteSet(Y) /\ i \in Nat
  BY <1>1, FS_Subset DEF I!Batch
<1>3. X \subseteq Y
  BY <1>1, <1>2
<1>4. Cardinality(X) <= Cardinality(Y) /\ Cardinality(X) \in Nat /\ Cardinality(Y) \in Nat
  <2> HIDE DEF X, Y
  <2> QED BY <1>2, <1>3, FS_Subset, FS_CardinalityType
<1>5. I!Cardinality(Y) < BatchSize
  BY DEF I!Batch
<1>6. I!Cardinality(X) < BatchSize
  <2>1. I!Cardinality(X) = Cardinality(X) /\ I!Cardinality(Y) = Cardinality(Y)
    BY Counting
  <2> HIDE DEF X, Y
  <2> QED BY <1>4, <1>5, <2>1 DEF I!Sizes
<1> QED BY <1>6 DEF I!Batch

-----------------------------------------------------------------------------
(* The invariant. *)

\* The original o of a lead is one of the leads there are.
Known(o) == o \in {0} \cup I!Ids

\* A lead with one of these contacts that stands as it was created.
Untouched(a, keys) ==
  ~leads[a].gone /\ ~leads[a].edited /\ leads[a].keys \cap keys # {}

\* A lookup of these contacts, which chose o among the leads that it ranked, has seen all there
\* are.
Judged(keys, o, ranked) ==
  \A a \in I!Ids : Untouched(a, keys) =>
    /\ leads[a].shelf = "never" \/ ranked = "every" => o # 0
    /\ /\ ranked = "every" \/ (ranked = "active" /\ leads[a].shelf = "never")
       /\ leads[a].original = 0 /\ ~leads[a].orphan
       => leads[o].original = 0

LeadsLinked ==
  /\ leads \in Seq(I!Lead) /\ disturbed \subseteq Contacts
  /\ \A a \in I!Ids : Known(leads[a].original)
  /\ \A a, b \in I!Ids : a < b => leads[a].at <= leads[b].at
  /\ \A a \in I!Ids : I!Changed(a) => leads[a].keys \subseteq disturbed

\* What a form has found is still so, unless leads were created since.
FormJudged(w) ==
  /\ w.keys \subseteq Contacts /\ w.ranked \in I!Ranks
  /\ Known(w.original) /\ w.seen \in 0..Len(leads)
  /\ w.seen = Len(leads) => Judged(w.keys, w.original, w.ranked)

FormsJudged ==
  /\ newLead = [f \in Forms |-> newLead[f]]
  /\ \A f \in Forms : newLead[f] # None => FormJudged(newLead[f])

\* So is what a run has found for its batch, whose rows are also compared with each other.
RowJudged(j, i) ==
  LET keys == job[j].file[i].keys
      e == run[j].existing[i]
      k == run[j].inBatch[i]
  IN /\ Known(e) /\ run[j].ranked[i] \in I!Ranks
     /\ run[j].seen = Len(leads) => Judged(keys, e, run[j].ranked[i])
     /\ k # 0 => k \in I!Batch(j) /\ I!Shares(j, i, k)
     /\ e = 0 /\ Repeated(j, i) # {} => k # 0

RunJudged(j) ==
  run[j].seen \in 0..Len(leads) /\ \A i \in I!Batch(j) : RowJudged(j, i)

RunsJudged == \A j \in Jobs : I!At(j, "insert") => RunJudged(j)

\* A written row became the lead that is recorded; a row that was shown as a duplicate shares a
\* contact with a lead or with an earlier row, and became a duplicate - unless the contact was
\* disturbed.
WrittenLinked(b) ==
  \A w \in b.written :
    /\ w[2] \in I!Ids
    /\ leads[w[2]].keys = b.file[w[1]].keys \/ b.file[w[1]].keys \subseteq disturbed

Shown(file, i) ==
  \/ \E a \in I!Ids : leads[a].keys \cap file[i].keys # {}
  \/ file[i].keys \cap disturbed # {}
  \/ \E k \in 1..(i - 1) : file[k].verdict # "refused" /\ file[k].keys \cap file[i].keys # {}

FlagsShown(b) == \A i \in b.flagged : i \in DOMAIN b.file /\ Shown(b.file, i)

FlagHolds(b, w) ==
  /\ w[1] \in b.flagged /\ ~leads[w[2]].late /\ b.file[w[1]].keys \cap disturbed = {}
  /\ \A k \in 1..(w[1] - 1) : b.file[k].verdict = "converts" =>
       b.file[k].keys \cap b.file[w[1]].keys = {}
  => I!Linked(w[2])

JobLinked(b) == WrittenLinked(b) /\ FlagsShown(b) /\ \A w \in b.written : FlagHolds(b, w)

JobsLinked == \A j \in Jobs : job[j] # None => JobLinked(job[j])

LinksIInv ==
  /\ LeadsLinked /\ FormsJudged /\ RunsJudged /\ JobsLinked
  /\ I!SharedIsLinked /\ I!StarWhenMatched

-----------------------------------------------------------------------------
(* What stands while leads come and go. *)

\* What a step may do to a lead there is: end a link only by the deletion of its original, and
\* touch it otherwise only by leaving its contacts disturbed.
Stays(a) ==
  /\ leads'[a].at = leads[a].at /\ leads'[a].late = leads[a].late
  /\ leads'[a].ranked = leads[a].ranked
  /\ leads[a].gone => leads'[a].gone
  /\ ~leads'[a].edited => ~leads[a].edited /\ leads'[a].keys = leads[a].keys
  /\ leads'[a].shelf = "never" => leads[a].shelf = "never"
  /\ leads[a].orphan => leads'[a].orphan
  /\ \/ leads'[a].original = leads[a].original
     \/ leads'[a].original = 0 /\ leads'[a].orphan
  /\ \/ leads'[a].keys = leads[a].keys /\ (I!Changed(a)' => I!Changed(a))
     \/ leads[a].keys \cup leads'[a].keys \subseteq disturbed'

LinksStand ==
  /\ Len(leads) \in Nat /\ Len(leads') \in Nat /\ Len(leads) <= Len(leads')
  /\ I!Ids \subseteq I!Ids' /\ (Len(leads') = Len(leads) => I!Ids' = I!Ids)
  /\ disturbed \subseteq disturbed'
  /\ \A a \in I!Ids : Stays(a)

LEMMA LinkedStands ==
  ASSUME LinksStand, NEW a \in I!Ids, I!Linked(a)
  PROVE  I!Linked(a)'
BY DEF LinksStand, Stays, I!Linked

LEMMA KnownStands ==
  ASSUME LinksStand, NEW o, Known(o)
  PROVE  Known(o)'
BY DEF LinksStand, Known

LEMMA JudgedStands ==
  ASSUME LinksStand, NEW keys, NEW o, NEW ranked, Known(o), Judged(keys, o, ranked),
         Len(leads') = Len(leads)
  PROVE  Judged(keys, o, ranked)'
<1> SUFFICES ASSUME NEW a \in I!Ids, Untouched(a, keys)'
             PROVE  /\ leads'[a].shelf = "never" \/ ranked = "every" => o # 0
                    /\ /\ ranked = "every" \/ (ranked = "active" /\ leads'[a].shelf = "never")
                       /\ leads'[a].original = 0 /\ ~leads'[a].orphan
                       => leads'[o].original = 0
  BY DEF Judged, LinksStand
<1>1. Stays(a) /\ Untouched(a, keys)
  BY DEF LinksStand, Stays, Untouched
<1>2. leads'[a].shelf = "never" \/ ranked = "every" => o # 0
  BY <1>1 DEF Judged, Stays
<1>3. ASSUME ranked = "every" \/ (ranked = "active" /\ leads'[a].shelf = "never"),
             leads'[a].original = 0, ~leads'[a].orphan
      PROVE  leads'[o].original = 0
  <2>1. leads[a].original = 0 /\ ~leads[a].orphan
    BY <1>1, <1>3 DEF Stays
  <2>2. leads[o].original = 0
    BY <1>1, <1>3, <2>1 DEF Judged, Stays
  <2>3. o \in I!Ids
    BY <1>2, <1>3 DEF Known
  <2> QED BY <2>2, <2>3 DEF LinksStand, Stays
<1> QED BY <1>2, <1>3

LEMMA FormStands ==
  ASSUME LinksStand, NEW w, FormJudged(w)
  PROVE  FormJudged(w)'
<1>1. Known(w.original)'
  BY KnownStands DEF FormJudged
<1>2. w.seen \in 0..Len(leads')
  BY DEF FormJudged, LinksStand
<1>3. ASSUME w.seen = Len(leads') PROVE Judged(w.keys, w.original, w.ranked)'
  <2>1. Len(leads') = Len(leads) /\ w.seen = Len(leads)
    BY <1>3 DEF FormJudged, LinksStand
  <2>2. PICK keys, o, ranked : keys = w.keys /\ o = w.original /\ ranked = w.ranked
    OBVIOUS
  <2>3. Known(o) /\ Judged(keys, o, ranked)
    BY <2>1, <2>2 DEF FormJudged
  <2>4. Judged(keys, o, ranked)'
    BY <2>1, <2>3, JudgedStands
  <2> QED BY <2>2, <2>4
<1> QED BY <1>1, <1>2, <1>3 DEF FormJudged

LEMMA RunStands ==
  ASSUME LinksStand, NEW j \in Jobs, run'[j] = run[j], job'[j] = job[j], RunJudged(j)
  PROVE  RunJudged(j)'
<1>1. I!Remaining(j)' = I!Remaining(j)
  BY DEF I!Remaining
<1>2. I!Batch(j)' = I!Batch(j)
  BY <1>1 DEF I!Batch
<1>3. run[j].seen \in 0..Len(leads')
  BY DEF RunJudged, LinksStand
<1>4. ASSUME NEW i \in I!Batch(j) PROVE RowJudged(j, i)'
  <2>1. PICK keys, e, ranked : /\ keys = job[j].file[i].keys /\ e = run[j].existing[i]
                               /\ ranked = run[j].ranked[i]
    OBVIOUS
  <2>2. /\ Known(e) /\ (run[j].seen = Len(leads) => Judged(keys, e, ranked))
        /\ ranked \in I!Ranks
        /\ run[j].inBatch[i] # 0 =>
             run[j].inBatch[i] \in I!Batch(j) /\ I!Shares(j, i, run[j].inBatch[i])
        /\ e = 0 /\ Repeated(j, i) # {} => run[j].inBatch[i] # 0
    BY <2>1 DEF RunJudged, RowJudged
  <2>3. Known(e)'
    BY <2>2, KnownStands
  <2>4. ASSUME run[j].seen = Len(leads') PROVE Judged(keys, e, ranked)'
    <3>1. Len(leads') = Len(leads) /\ run[j].seen = Len(leads)
      BY <2>4 DEF RunJudged, LinksStand
    <3> QED BY <2>2, <3>1, JudgedStands
  <2>5. \A k : I!Shares(j, i, k)' <=> I!Shares(j, i, k)
    BY DEF I!Shares
  <2>6. Repeated(j, i)' = Repeated(j, i)
    BY <1>2, <2>5 DEF Repeated
  <2> QED BY <1>2, <2>1, <2>2, <2>3, <2>4, <2>5, <2>6 DEF RowJudged
<1> QED BY <1>2, <1>3, <1>4 DEF RunJudged

LEMMA JobStands ==
  ASSUME LinksStand, NEW b, JobLinked(b)
  PROVE  JobLinked(b)'
<1>1. WrittenLinked(b)'
  <2> SUFFICES ASSUME NEW w \in b.written
               PROVE  /\ w[2] \in I!Ids'
                      /\ \/ leads'[w[2]].keys = b.file[w[1]].keys
                         \/ b.file[w[1]].keys \subseteq disturbed'
    BY DEF WrittenLinked
  <2>1. /\ w[2] \in I!Ids /\ Stays(w[2]) /\ disturbed \subseteq disturbed' /\ I!Ids \subseteq I!Ids'
        /\ leads[w[2]].keys = b.file[w[1]].keys \/ b.file[w[1]].keys \subseteq disturbed
    BY DEF JobLinked, WrittenLinked, LinksStand
  <2> QED BY <2>1 DEF Stays
<1>2. FlagsShown(b)'
  <2>1. ASSUME NEW i \in b.flagged, Shown(b.file, i) PROVE Shown(b.file, i)'
    <3>1. CASE \E a \in I!Ids : leads[a].keys \cap b.file[i].keys # {}
      <4>1. PICK a \in I!Ids : leads[a].keys \cap b.file[i].keys # {}
        BY <3>1
      <4>2. Stays(a) /\ a \in I!Ids'
        BY DEF LinksStand
      <4>3. leads'[a].keys = leads[a].keys \/ leads[a].keys \subseteq disturbed'
        BY <4>2 DEF Stays
      <4> QED BY <4>1, <4>2, <4>3 DEF Shown
    <3>2. CASE b.file[i].keys \cap disturbed # {}
      BY <3>2 DEF Shown, LinksStand
    <3>3. CASE \E k \in 1..(i - 1) : /\ b.file[k].verdict # "refused"
                                     /\ b.file[k].keys \cap b.file[i].keys # {}
      BY <3>3 DEF Shown
    <3> QED BY <2>1, <3>1, <3>2, <3>3 DEF Shown
  <2> QED BY <2>1 DEF JobLinked, FlagsShown
<1>3. ASSUME NEW w \in b.written PROVE FlagHolds(b, w)'
  <2>1. w[2] \in I!Ids /\ FlagHolds(b, w)
    BY DEF JobLinked, WrittenLinked
  <2>2. leads'[w[2]].late = leads[w[2]].late /\ disturbed \subseteq disturbed'
    BY <2>1 DEF LinksStand, Stays
  <2>3. I!Linked(w[2]) => I!Linked(w[2])'
    BY <2>1 DEF LinksStand, Stays, I!Linked
  <2>4. ASSUME b.file[w[1]].keys \cap disturbed' = {} PROVE b.file[w[1]].keys \cap disturbed = {}
    BY <2>2, <2>4
  <2> QED BY <2>1, <2>2, <2>3, <2>4 DEF FlagHolds
<1> QED BY <1>1, <1>2, <1>3 DEF JobLinked

LEMMA LeadRows ==
  ASSUME NEW s \in Seq(I!Lead)
  PROVE  /\ DOMAIN s = 1..Len(s) /\ Len(s) \in Nat
         /\ \A a \in 1..Len(s) : s[a] \in I!Lead /\ s[a].at \in Nat
<1>1. DOMAIN s = 1..Len(s) /\ Len(s) \in Nat
  BY LenProperties
<1>2. \A a \in 1..Len(s) : s[a] \in I!Lead
  BY ElementOfSeq
<1> QED BY <1>1, <1>2 DEF I!Lead

LEMMA ClockIsLater ==
  ASSUME LeadsLinked, NEW a \in I!Ids
  PROVE  leads[a].at < I!Clock
<1>1. leads \in Seq(I!Lead) /\ DOMAIN leads = 1..Len(leads) /\ Len(leads) \in Nat
  BY LeadRows DEF LeadsLinked
<1>2. leads # <<>> /\ Len(leads) \in I!Ids /\ a <= Len(leads) /\ a \in Nat
  BY <1>1 DEF I!Ids
<1>3. leads[a].at <= leads[Len(leads)].at
  <2>1. leads[a].at \in Nat
    BY <1>1, <1>2, LeadRows DEF I!Ids
  <2> QED BY <1>1, <1>2, <2>1 DEF LeadsLinked
<1>4. leads[a].at \in Nat /\ leads[Len(leads)].at \in Nat
  BY <1>1, <1>2, LeadRows DEF I!Ids
<1> QED BY <1>2, <1>3, <1>4 DEF I!Clock

\* What was found and judged before the leads grew.
\* A step that rewrites the leads there are, each within what may be done to it.
LEMMA ChangeKeeps ==
  ASSUME LeadsLinked, I!SharedIsLinked, I!StarWhenMatched, LinksStand,
         leads' \in Seq(I!Lead), Len(leads') = Len(leads), disturbed' \subseteq Contacts
  PROVE  LeadsLinked' /\ I!SharedIsLinked' /\ I!StarWhenMatched'
<1>1. I!Ids' = I!Ids /\ \A a \in I!Ids : Stays(a)
  BY DEF LinksStand
<1>2. LeadsLinked'
  <2>1. \A a \in I!Ids : Known(leads[a].original)'
    BY <1>1 DEF LeadsLinked, Known, Stays
  <2>2. \A a, b \in I!Ids : a < b => leads'[a].at <= leads'[b].at
    BY <1>1 DEF LeadsLinked, Stays
  <2>3. ASSUME NEW a \in I!Ids, I!Changed(a)' PROVE leads'[a].keys \subseteq disturbed'
    <3>1. CASE leads'[a].keys = leads[a].keys /\ I!Changed(a)
      BY <3>1 DEF LeadsLinked, LinksStand
    <3> QED BY <1>1, <2>3, <3>1 DEF Stays
  <2> QED BY <1>1, <2>1, <2>2, <2>3 DEF LeadsLinked
<1>3. ASSUME NEW a \in I!Ids, NEW b \in I!Ids, I!Comparable(a, b)'
      PROVE  I!Comparable(a, b)
  BY <1>1, <1>3 DEF I!Comparable, Stays
<1>4. I!SharedIsLinked'
  <2> SUFFICES ASSUME NEW a \in I!Ids, NEW b \in I!Ids, a < b, I!Comparable(a, b)',
                      leads'[a].shelf = "never" \/ leads'[b].ranked = "every"
               PROVE  I!Linked(b)'
    BY <1>1 DEF I!SharedIsLinked
  <2>1. I!Comparable(a, b) /\ (leads[a].shelf = "never" \/ leads[b].ranked = "every")
    BY <1>1, <1>3 DEF Stays
  <2>2. I!Linked(b)
    BY <2>1 DEF I!SharedIsLinked
  <2> QED BY <2>2, LinkedStands
<1>5. I!StarWhenMatched'
  <2> SUFFICES ASSUME NEW a \in I!Ids, NEW b \in I!Ids,
                      leads'[a].at < leads'[b].at, I!Comparable(a, b)',
                      leads'[a].original = 0, ~leads'[a].orphan,
                      \/ leads'[b].ranked = "every"
                      \/ leads'[b].ranked = "active" /\ leads'[a].shelf = "never"
               PROVE  /\ I!Linked(b)'
                      /\ leads'[b].original # 0 => leads'[leads'[b].original].original = 0
    BY <1>1 DEF I!StarWhenMatched
  <2>1. /\ leads[a].at < leads[b].at /\ I!Comparable(a, b)
        /\ leads[a].original = 0 /\ ~leads[a].orphan
        /\ \/ leads[b].ranked = "every"
           \/ leads[b].ranked = "active" /\ leads[a].shelf = "never"
    BY <1>1, <1>3 DEF Stays
  <2>2. I!Linked(b) /\ (leads[b].original # 0 => leads[leads[b].original].original = 0)
    BY <2>1 DEF I!StarWhenMatched
  <2>3. ASSUME leads'[b].original # 0 PROVE leads'[leads'[b].original].original = 0
    <3>1. leads'[b].original = leads[b].original /\ leads[b].original \in I!Ids
      BY <1>1, <2>3 DEF LeadsLinked, Known, Stays
    <3> QED BY <1>1, <2>2, <2>3, <3>1 DEF Stays
  <2> QED BY <2>2, <2>3, LinkedStands
<1> QED BY <1>2, <1>4, <1>5

\* An archive, a restoration, an edit or a deletion.  A deletion takes the link from the
\* duplicates of the lead, which are known as such from then on.
LEMMA ChangeStands ==
  ASSUME I!Inputs, LeadsLinked, NEW i \in I!Ids, Changes(i)
  PROVE  /\ LinksStand /\ leads' \in Seq(I!Lead) /\ Len(leads') = Len(leads)
         /\ disturbed' \subseteq Contacts
<1>1. /\ I!Ids = 1..Len(leads) /\ Len(leads) \in Nat /\ leads = [k \in I!Ids |-> leads[k]]
      /\ \A a \in I!Ids : leads[a] \in I!Lead
  BY LeadRows, LenProperties DEF LeadsLinked, I!Ids
<1>2. leads[i].keys \subseteq Contacts
  BY <1>1 DEF I!Lead
<1>3. ASSUME leads' = [k \in I!Ids |-> leads'[k]],
             \A k \in I!Ids : leads'[k] \in I!Lead /\ Stays(k),
             disturbed \subseteq disturbed', disturbed' \subseteq Contacts
      PROVE  /\ LinksStand /\ leads' \in Seq(I!Lead) /\ Len(leads') = Len(leads)
             /\ disturbed' \subseteq Contacts
  <2>1. PICK h : h = leads'
    OBVIOUS
  <2>2. leads \in Seq(I!Lead) /\ leads' = [k \in I!Ids |-> h[k]] /\ \A k \in I!Ids : h[k] \in I!Lead
    BY <1>3, <2>1 DEF LeadsLinked
  <2>3. leads' \in Seq(I!Lead) /\ Len(leads') = Len(leads) /\ I!Ids' = I!Ids
    BY <2>2, LeadsRewritten
  <2> QED BY <1>1, <1>3, <2>3 DEF LinksStand
<1>4. CASE I!ArchiveLead(i)
  <2>1. /\ leads' = [leads EXCEPT ![i].shelf = "archived"] /\ disturbed' = disturbed \cup leads[i].keys
    BY <1>4 DEF I!ArchiveLead, I!Disturbs
  <2>2. ASSUME NEW k \in I!Ids
        PROVE  /\ leads'[k] = IF k = i THEN [leads[k] EXCEPT !.shelf = "archived"] ELSE leads[k]
               /\ leads'[k] \in I!Lead
    BY <1>1, <2>1 DEF I!Lead, I!Shelves
  <2>3. ASSUME NEW k \in I!Ids PROVE Stays(k)
    BY <1>1, <2>1, <2>2 DEF Stays, I!Lead, I!Changed
  <2>4. leads' = [k \in I!Ids |-> leads'[k]]
    BY <1>1, <2>1
  <2> QED BY <1>2, <1>3, <2>1, <2>2, <2>3, <2>4 DEF LeadsLinked
<1>5. CASE I!RestoreLead(i)
  <2>1. /\ leads' = [leads EXCEPT ![i].shelf = "restored"] /\ disturbed' = disturbed \cup leads[i].keys
        /\ leads[i].shelf = "archived"
    BY <1>5 DEF I!RestoreLead, I!Disturbs
  <2>2. ASSUME NEW k \in I!Ids
        PROVE  /\ leads'[k] = IF k = i THEN [leads[k] EXCEPT !.shelf = "restored"] ELSE leads[k]
               /\ leads'[k] \in I!Lead
    BY <1>1, <2>1 DEF I!Lead, I!Shelves
  <2>3. ASSUME NEW k \in I!Ids PROVE Stays(k)
    BY <1>1, <2>1, <2>2 DEF Stays, I!Lead, I!Changed
  <2>4. leads' = [k \in I!Ids |-> leads'[k]]
    BY <1>1, <2>1
  <2> QED BY <1>2, <1>3, <2>1, <2>2, <2>3, <2>4 DEF LeadsLinked
<1>6. ASSUME NEW keys \in Enquiries, I!EditLead(i, keys)
      PROVE  /\ LinksStand /\ leads' \in Seq(I!Lead) /\ Len(leads') = Len(leads)
             /\ disturbed' \subseteq Contacts
  <2>1. /\ leads' = [leads EXCEPT ![i].keys = keys, ![i].edited = TRUE]
        /\ disturbed' = disturbed \cup (leads[i].keys \cup keys) /\ keys \subseteq Contacts
    BY <1>6 DEF I!EditLead, I!Disturbs, I!Inputs
  <2>2. ASSUME NEW k \in I!Ids
        PROVE  /\ leads'[k] = IF k = i THEN [leads[k] EXCEPT !.keys = keys, !.edited = TRUE]
                              ELSE leads[k]
               /\ leads'[k] \in I!Lead
    BY <1>1, <2>1 DEF I!Lead
  <2>3. ASSUME NEW k \in I!Ids PROVE Stays(k)
    <3>1. CASE k = i
      <4>1. leads[i] \in I!Lead /\ leads'[i] = [leads[i] EXCEPT !.keys = keys, !.edited = TRUE]
        BY <1>1, <2>2
      <4>2. /\ leads'[i].keys = keys /\ leads'[i].edited = TRUE
            /\ leads'[i].at = leads[i].at /\ leads'[i].late = leads[i].late
            /\ leads'[i].ranked = leads[i].ranked /\ leads'[i].gone = leads[i].gone
            /\ leads'[i].shelf = leads[i].shelf /\ leads'[i].orphan = leads[i].orphan
            /\ leads'[i].original = leads[i].original
        BY <4>1 DEF I!Lead
      <4>3. leads[i].keys \cup leads'[i].keys \subseteq disturbed'
        BY <2>1, <4>2
      <4> QED BY <3>1, <4>2, <4>3 DEF Stays
    <3>2. CASE k # i
      <4>1. leads'[k] = leads[k]
        BY <2>2, <3>2
      <4> QED BY <4>1 DEF Stays, I!Changed
    <3> QED BY <3>1, <3>2
  <2>4. leads' = [k \in I!Ids |-> leads'[k]]
    BY <1>1, <2>1
  <2> QED BY <1>2, <1>3, <2>1, <2>2, <2>3, <2>4 DEF LeadsLinked
<1>7. CASE I!DeleteLead(i)
  <2>1. /\ leads' = [k \in I!Ids |->
                       IF k = i THEN [leads[k] EXCEPT !.gone = TRUE]
                       ELSE IF leads[k].original = i
                         THEN [leads[k] EXCEPT !.original = 0, !.orphan = TRUE]
                       ELSE leads[k]]
        /\ disturbed' = disturbed \cup leads[i].keys
    BY <1>7 DEF I!DeleteLead, I!Disturbs
  <2>2. ASSUME NEW k \in I!Ids
        PROVE  /\ leads'[k] = IF k = i THEN [leads[k] EXCEPT !.gone = TRUE]
                              ELSE IF leads[k].original = i
                                THEN [leads[k] EXCEPT !.original = 0, !.orphan = TRUE]
                              ELSE leads[k]
               /\ leads'[k] \in I!Lead
    BY <1>1, <2>1 DEF I!Lead
  <2>3. ASSUME NEW k \in I!Ids PROVE Stays(k)
    BY <1>1, <2>1, <2>2 DEF Stays, I!Lead, I!Changed
  <2>4. leads' = [k \in I!Ids |-> leads'[k]]
    BY <2>1
  <2> QED BY <1>2, <1>3, <2>1, <2>2, <2>3, <2>4 DEF LeadsLinked
<1> QED BY <1>4, <1>5, <1>6, <1>7 DEF Changes

LEMMA SameStands ==
  ASSUME LeadsLinked, leads' = leads, disturbed' = disturbed
  PROVE  LinksStand
<1>1. Len(leads) \in Nat
  BY LeadRows DEF LeadsLinked
<1>2. I!Ids' = I!Ids
  BY DEF I!Ids
<1>3. \A a \in I!Ids : Stays(a)
  BY DEF Stays, I!Changed
<1> QED BY <1>1, <1>2, <1>3 DEF LinksStand

-----------------------------------------------------------------------------
(* Leads that come to be. *)

NewLinked(b) ==
  /\ ~I!Changed(b)' /\ leads'[b].at = I!Clock /\ Known(leads[b].original)'
  /\ ~leads'[b].late =>
       /\ \E e : /\ Known(e) /\ Judged(leads'[b].keys, e, leads'[b].ranked)
                 /\ e # 0 => leads'[b].original = e
       /\ \A a \in Len(leads) + 1..b - 1 :
            leads'[a].keys \cap leads'[b].keys # {} => leads'[b].original # 0

Grows ==
  /\ leads' \in Seq(I!Lead) /\ disturbed' = disturbed
  /\ Len(leads) \in Nat /\ Len(leads') \in Nat /\ Len(leads) <= Len(leads')
  /\ DOMAIN leads = 1..Len(leads) /\ DOMAIN leads' = 1..Len(leads')
  /\ \A a \in 1..Len(leads) : leads'[a] = leads[a]
  /\ \A b \in Len(leads) + 1..Len(leads') : NewLinked(b)

LEMMA GrowthStands ==
  ASSUME LeadsLinked, Grows
  PROVE  LinksStand
<1>1. /\ I!Ids = 1..Len(leads) /\ I!Ids' = 1..Len(leads') /\ I!Ids \subseteq I!Ids'
      /\ Len(leads') = Len(leads) => I!Ids' = I!Ids
  <2>1. I!Ids = 1..Len(leads) /\ I!Ids' = 1..Len(leads')
    BY DEF I!Ids, Grows
  <2>2. Len(leads) \in Nat /\ Len(leads') \in Nat /\ Len(leads) <= Len(leads')
    BY DEF Grows
  <2> QED BY <2>1, <2>2
<1>2. \A a \in I!Ids : leads'[a] = leads[a]
  BY <1>1 DEF Grows
<1>3. \A a \in I!Ids : Stays(a)
  BY <1>2 DEF Stays, I!Changed
<1> QED BY <1>1, <1>3 DEF LinksStand, Grows

LEMMA GrowthKeeps ==
  ASSUME LeadsLinked, I!SharedIsLinked, I!StarWhenMatched, Grows
  PROVE  LeadsLinked' /\ I!SharedIsLinked' /\ I!StarWhenMatched'
<1> DEFINE N == Len(leads)
           M == Len(leads')
<1>1. /\ N \in Nat /\ M \in Nat /\ N <= M /\ I!Ids = 1..N /\ I!Ids' = 1..M
      /\ \A a \in 1..N : leads'[a] = leads[a]
      /\ \A b \in N + 1..M : NewLinked(b)
      /\ disturbed' = disturbed
  BY DEF I!Ids, Grows
<1> HIDE DEF N, M
<1>2. \A a \in 1..M : a \in 1..N \/ a \in N + 1..M
  BY <1>1
<1>3. \A a \in 1..N : leads[a].at < I!Clock /\ leads[a].at \in Nat
  <2>1. \A a \in I!Ids : leads[a].at \in Nat
    BY LeadRows DEF LeadsLinked, I!Ids
  <2> QED BY <1>1, <2>1, ClockIsLater
<1>4. LeadsLinked'
  <2>1. leads' \in Seq(I!Lead) /\ disturbed' \subseteq Contacts
    BY DEF LeadsLinked, Grows
  <2>2. ASSUME NEW a \in 1..M PROVE Known(leads[a].original)'
    <3>1. CASE a \in 1..N
      <4>1. leads'[a].original \in {0} \cup 1..N
        BY <1>1, <3>1 DEF LeadsLinked, Known
      <4> QED BY <1>1, <4>1 DEF Known
    <3>2. CASE a \in N + 1..M
      BY <1>1, <3>2 DEF NewLinked
    <3> QED BY <1>2, <3>1, <3>2
  <2>3. ASSUME NEW a \in 1..M, NEW b \in 1..M, a < b PROVE leads'[a].at <= leads'[b].at
    <3>1. CASE b \in 1..N
      <4>1. a \in 1..N
        BY <1>1, <2>3, <3>1
      <4> QED BY <1>1, <2>3, <3>1, <4>1 DEF LeadsLinked
    <3>2. CASE a \in 1..N /\ b \in N + 1..M
      <4>1. leads'[a].at = leads[a].at /\ leads'[b].at = I!Clock
        BY <1>1, <3>2 DEF NewLinked
      <4>2. leads[a].at < I!Clock /\ leads[a].at \in Nat
        BY <1>3, <3>2
      <4>3. leads'[b].at \in Nat
        BY <1>1, <2>1, LeadRows DEF M
      <4> QED BY <4>1, <4>2, <4>3
    <3>3. CASE a \in N + 1..M /\ b \in N + 1..M
      <4>1. leads'[a].at = leads'[b].at
        BY <1>1, <3>3 DEF NewLinked
      <4>2. leads'[b].at \in Nat
        BY <1>1, <2>1, LeadRows DEF M
      <4> QED BY <4>1, <4>2
    <3>4. a \in N + 1..M => b \in N + 1..M
      BY <1>1, <2>3
    <3> QED BY <1>2, <3>1, <3>2, <3>3, <3>4
  <2>4. ASSUME NEW a \in 1..M, I!Changed(a)' PROVE leads'[a].keys \subseteq disturbed'
    <3>1. a \in 1..N
      BY <1>1, <1>2, <2>4 DEF NewLinked
    <3>2. I!Changed(a)
      BY <1>1, <2>4, <3>1 DEF I!Changed
    <3> QED BY <1>1, <3>1, <3>2 DEF LeadsLinked
  <2> QED BY <1>1, <2>1, <2>2, <2>3, <2>4 DEF LeadsLinked
<1>5. ASSUME NEW a \in 1..N, NEW b \in N + 1..M, I!Comparable(a, b)'
      PROVE  /\ leads'[a].shelf = "never" \/ leads'[b].ranked = "every" => leads'[b].original # 0
             /\ /\ \/ leads'[b].ranked = "every"
                   \/ leads'[b].ranked = "active" /\ leads'[a].shelf = "never"
                /\ leads'[a].original = 0 /\ ~leads'[a].orphan
                => leads'[b].original # 0 /\ leads'[leads'[b].original].original = 0
  <2>1. PICK e : /\ Known(e) /\ Judged(leads'[b].keys, e, leads'[b].ranked)
                 /\ e # 0 => leads'[b].original = e
    BY <1>1, <1>5 DEF NewLinked, I!Comparable
  <2>2. leads'[a] = leads[a] /\ a \in I!Ids
    BY <1>1
  <2>3. Untouched(a, leads'[b].keys)
    BY <1>5, <2>2 DEF Untouched, I!Comparable
  <2>4. /\ leads[a].shelf = "never" \/ leads'[b].ranked = "every" => e # 0
        /\ /\ \/ leads'[b].ranked = "every"
              \/ leads'[b].ranked = "active" /\ leads[a].shelf = "never"
           /\ leads[a].original = 0 /\ ~leads[a].orphan
           => leads[e].original = 0
    BY <2>1, <2>2, <2>3 DEF Judged
  <2>5. e # 0 => e \in 1..N /\ leads'[e] = leads[e]
    BY <1>1, <2>1 DEF Known
  <2> QED BY <2>1, <2>2, <2>4, <2>5
<1>6. I!SharedIsLinked'
  <2> SUFFICES ASSUME NEW a \in 1..M, NEW b \in 1..M, a < b, I!Comparable(a, b)',
                      leads'[a].shelf = "never" \/ leads'[b].ranked = "every"
               PROVE  I!Linked(b)'
    BY <1>1 DEF I!SharedIsLinked
  <2>1. CASE b \in 1..N
    <3>1. a \in 1..N
      BY <1>1, <2>1
    <3>2. I!Comparable(a, b) /\ leads'[a] = leads[a] /\ leads'[b] = leads[b]
      BY <1>1, <2>1, <3>1 DEF I!Comparable
    <3>3. I!Linked(b)
      BY <1>1, <2>1, <3>1, <3>2 DEF I!SharedIsLinked
    <3> QED BY <3>2, <3>3 DEF I!Linked
  <2>2. CASE a \in 1..N /\ b \in N + 1..M
    BY <1>5, <2>2 DEF I!Linked
  <2>3. CASE a \in N + 1..M /\ b \in N + 1..M
    <3>1. a \in N + 1..b - 1
      BY <1>1, <2>3
    <3>2. NewLinked(b)
      BY <1>1, <2>3
    <3> QED BY <3>1, <3>2 DEF NewLinked, N, I!Comparable, I!Linked
  <2>4. a \in N + 1..M => b \in N + 1..M
    BY <1>1
  <2> QED BY <1>2, <2>1, <2>2, <2>3, <2>4
<1>7. \A a \in 1..M : leads'[a].at \in Nat
  <2>1. leads' \in Seq(I!Lead)
    BY DEF Grows
  <2> QED BY <2>1, LeadRows DEF M
<1>8. I!StarWhenMatched'
  <2> SUFFICES ASSUME NEW a \in 1..M, NEW b \in 1..M, leads'[a].at < leads'[b].at,
                      I!Comparable(a, b)', leads'[a].original = 0, ~leads'[a].orphan,
                      \/ leads'[b].ranked = "every"
                      \/ leads'[b].ranked = "active" /\ leads'[a].shelf = "never"
               PROVE  /\ I!Linked(b)'
                      /\ leads'[b].original # 0 => leads'[leads'[b].original].original = 0
    BY <1>1 DEF I!StarWhenMatched
  <2>1. CASE a \in 1..N /\ b \in 1..N
    <3>1. I!Comparable(a, b) /\ leads'[a] = leads[a] /\ leads'[b] = leads[b]
      BY <1>1, <2>1 DEF I!Comparable
    <3>2. I!Linked(b) /\ (leads[b].original # 0 => leads[leads[b].original].original = 0)
      BY <1>1, <2>1, <3>1 DEF I!StarWhenMatched
    <3>3. leads[b].original # 0 => leads[b].original \in 1..N
      BY <1>1, <2>1 DEF LeadsLinked, Known
    <3> QED BY <1>1, <3>1, <3>2, <3>3 DEF I!Linked
  <2>2. CASE a \in 1..N /\ b \in N + 1..M
    BY <1>5, <2>2 DEF I!Linked
  <2>3. CASE a \in N + 1..M
    <3>1. leads'[a].at = I!Clock
      BY <1>1, <2>3 DEF NewLinked
    <3>2. CASE b \in N + 1..M
      <4>1. leads'[b].at = leads'[a].at /\ leads'[a].at \in Nat
        BY <1>1, <1>7, <3>1, <3>2 DEF NewLinked
      <4> QED BY <4>1
    <3>3. CASE b \in 1..N
      <4>1. leads'[b].at < leads'[a].at /\ leads'[b].at \in Nat
        BY <1>1, <1>3, <3>1, <3>3
      <4>2. leads'[a].at \in Nat
        BY <1>7
      <4> QED BY <4>1, <4>2
    <3> QED BY <1>2, <3>2, <3>3
  <2> QED BY <1>2, <2>1, <2>2, <2>3
<1> QED BY <1>4, <1>6, <1>8

SameRows(b, c) == b.file = c.file /\ b.written = c.written /\ b.flagged = c.flagged

LEMMA OthersStand ==
  ASSUME FormsJudged, RunsJudged, JobsLinked, LinksStand,
         newLead' = [f \in Forms |-> newLead'[f]],
         \A f \in Forms : \/ newLead'[f] = newLead[f] \/ newLead'[f] = None
                          \/ FormJudged(newLead[f])',
         \A j \in Jobs : \/ run'[j] = run[j] /\ job'[j] = job[j]
                         \/ ~I!At(j, "insert")'
                         \/ RunJudged(j)',
         \A j \in Jobs : \/ job'[j] = None
                         \/ job[j] # None /\ SameRows(job'[j], job[j])
                         \/ JobLinked(job[j])'
  PROVE  FormsJudged' /\ RunsJudged' /\ JobsLinked'
<1>1. FormsJudged'
  <2> SUFFICES ASSUME NEW f \in Forms, newLead'[f] # None, newLead'[f] = newLead[f]
               PROVE  FormJudged(newLead[f])'
    BY DEF FormsJudged
  <2>1. PICK w : w = newLead[f]
    OBVIOUS
  <2>2. FormJudged(w)
    BY <2>1 DEF FormsJudged
  <2>3. FormJudged(w)'
    BY <2>2, FormStands
  <2> QED BY <2>1, <2>3 DEF FormJudged
<1>2. RunsJudged'
  <2> SUFFICES ASSUME NEW j \in Jobs, I!At(j, "insert")', run'[j] = run[j], job'[j] = job[j]
               PROVE  RunJudged(j)'
    BY DEF RunsJudged
  <2>1. RunJudged(j)
    BY DEF RunsJudged, I!At
  <2> QED BY <2>1, RunStands
<1>3. JobsLinked'
  <2> SUFFICES ASSUME NEW j \in Jobs, job[j] # None, SameRows(job'[j], job[j])
               PROVE  JobLinked(job[j])'
    BY DEF JobsLinked
  <2>1. PICK b : b = job[j]
    OBVIOUS
  <2>2. JobLinked(b)'
    BY <2>1, JobStands DEF JobsLinked
  <2>3. PICK c : c = job'[j]
    OBVIOUS
  <2>4. SameRows(c, b)
    BY <2>1, <2>3
  <2>5. JobLinked(c)'
    BY <2>2, <2>4 DEF SameRows, JobLinked, WrittenLinked, FlagsShown, FlagHolds
  <2> QED BY <2>3, <2>5 DEF JobLinked, WrittenLinked, FlagsShown, FlagHolds
<1> QED BY <1>1, <1>2, <1>3

-----------------------------------------------------------------------------
(* The steps. *)

\* A lookup that ranked these matches, one of them at least if there are any, judges all the
\* leads there are.
LEMMA FoundJudged ==
  ASSUME LeadsLinked, NEW keys, NEW wide \in BOOLEAN, NEW K \in SUBSET I!Matches(keys, wide),
         I!Matches(keys, wide) # {} => K # {}, NEW o \in I!Found(K)
  PROVE  /\ Known(o) /\ o \in Nat /\ Judged(keys, o, I!RankedAs(K, keys))
         /\ I!RankedAs(K, keys) \in I!Ranks
<1>1. I!Ids = 1..Len(leads) /\ Len(leads) \in Nat
  BY LeadRows DEF LeadsLinked, I!Ids
<1>2. /\ K = {} => o = 0
      /\ K # {} => o \in K /\ (~(K \subseteq I!Duplicates) => o \notin I!Duplicates)
  BY DEF I!Found, I!Originals
<1>3. K \subseteq I!Ids
  BY DEF I!Matches, I!Searched
<1>4. Known(o) /\ o \in Nat /\ (K # {} => o # 0 /\ o \in I!Ids)
  <2>1. CASE K = {}
    BY <1>2, <2>1 DEF Known
  <2>2. CASE K # {}
    <3>1. o \in I!Ids
      BY <1>2, <1>3, <2>2
    <3>2. o \in Nat /\ o # 0
      BY <1>1, <3>1
    <3> QED BY <3>1, <3>2 DEF Known
  <2> QED BY <2>1, <2>2
<1>5. /\ I!RankedAs(K, keys) = "every" => K = I!Matches(keys, TRUE)
      /\ I!RankedAs(K, keys) = "active" => K = I!Matches(keys, FALSE)
      /\ I!RankedAs(K, keys) \in I!Ranks
  BY DEF I!RankedAs, I!Ranks
<1>6. ASSUME NEW a \in I!Ids, Untouched(a, keys)
      PROVE  /\ a \in I!Matches(keys, TRUE)
             /\ leads[a].shelf = "never" => a \in I!Matches(keys, wide) /\ a \in I!Matches(keys, FALSE)
  BY <1>6 DEF Untouched, I!Matches, I!Searched
<1>7. ASSUME NEW a \in I!Ids, Untouched(a, keys),
             leads[a].shelf = "never" \/ I!RankedAs(K, keys) = "every"
      PROVE  o # 0
  BY <1>4, <1>5, <1>6, <1>7
<1>8. ASSUME NEW a \in I!Ids, Untouched(a, keys), leads[a].original = 0,
             \/ I!RankedAs(K, keys) = "every"
             \/ I!RankedAs(K, keys) = "active" /\ leads[a].shelf = "never"
      PROVE  leads[o].original = 0
  <2>1. a \in K
    BY <1>5, <1>6, <1>8
  <2>2. a \notin I!Duplicates
    BY <1>8 DEF I!Duplicates
  <2>3. o \notin I!Duplicates /\ o \in I!Ids
    BY <1>2, <1>4, <2>1, <2>2
  <2> QED BY <2>3 DEF I!Duplicates
<1> QED BY <1>4, <1>5, <1>7, <1>8 DEF Judged

LEMMA ClockTyped ==
  ASSUME LeadsLinked
  PROVE  I!Clock \in Nat
<1>1. Len(leads) \in Nat /\ DOMAIN leads = 1..Len(leads) /\ \A a \in 1..Len(leads) : leads[a].at \in Nat
  BY LeadRows DEF LeadsLinked
<1>2. leads # <<>> => Len(leads) \in 1..Len(leads)
  BY <1>1 DEF LeadsLinked
<1> QED BY <1>1, <1>2 DEF I!Clock

\* The batch a run is about to write.
LEMMA BatchRows ==
  ASSUME I!Inputs, ImportIInv, NEW j \in Jobs, run[j] # None, NEW i \in I!Batch(j)
  PROVE  /\ job[j].file[i].keys \subseteq Contacts /\ i \in DOMAIN job[j].file
         /\ I!Batch(j) \subseteq 1..Len(job[j].file) /\ Len(job[j].file) \in Nat
<1>1. job[j].file \in Files
  BY RunCounted
<1>2. job[j].file \in Seq(I!FileRow)
  BY <1>1 DEF I!Inputs
<1>3. I!Batch(j) \subseteq I!Plain(job[j].file)
  BY DEF I!Batch, I!Remaining
<1>4. i \in DOMAIN job[j].file /\ DOMAIN job[j].file = 1..Len(job[j].file) /\ Len(job[j].file) \in Nat
  BY <1>2, <1>3, LenProperties DEF I!Plain
<1>5. job[j].file[i] \in I!FileRow
  BY <1>2, <1>4, ElementOfSeq
<1>6. I!Plain(job[j].file) \subseteq 1..Len(job[j].file)
  BY <1>4 DEF I!Plain
<1> QED BY <1>3, <1>4, <1>5, <1>6 DEF I!FileRow

LEMMA LookUpJudges ==
  ASSUME I!Inputs, ImportIInv, LinksIInv, NEW j \in Jobs, I!LookUp(j)
  PROVE  RunJudged(j)' /\ \A q \in Jobs : q # j => run'[q] = run[q]
<1>1. PICK wide \in BOOLEAN, c \in [I!Batch(j) -> 0..Len(leads)] :
        /\ \A i \in I!Batch(j) : c[i] \in I!Found(I!Matches(job[j].file[i].keys, wide))
        /\ run' = [run EXCEPT ![j] = [@ EXCEPT !.step = "insert", !.seen = Len(leads),
                                            !.existing = c, !.ranked = I!RankedIn(j, wide),
                                            !.inBatch = I!InBatch(j, c)]]
  BY DEF I!LookUp
<1> DEFINE of == I!InBatch(j, c)
           rk == I!RankedIn(j, wide)
           w == [run[j] EXCEPT !.step = "insert", !.seen = Len(leads),
                               !.existing = c, !.ranked = rk, !.inBatch = of]
<1>2. run[j] # None /\ RunShape(run[j])
  BY DEF I!LookUp, I!At, ImportIInv, RunsTyped
<1> HIDE DEF of, rk
<1>3. /\ w.seen = Len(leads) /\ w.existing = c /\ w.ranked = rk /\ w.inBatch = of
      /\ w.landed = run[j].landed
  <2>1. PICK E, K, B : run[j] \in [step: {"lookUp", "insert", "progress", "complete", "fail"},
                                landed: SUBSET Nat, seen: Nat, existing: E, ranked: K, inBatch: B]
    BY <1>2 DEF RunShape
  <2> QED BY <2>1
<1>4. run' = [q \in Jobs |-> IF q = j THEN w ELSE run[q]]
  BY <1>1 DEF ImportIInv, RunsTyped, of, rk
<1> HIDE DEF w
<1>5. run'[j] = w /\ job' = job /\ leads' = leads /\ disturbed' = disturbed
  BY <1>4 DEF I!LookUp
<1>6. I!Batch(j)' = I!Batch(j)
  <2>1. I!Remaining(j)' = I!Remaining(j)
    BY <1>3, <1>5 DEF I!Remaining
  <2> QED BY <2>1 DEF I!Batch
<1>7. Len(leads) \in Nat
  BY LeadRows DEF LinksIInv, LeadsLinked
<1>8. ASSUME NEW i \in I!Batch(j) PROVE RowJudged(j, i)'
  <2>1. PICK keys, o, K, ranked : /\ keys = job[j].file[i].keys /\ o = c[i]
                                  /\ K = I!Matches(keys, wide) /\ ranked = rk[i]
    OBVIOUS
  <2>2. Known(o) /\ Judged(keys, o, ranked) /\ ranked \in I!Ranks
    <3>1. o \in I!Found(K) /\ ranked = I!RankedAs(K, keys)
      BY <1>1, <2>1 DEF rk, I!RankedIn
    <3> QED BY <2>1, <3>1, FoundJudged DEF LinksIInv
  <2>3. /\ of[i] # 0 => of[i] \in I!Batch(j) /\ of[i] < i /\ I!Shares(j, i, of[i])
        /\ c[i] = 0 /\ Repeated(j, i) # {} => of[i] # 0
    <3>1. I!Batch(j) \subseteq 1..Len(job[j].file) /\ Len(job[j].file) \in Nat
      BY <1>2, BatchRows
    <3> QED BY <3>1, InBatchLinks DEF of
  <2>4. Known(o)' /\ Judged(keys, o, ranked)'
    BY <1>5, <2>2 DEF Known, Judged, Untouched, I!Ids
  <2>5. \A k : I!Shares(j, i, k)' <=> I!Shares(j, i, k)
    BY <1>5 DEF I!Shares
  <2>6. Repeated(j, i)' = Repeated(j, i)
    BY <1>6, <2>5 DEF Repeated
  <2> QED BY <1>3, <1>5, <1>6, <2>1, <2>2, <2>3, <2>4, <2>5, <2>6 DEF RowJudged
<1>9. run'[j].seen \in 0..Len(leads')
  BY <1>3, <1>5, <1>7
<1> QED BY <1>4, <1>6, <1>8, <1>9 DEF RunJudged

LEMMA CreateGrows ==
  ASSUME LinksIInv, NEW f \in Forms, I!CreateLead(f)
  PROVE  Grows \/ (leads' = leads /\ disturbed' = disturbed)
<1> DEFINE w == newLead[f]
           x == I!New(w.keys, w.original, w.seen, w.ranked)
           N == Len(leads)
<1>1. w # None /\ FormJudged(w) /\ LeadsLinked
  BY DEF I!CreateLead, LinksIInv, FormsJudged
<1>2. CASE ~I!Standing(w.original)
  BY <1>2 DEF I!CreateLead
<1>3. CASE I!Standing(w.original)
  <2>1. leads' = Append(leads, x) /\ disturbed' = disturbed
    BY <1>3 DEF I!CreateLead
  <2>2. DOMAIN leads = 1..N /\ N \in Nat /\ I!Clock \in Nat /\ leads \in Seq(I!Lead)
    BY <1>1, LeadRows, ClockTyped DEF LeadsLinked
  <2>3. /\ x.keys = w.keys /\ x.original = w.original /\ x.at = I!Clock /\ x.gone = FALSE
        /\ x.late = (N # w.seen) /\ x.shelf = "never" /\ x.edited = FALSE /\ x.ranked = w.ranked
    BY DEF I!New
  <2>4. w.original \in {0} \cup 1..N /\ w.keys \subseteq Contacts /\ w.ranked \in I!Ranks
    BY <1>1, <2>2 DEF FormJudged, Known, I!Ids
  <2>5. x \in I!Lead
    BY <2>2, <2>4 DEF I!New, I!Lead, I!Shelves
  <2> HIDE DEF x, N
  <2>6. /\ leads' \in Seq(I!Lead) /\ Len(leads') = N + 1
        /\ \A a \in 1..N : leads'[a] = leads[a]
        /\ leads'[N + 1] = x
    BY <2>1, <2>2, <2>5, AppendProperties DEF N
  <2>7. DOMAIN leads' = 1..N + 1
    BY <2>6, LenProperties
  <2>8. ASSUME NEW b \in N + 1..N + 1 PROVE NewLinked(b)
    <3>1. b = N + 1
      BY <2>2
    <3>2. Known(leads[b].original)'
      BY <2>2, <2>3, <2>4, <2>6, <2>7, <3>1 DEF Known, I!Ids
    <3>3. Known(w.original)
      BY <1>1 DEF FormJudged
    <3>4. ASSUME ~leads'[b].late
          PROVE  Judged(leads'[b].keys, leads'[b].original, leads'[b].ranked)
      BY <1>1, <2>3, <2>6, <3>1, <3>4 DEF FormJudged, N
    <3>5. N + 1..b - 1 = {}
      BY <2>2, <3>1
    <3>6. /\ ~I!Changed(b)' /\ leads'[b].at = I!Clock
          /\ leads'[b].original = w.original /\ Known(leads'[b].original)
      BY <2>3, <2>6, <3>1, <3>3 DEF I!Changed
    <3> QED BY <3>2, <3>4, <3>5, <3>6 DEF NewLinked, N
  <2>9. Len(leads) = N /\ N + 1 \in Nat /\ N <= N + 1
    BY <2>2 DEF N
  <2>10. \A b \in N + 1..N + 1 : NewLinked(b)
    BY <2>8
  <2> QED BY <2>1, <2>2, <2>6, <2>7, <2>9, <2>10 DEF Grows
<1> QED BY <1>2, <1>3

\* The leads a batch becomes are linked as it was judged.
LEMMA InsertGrows ==
  ASSUME I!Inputs, I!NoneIsNoRow, ImportIInv, LinksIInv, NEW j \in Jobs, I!InsertBatch(j)
  PROVE  Grows
<1> DEFINE B == I!Batch(j)
           N == Len(leads)
           M == Len(leads')
           file == job[j].file
           id(i) == I!IdOf(j, i)
           lead(i) == I!New(file[i].keys, I!OriginalOf(j, i), run[j].seen, run[j].ranked[i])
<1>1. /\ N \in Nat /\ M \in Nat /\ N <= M /\ DOMAIN leads = 1..N /\ DOMAIN leads' = 1..M
      /\ \A a \in 1..N : leads'[a] = leads[a]
      /\ \A i \in B : id(i) \in N + 1..M /\ leads'[id(i)] = lead(i)
      /\ \A b \in N + 1..M : \E i \in B : b = id(i)
      /\ \A i, k \in B : id(i) < id(k) => i < k
  BY BatchWritten
<1>2. run[j] # None /\ RunJudged(j) /\ LeadsLinked /\ disturbed' = disturbed
  BY DEF I!InsertBatch, I!At, LinksIInv, RunsJudged
<1>3. I!Clock \in Nat /\ I!Ids = 1..N /\ I!Ids' = 1..M
  BY <1>1, <1>2, ClockTyped DEF I!Ids
<1>4. ASSUME NEW i \in B
      PROVE  /\ file[i].keys \subseteq Contacts
             /\ lead(i).keys = file[i].keys /\ lead(i).original = I!OriginalOf(j, i)
             /\ lead(i).at = I!Clock /\ lead(i).gone = FALSE /\ lead(i).late = (N # run[j].seen)
             /\ lead(i).shelf = "never" /\ lead(i).edited = FALSE
             /\ lead(i).ranked = run[j].ranked[i]
  BY <1>2, BatchRows DEF I!New
<1> HIDE DEF B, N, M, id, file
<1>5. ASSUME NEW i \in B
      PROVE  /\ run[j].existing[i] \in {0} \cup 1..N
             /\ run[j].ranked[i] \in I!Ranks
             /\ run[j].existing[i] # 0 => I!OriginalOf(j, i) = run[j].existing[i]
             /\ run[j].existing[i] = 0 /\ run[j].inBatch[i] # 0 =>
                  /\ I!OriginalOf(j, i) = id(run[j].inBatch[i])
                  /\ run[j].inBatch[i] \in B
             /\ run[j].existing[i] = 0 /\ run[j].inBatch[i] = 0 => I!OriginalOf(j, i) = 0
             /\ run[j].seen = N => Judged(file[i].keys, run[j].existing[i], run[j].ranked[i])
             /\ run[j].existing[i] = 0 /\ Repeated(j, i) # {} => run[j].inBatch[i] # 0
  <2>1. RowJudged(j, i)
    BY <1>2 DEF RunJudged, B
  <2>2. Known(run[j].existing[i]) /\ run[j].ranked[i] \in I!Ranks
    BY <2>1 DEF RowJudged
  <2>3. /\ run[j].existing[i] # 0 => I!OriginalOf(j, i) = run[j].existing[i]
        /\ run[j].existing[i] = 0 /\ run[j].inBatch[i] # 0 =>
             I!OriginalOf(j, i) = id(run[j].inBatch[i])
        /\ run[j].existing[i] = 0 /\ run[j].inBatch[i] = 0 => I!OriginalOf(j, i) = 0
    BY DEF I!OriginalOf, id
  <2>4. /\ run[j].seen = N => Judged(file[i].keys, run[j].existing[i], run[j].ranked[i])
        /\ run[j].existing[i] = 0 /\ Repeated(j, i) # {} => run[j].inBatch[i] # 0
        /\ run[j].inBatch[i] # 0 => run[j].inBatch[i] \in B
    BY <2>1 DEF RowJudged, file, N, B
  <2> QED BY <1>3, <2>2, <2>3, <2>4 DEF Known
<1>6. ASSUME NEW i \in B PROVE I!OriginalOf(j, i) \in {0} \cup 1..M
  <2>1. \A k \in B : id(k) \in 1..M
    BY <1>1
  <2>2. 1..N \subseteq 1..M
    BY <1>1
  <2> QED BY <1>5, <2>1, <2>2
<1>7. \A b \in 1..M : b \in 1..N \/ b \in N + 1..M
  BY <1>1
<1>8. leads' \in Seq(I!Lead)
  <2>1. ASSUME NEW i \in B PROVE lead(i) \in I!Lead
    <3>1. I!OriginalOf(j, i) \in Nat
      BY <1>1, <1>6
    <3>2. run[j].ranked[i] \in I!Ranks
      BY <1>5
    <3> QED BY <1>3, <1>4, <3>1, <3>2 DEF I!New, I!Lead, I!Shelves
  <2>2. \A a \in 1..N : leads[a] \in I!Lead
    BY <1>2, LeadRows DEF LeadsLinked, N
  <2>3. \A b \in 1..M : leads'[b] \in I!Lead
    <3> HIDE DEF lead
    <3> QED BY <1>1, <1>7, <2>1, <2>2
  <2>4. leads' = [b \in 1..M |-> leads'[b]]
    <3>1. LeadsCounted'
      BY InsertKeeps DEF ImportIInv
    <3>2. PICK S : leads' \in Seq(S)
      BY <3>1 DEF LeadsCounted
    <3>3. leads' \in [1..M -> S]
      BY <3>2, LenProperties DEF M
    <3> QED BY <3>3
  <2>5. leads' \in [1..M -> I!Lead]
    BY <2>3, <2>4
  <2> QED BY <1>1, <2>5, FunctionIsSeq
<1>9. ASSUME NEW b \in N + 1..M PROVE NewLinked(b)
  <2>1. PICK i \in B : b = id(i)
    BY <1>1
  <2>2. /\ leads'[b].keys = file[i].keys /\ leads'[b].original = I!OriginalOf(j, i)
        /\ leads'[b].at = I!Clock /\ leads'[b].gone = FALSE
        /\ leads'[b].shelf = "never" /\ leads'[b].edited = FALSE
        /\ leads'[b].late = (N # run[j].seen) /\ leads'[b].ranked = run[j].ranked[i]
    <3>1. leads'[b] = lead(i)
      BY <1>1, <2>1
    <3> HIDE DEF lead
    <3> QED BY <1>4, <3>1
  <2> HIDE DEF lead
  <2>3. Known(leads[b].original)'
    BY <1>3, <1>6, <2>2 DEF Known
  <2>4. ~I!Changed(b)'
    BY <2>2 DEF I!Changed
  <2>5. ASSUME ~leads'[b].late
        PROVE  \E e : /\ Known(e) /\ Judged(leads'[b].keys, e, leads'[b].ranked)
                      /\ e # 0 => leads'[b].original = e
    <3> DEFINE e == run[j].existing[i]
    <3>1. /\ Judged(file[i].keys, e, run[j].ranked[i]) /\ e \in {0} \cup 1..N
          /\ e # 0 => leads'[b].original = e
      BY <1>5, <2>2, <2>5
    <3> HIDE DEF e
    <3>2. Known(e) /\ Judged(leads'[b].keys, e, leads'[b].ranked)
      BY <1>3, <2>2, <3>1 DEF Known
    <3> QED BY <3>1, <3>2
  <2>6. ASSUME NEW a \in N + 1..b - 1, leads'[a].keys \cap leads'[b].keys # {}
        PROVE  leads'[b].original # 0
    <3>1. a \in N + 1..M /\ a < b
      BY <1>1
    <3>2. PICK k \in B : a = id(k)
      BY <1>1, <3>1
    <3>3. k < i /\ leads'[a].keys = file[k].keys
      BY <1>1, <1>4, <2>1, <3>1, <3>2 DEF lead
    <3>4. k \in Repeated(j, i)
      <4>1. file[i].keys \cap file[k].keys # {}
        BY <2>2, <2>6, <3>3
      <4> QED BY <3>3, <4>1 DEF Repeated, I!Shares, B, file
    <3>5. CASE run[j].existing[i] # 0
      BY <1>5, <2>2, <3>5
    <3>6. CASE run[j].existing[i] = 0
      <4>1. I!OriginalOf(j, i) = id(run[j].inBatch[i]) /\ run[j].inBatch[i] \in B
        BY <1>5, <3>4, <3>6
      <4>2. \A q \in B : id(q) # 0
        BY <1>1
      <4> QED BY <2>2, <4>1, <4>2
    <3> QED BY <3>5, <3>6
  <2> QED BY <2>2, <2>3, <2>4, <2>5, <2>6 DEF NewLinked, N
<1> QED BY <1>1, <1>2, <1>8, <1>9 DEF Grows, N, M

\* What is written of a job is what was judged, and a row that was shown becomes a duplicate.
LEMMA InsertLinks ==
  ASSUME I!Sizes, I!Inputs, I!NoneIsNoRow, ImportIInv, LinksIInv, NEW j \in Jobs, I!InsertBatch(j)
  PROVE  JobLinked(job[j])'
<1> DEFINE B == I!Batch(j)
           file == job[j].file
           new == {<<i, I!IdOf(j, i)>> : i \in B}
           b == [job[j] EXCEPT !.written = @ \cup new]
<1>1. run[j] # None /\ RunJudged(j) /\ JobLinked(job[j]) /\ job[j] # None
      /\ job[j] \in I!Job /\ file \in Files
  <2>1. run[j] # None /\ job[j] # None
    BY DEF I!InsertBatch, I!At, ImportIInv, RunsMatch
  <2> QED BY <2>1, JobTyped DEF I!InsertBatch, LinksIInv, RunsJudged, JobsLinked
<1>2. Grows /\ LinksStand
  BY InsertGrows, GrowthStands DEF LinksIInv
<1>3. /\ I!Ids = 1..Len(leads) /\ I!Ids' = 1..Len(leads') /\ I!Ids \subseteq I!Ids'
      /\ \A a \in I!Ids : leads'[a] = leads[a]
  BY <1>2 DEF Grows, I!Ids
<1>4. ASSUME NEW i \in B
      PROVE  /\ I!IdOf(j, i) \in I!Ids' /\ leads'[I!IdOf(j, i)].keys = file[i].keys
             /\ leads'[I!IdOf(j, i)].original = I!OriginalOf(j, i)
             /\ leads'[I!IdOf(j, i)].late = (Len(leads) # run[j].seen)
             /\ I!IdOf(j, i) # 0
  <2>1. /\ Len(leads) \in Nat /\ I!IdOf(j, i) \in Len(leads) + 1..Len(leads')
        /\ leads'[I!IdOf(j, i)]
             = I!New(file[i].keys, I!OriginalOf(j, i), run[j].seen, run[j].ranked[i])
    BY BatchWritten
  <2> QED BY <1>3, <2>1 DEF I!New
<1>5. /\ job'[j] = b /\ b.file = file /\ b.flagged = job[j].flagged
      /\ b.written = job[j].written \cup new
  <2>1. job'[j] = b
    BY DEF I!InsertBatch, ImportIInv, JobsTyped
  <2> HIDE DEF new
  <2> QED BY <1>1, <2>1 DEF I!Job
<1>6. \A w \in new : \E i \in B : w = <<i, I!IdOf(j, i)>> /\ w[1] = i /\ w[2] = I!IdOf(j, i)
  OBVIOUS
<1>7. JobLinked(job[j]) /\ disturbed' = disturbed
  BY <1>1 DEF I!InsertBatch
<1>8. PICK c : c = job[j]
  OBVIOUS
<1>9. JobLinked(c)'
  BY <1>2, <1>7, <1>8, JobStands
<1> HIDE DEF new, b, B, file
<1>10. ASSUME NEW i \in B, NEW a \in I!Ids, leads[a].keys \cap file[i].keys # {},
              file[i].keys \cap disturbed = {}, run[j].seen = Len(leads)
       PROVE  I!OriginalOf(j, i) # 0
  <2>1. Untouched(a, file[i].keys) /\ leads[a].shelf = "never"
    <3>1. I!Changed(a) => leads[a].keys \subseteq disturbed
      BY DEF LinksIInv, LeadsLinked
    <3> QED BY <1>10, <3>1 DEF I!Changed, Untouched
  <2>2. Judged(file[i].keys, run[j].existing[i], run[j].ranked[i])
    BY <1>1, <1>10 DEF RunJudged, RowJudged, B, file
  <2>3. run[j].existing[i] # 0
    BY <2>1, <2>2 DEF Judged
  <2> QED BY <2>3 DEF I!OriginalOf
<1>11. ASSUME NEW i \in B, NEW k \in B, k < i, file[k].keys \cap file[i].keys # {}
       PROVE  I!OriginalOf(j, i) # 0
  <2>1. k \in Repeated(j, i)
    BY <1>11 DEF Repeated, I!Shares, B, file
  <2>2. /\ run[j].existing[i] = 0 => run[j].inBatch[i] # 0
        /\ run[j].inBatch[i] # 0 => run[j].inBatch[i] \in B
    BY <1>1, <2>1 DEF RunJudged, RowJudged, B
  <2> QED BY <1>4, <2>2 DEF I!OriginalOf
<1>12. ASSUME NEW i \in B, i \in job[j].flagged, file[i].keys \cap disturbed = {},
              run[j].seen = Len(leads),
              \A k \in 1..(i - 1) : file[k].verdict = "converts" =>
                file[k].keys \cap file[i].keys = {}
       PROVE  I!OriginalOf(j, i) # 0
  <2>1. Shown(file, i)
    BY <1>1, <1>12 DEF JobLinked, FlagsShown, file
  <2>2. CASE \E a \in I!Ids : leads[a].keys \cap file[i].keys # {}
    BY <1>10, <1>12, <2>2
  <2>3. ASSUME NEW k \in 1..(i - 1), file[k].verdict # "refused",
               file[k].keys \cap file[i].keys # {}
        PROVE  I!OriginalOf(j, i) # 0
    <3>1. /\ i \in DOMAIN file /\ B \subseteq 1..Len(file) /\ Len(file) \in Nat
          /\ file \in Seq(I!FileRow)
      BY <1>1, BatchRows DEF I!Inputs, B, file
    <3>2. k \in DOMAIN file /\ k < i /\ k \in 1..Len(file)
      <4>1. DOMAIN file = 1..Len(file)
        BY <3>1, LenProperties
      <4> QED BY <3>1, <4>1
    <3>3. file[k] \in I!FileRow
      BY <3>1, <3>2, ElementOfSeq
    <3>4. k \in I!Plain(file)
      BY <1>12, <2>3, <3>2, <3>3 DEF I!Plain, I!FileRow
    <3>5. CASE k \in I!Written(j)
      <4>1. PICK w \in job[j].written : w[1] = k
        BY <3>5 DEF I!Written
      <4>2. /\ w[2] \in I!Ids
            /\ leads[w[2]].keys = file[k].keys \/ file[k].keys \subseteq disturbed
        BY <1>1, <4>1 DEF JobLinked, WrittenLinked, file
      <4> QED BY <1>10, <1>12, <2>3, <4>2
    <3>6. CASE k \notin I!Written(j)
      <4>1. k \in I!Remaining(j)
        BY <1>1, <3>4, <3>6, RunCounted DEF file
      <4>2. k \in B
        BY <1>1, <3>2, <4>1, BatchFirst DEF B
      <4> QED BY <1>11, <2>3, <3>2, <4>2
    <3> QED BY <3>5, <3>6
  <2> QED BY <1>12, <2>1, <2>2, <2>3 DEF Shown
<1>13. PICK d : d = b
  OBVIOUS
<1>14. ASSUME NEW w \in d.written
       PROVE  /\ w[2] \in I!Ids'
              /\ \/ leads'[w[2]].keys = d.file[w[1]].keys
                 \/ d.file[w[1]].keys \subseteq disturbed'
              /\ FlagHolds(d, w)'
  <2>1. CASE w \in job[j].written
    <3>1. w \in c.written /\ d.file = c.file /\ d.flagged = c.flagged
      BY <1>5, <1>8, <1>13, <2>1 DEF file
    <3> QED BY <1>9, <3>1 DEF JobLinked, WrittenLinked, FlagHolds
  <2>2. CASE w \in new
    <3>1. PICK i \in B : w[1] = i /\ w[2] = I!IdOf(j, i)
      BY <1>6, <2>2
    <3>2. d.file = file /\ d.flagged = job[j].flagged
      BY <1>5, <1>13
    <3>3. w[2] \in I!Ids' /\ leads'[w[2]].keys = d.file[w[1]].keys
      BY <1>4, <3>1, <3>2
    <3>4. ASSUME i \in d.flagged, ~leads'[w[2]].late, file[i].keys \cap disturbed' = {},
                 \A k \in 1..(i - 1) : file[k].verdict = "converts" =>
                   file[k].keys \cap file[i].keys = {}
          PROVE  I!Linked(w[2])'
      <4>1. run[j].seen = Len(leads) /\ file[i].keys \cap disturbed = {}
        BY <1>4, <1>7, <3>1, <3>4
      <4>2. I!OriginalOf(j, i) # 0
        BY <1>12, <3>2, <3>4, <4>1
      <4> QED BY <1>4, <3>1, <4>2 DEF I!Linked
    <3>5. FlagHolds(d, w)'
      BY <3>1, <3>2, <3>4 DEF FlagHolds
    <3> QED BY <3>3, <3>5
  <2>3. w \in job[j].written \/ w \in new
    BY <1>5, <1>13
  <2> QED BY <2>1, <2>2, <2>3
<1>15. FlagsShown(d)'
  <2>1. d.file = c.file /\ d.flagged = c.flagged
    BY <1>5, <1>8, <1>13 DEF file
  <2> QED BY <1>9, <2>1 DEF JobLinked, FlagsShown
<1>16. JobLinked(d)'
  BY <1>14, <1>15 DEF JobLinked, WrittenLinked
<1>17. job'[j] = d
  BY <1>5, <1>13
<1> QED BY <1>16, <1>17 DEF JobLinked, WrittenLinked, FlagsShown, FlagHolds, Shown

LEMMA SameKeeps ==
  ASSUME LinksIInv, leads' = leads, disturbed' = disturbed
  PROVE  LinksStand /\ LeadsLinked' /\ I!SharedIsLinked' /\ I!StarWhenMatched'
<1>1. I!Ids' = I!Ids
  BY DEF I!Ids
<1>2. LeadsLinked'
  BY <1>1 DEF LinksIInv, LeadsLinked, Known, I!Changed
<1>3. I!SharedIsLinked' /\ I!StarWhenMatched'
  BY <1>1 DEF LinksIInv, I!SharedIsLinked, I!StarWhenMatched, I!Comparable, I!Linked
<1> QED BY <1>2, <1>3, SameStands DEF LinksIInv

\* A step of the runs: no lead is written, and no run comes to its insert.
LEMMA RunsStepKeeps ==
  ASSUME LinksIInv, leads' = leads, disturbed' = disturbed,
         newLead' = [f \in Forms |-> newLead'[f]],
         \A f \in Forms : newLead'[f] = newLead[f] \/ newLead'[f] = None,
         \A j \in Jobs : \/ run'[j] = run[j] /\ job'[j] = job[j]
                         \/ run'[j] = None \/ run'[j].step # "insert",
         \A j \in Jobs : \/ job'[j] = job[j]
                         \/ job[j] # None /\ SameRows(job'[j], job[j])
                         \/ JobLinked(job[j])'
  PROVE  LinksIInv'
<1>1. \A j \in Jobs : \/ run'[j] = run[j] /\ job'[j] = job[j]
                      \/ ~I!At(j, "insert")'
                      \/ RunJudged(j)'
  BY DEF I!At
<1>2. \A j \in Jobs : \/ job'[j] = None
                      \/ job[j] # None /\ SameRows(job'[j], job[j])
                      \/ JobLinked(job[j])'
  BY DEF SameRows
<1>3. FormsJudged' /\ RunsJudged' /\ JobsLinked'
  <2>1. LinksStand /\ FormsJudged /\ RunsJudged /\ JobsLinked
    BY SameKeeps DEF LinksIInv
  <2>2. \A f \in Forms : \/ newLead'[f] = newLead[f] \/ newLead'[f] = None
                         \/ FormJudged(newLead[f])'
    OBVIOUS
  <2> QED BY <1>1, <1>2, <2>1, <2>2, OthersStand
<1> QED BY <1>3, SameKeeps DEF LinksIInv

LEMMA StartLinks ==
  ASSUME I!Inputs, I!NoneIsNoRow, ImportIInv, LinksIInv, NEW j \in Jobs, NEW file \in Files,
         I!StartImport(j, file)
  PROVE  LinksIInv'
<1>0. PICK wide \in BOOLEAN :
        job' = [job EXCEPT ![j] =
                  [file |-> file, status |-> "PROCESSING", imported |-> 0,
                   processed |-> I!Refused(file), failed |-> I!Refused(file),
                   unwritten |-> {}, flagged |-> I!Flagged(file, wide), written |-> {}]]
  BY DEF I!StartImport
<1> DEFINE b == [file |-> file, status |-> "PROCESSING", imported |-> 0,
                 processed |-> I!Refused(file), failed |-> I!Refused(file),
                 unwritten |-> {}, flagged |-> I!Flagged(file, wide), written |-> {}]
           w == [step |-> IF I!Plain(file) = {} THEN "complete" ELSE "lookUp",
                 landed |-> {}, seen |-> 0, existing |-> <<>>, ranked |-> <<>>,
                 inBatch |-> <<>>]
<1>1. leads' = leads /\ disturbed' = disturbed /\ newLead' = newLead /\ I!Ids' = I!Ids
  BY DEF I!StartImport, I!Ids
<1>2. /\ \A q \in Jobs : job'[q] = IF q = j THEN b ELSE job[q]
      /\ \A q \in Jobs : run'[q] = IF q = j THEN w ELSE run[q]
  BY <1>0 DEF I!StartImport, ImportIInv, JobsTyped, RunsTyped
<1>3. b.file = file /\ b.flagged = I!Flagged(file, wide) /\ b.written = {} /\ w.step # "insert"
  OBVIOUS
<1> HIDE DEF b, w
<1>4. ASSUME NEW i \in I!Flagged(file, wide) PROVE i \in DOMAIN file /\ Shown(file, i)'
  <2>1. i \in DOMAIN file /\ file[i].keys \cap (I!Seen(file, i) \cup I!Existing(wide)) # {}
    BY DEF I!Flagged, I!Plain
  <2>2. CASE file[i].keys \cap I!Existing(wide) # {}
    <3>1. \E a \in I!Ids : leads[a].keys \cap file[i].keys # {}
      BY <2>2 DEF I!Existing, I!Searched
    <3> QED BY <1>1, <2>1, <3>1 DEF Shown
  <2>3. CASE file[i].keys \cap I!Seen(file, i) # {}
    <3>1. \E k \in 1..(i - 1) : file[k].verdict # "refused" /\ file[k].keys \cap file[i].keys # {}
      BY <2>3 DEF I!Seen
    <3> QED BY <2>1, <3>1 DEF Shown
  <2> QED BY <2>1, <2>2, <2>3
<1>5. JobLinked(job[j])'
  BY <1>2, <1>3, <1>4 DEF JobLinked, WrittenLinked, FlagsShown
<1>6. newLead' = [f \in Forms |-> newLead'[f]]
  BY <1>1 DEF LinksIInv, FormsJudged
<1>7. /\ \A f \in Forms : newLead'[f] = newLead[f] \/ newLead'[f] = None
      /\ \A q \in Jobs : \/ run'[q] = run[q] /\ job'[q] = job[q]
                         \/ run'[q] = None \/ run'[q].step # "insert"
      /\ \A q \in Jobs : \/ job'[q] = job[q]
                         \/ job[q] # None /\ SameRows(job'[q], job[q])
                         \/ JobLinked(job[q])'
  BY <1>1, <1>2, <1>3, <1>5
<1> QED BY <1>1, <1>6, <1>7, RunsStepKeeps

LEMMA LookUpLinks ==
  ASSUME I!Inputs, ImportIInv, LinksIInv, NEW j \in Jobs, I!LookUp(j)
  PROVE  LinksIInv'
<1>1. RunJudged(j)' /\ \A q \in Jobs : q # j => run'[q] = run[q]
  BY LookUpJudges
<1>2. leads' = leads /\ disturbed' = disturbed /\ newLead' = newLead /\ job' = job
  BY DEF I!LookUp
<1>3. LinksStand /\ LeadsLinked' /\ I!SharedIsLinked' /\ I!StarWhenMatched'
  BY <1>2, SameKeeps
<1>4. newLead' = [f \in Forms |-> newLead'[f]]
  BY <1>2 DEF LinksIInv, FormsJudged
<1>5. \A q \in Jobs : \/ run'[q] = run[q] /\ job'[q] = job[q]
                      \/ ~I!At(q, "insert")'
                      \/ RunJudged(q)'
  BY <1>1, <1>2
<1>6. \A q \in Jobs : \/ job'[q] = None
                      \/ job[q] # None /\ SameRows(job'[q], job[q])
                      \/ JobLinked(job[q])'
  BY <1>2 DEF SameRows
<1>7. \A f \in Forms : \/ newLead'[f] = newLead[f] \/ newLead'[f] = None
                       \/ FormJudged(newLead[f])'
  BY <1>2
<1>8. FormsJudged' /\ RunsJudged' /\ JobsLinked'
  BY <1>3, <1>4, <1>5, <1>6, <1>7, OthersStand DEF LinksIInv
<1> QED BY <1>3, <1>8 DEF LinksIInv

LEMMA InsertKeepsLinks ==
  ASSUME I!Sizes, I!Inputs, I!NoneIsNoRow, ImportIInv, LinksIInv, NEW j \in Jobs, I!InsertBatch(j)
  PROVE  LinksIInv'
<1>1. Grows
  BY InsertGrows
<1>2. LinksStand /\ LeadsLinked' /\ I!SharedIsLinked' /\ I!StarWhenMatched'
  BY <1>1, GrowthStands, GrowthKeeps DEF LinksIInv
<1>3. JobLinked(job[j])'
  BY InsertLinks
<1>4. /\ newLead' = newLead
      /\ \A q \in Jobs : q # j => run'[q] = run[q] /\ job'[q] = job[q]
  BY DEF I!InsertBatch, ImportIInv, JobsTyped, RunsTyped
<1>5. run'[j].step = "progress"
  <2> DEFINE w == [run[j] EXCEPT !.step = "progress", !.landed = I!Landed(j)]
  <2>1. RunShape(run[j])
    BY DEF I!InsertBatch, I!At, ImportIInv, RunsTyped
  <2>2. run'[j] = w
    BY DEF I!InsertBatch, ImportIInv, RunsTyped
  <2>3. PICK E, K, B : run[j] \in [step: {"lookUp", "insert", "progress", "complete", "fail"},
                                landed: SUBSET Nat, seen: Nat, existing: E, ranked: K, inBatch: B]
    BY <2>1 DEF RunShape
  <2> QED BY <2>2, <2>3
<1>6. newLead' = [f \in Forms |-> newLead'[f]]
  BY <1>4 DEF LinksIInv, FormsJudged
<1>7. \A q \in Jobs : \/ run'[q] = run[q] /\ job'[q] = job[q]
                      \/ ~I!At(q, "insert")'
                      \/ RunJudged(q)'
  BY <1>4, <1>5 DEF I!At
<1>8. \A q \in Jobs : \/ job'[q] = None
                      \/ job[q] # None /\ SameRows(job'[q], job[q])
                      \/ JobLinked(job[q])'
  BY <1>3, <1>4 DEF SameRows
<1>9. \A f \in Forms : \/ newLead'[f] = newLead[f] \/ newLead'[f] = None
                       \/ FormJudged(newLead[f])'
  BY <1>4
<1>10. FormsJudged' /\ RunsJudged' /\ JobsLinked'
  BY <1>2, <1>6, <1>7, <1>8, <1>9, OthersStand DEF LinksIInv
<1> QED BY <1>2, <1>10 DEF LinksIInv

\* Progress, the end of a run, its failure and a crash.
LEMMA RunsMoveLinks ==
  ASSUME I!Inputs, ImportIInv, LinksIInv,
         \/ I!Crash
         \/ \E j \in Jobs : \/ I!Progress(j) \/ I!Complete(j) \/ I!RunFails(j)
                            \/ I!RecordFailure(j) \/ I!FailureUnrecorded(j)
  PROVE  LinksIInv'
<1>1. leads' = leads /\ disturbed' = disturbed
  BY DEF I!Crash, I!Progress, I!Complete, I!RunFails, I!RecordFailure, I!FailureUnrecorded
<1>2. /\ newLead' = [f \in Forms |-> newLead'[f]]
      /\ \A f \in Forms : newLead'[f] = newLead[f] \/ newLead'[f] = None
  BY DEF I!Crash, I!Progress, I!Complete, I!RunFails, I!RecordFailure, I!FailureUnrecorded,
         LinksIInv, FormsJudged
<1>3. \A q \in Jobs : \/ run'[q] = run[q] /\ job'[q] = job[q]
                      \/ run'[q] = None \/ run'[q].step # "insert"
  <2>1. ASSUME NEW j \in Jobs, I!Goto(j, "fail") \/ I!Goto(j, I!NextStep(j)), run[j] # None,
               \A q \in Jobs : q # j => job'[q] = job[q]
        PROVE  \A q \in Jobs : \/ run'[q] = run[q] /\ job'[q] = job[q]
                               \/ run'[q].step # "insert"
    <3>1. PICK E, K, B : run[j] \in [step: {"lookUp", "insert", "progress", "complete", "fail"},
                                  landed: SUBSET Nat, seen: Nat, existing: E, ranked: K, inBatch: B]
      BY <2>1 DEF ImportIInv, RunsTyped, RunShape
    <3>2. \A s : [run[j] EXCEPT !.step = s].step = s
      BY <3>1
    <3>3. \E s \in {"fail", "complete", "lookUp"} :
            run' = [q \in Jobs |-> IF q = j THEN [run[j] EXCEPT !.step = s] ELSE run[q]]
      BY <2>1 DEF I!Goto, I!NextStep, ImportIInv, RunsTyped
    <3> QED BY <2>1, <3>2, <3>3
  <2>2. CASE \E j \in Jobs : I!Progress(j) \/ I!RunFails(j)
    BY <2>1, <2>2 DEF I!Progress, I!RunFails, I!At, ImportIInv, JobsTyped
  <2>3. CASE I!Crash
    BY <2>3 DEF I!Crash
  <2>4. CASE \E j \in Jobs : I!Complete(j) \/ I!RecordFailure(j) \/ I!FailureUnrecorded(j)
    BY <2>4 DEF I!Complete, I!RecordFailure, I!FailureUnrecorded, I!Ended, ImportIInv, RunsTyped,
                JobsTyped
  <2> QED BY <2>2, <2>3, <2>4
<1>4. \A q \in Jobs : job'[q] = job[q] \/ (job[q] # None /\ SameRows(job'[q], job[q]))
  <2> SUFFICES ASSUME NEW j \in Jobs, I!Progress(j) \/ I!Complete(j) \/ I!RecordFailure(j)
               PROVE  job[j] # None /\ SameRows(job'[j], job[j])
                      /\ \A q \in Jobs : q # j => job'[q] = job[q]
    BY DEF I!Crash, I!RunFails, I!FailureUnrecorded
  <2>1. job[j] # None /\ job[j] \in I!Job
    BY RunCounted DEF I!Progress, I!Complete, I!RecordFailure, I!At
  <2>2. \A q \in Jobs : q # j => job'[q] = job[q]
    BY DEF I!Progress, I!Complete, I!RecordFailure, ImportIInv, JobsTyped
  <2>3. job'[j].file = job[j].file /\ job'[j].written = job[j].written
        /\ job'[j].flagged = job[j].flagged
    <3>1. CASE I!Progress(j)
      <4>1. \E x, y : job' = [job EXCEPT ![j].imported = x, ![j].processed = y]
        BY <3>1 DEF I!Progress
      <4> QED BY <2>1, <4>1 DEF ImportIInv, JobsTyped, I!Job
    <3>2. CASE I!Complete(j)
      <4>1. \E x, y, z : job' = [job EXCEPT ![j].status = x, ![j].imported = y, ![j].processed = z]
        BY <3>2 DEF I!Complete
      <4> QED BY <2>1, <4>1 DEF ImportIInv, JobsTyped, I!Job
    <3>3. CASE I!RecordFailure(j)
      <4>1. \E x, y, z, u, v :
              job' = [job EXCEPT ![j] = [@ EXCEPT !.status = x, !.imported = y, !.processed = z,
                                                  !.unwritten = u, !.failed = v]]
        BY <3>3 DEF I!RecordFailure
      <4> QED BY <2>1, <4>1 DEF ImportIInv, JobsTyped, I!Job
    <3> QED BY <3>1, <3>2, <3>3
  <2> QED BY <2>1, <2>2, <2>3 DEF SameRows
<1>5. \A q \in Jobs : \/ job'[q] = job[q]
                      \/ job[q] # None /\ SameRows(job'[q], job[q])
                      \/ JobLinked(job[q])'
  BY <1>4
<1> QED BY <1>1, <1>2, <1>3, <1>5, RunsStepKeeps

\* What a form goes on with after its lookup, or a copy without one.
LEMMA SubmitsJudged ==
  ASSUME I!Sizes, I!Inputs, LinksIInv, NEW f \in Forms, Submits(f)
  PROVE  \E w : FormJudged(w) /\ newLead' = [newLead EXCEPT ![f] = w]
<1>1. LeadsLinked /\ Len(leads) \in 0..Len(leads)
  BY LeadRows DEF LinksIInv, LeadsLinked
<1>2. CASE \E keys \in Enquiries : I!CheckCreate(f, keys)
  <2>1. PICK keys \in Enquiries, wide \in BOOLEAN :
          \E K \in I!Oldest(I!Matches(keys, wide)) : \E o \in I!Found(K) :
            newLead' = [newLead EXCEPT ![f] = [keys |-> keys, original |-> o, seen |-> Len(leads),
                                               ranked |-> I!RankedAs(K, keys)]]
    BY <1>2 DEF I!CheckCreate
  <2>2. PICK K \in I!Oldest(I!Matches(keys, wide)) : \E o \in I!Found(K) :
          newLead' = [newLead EXCEPT ![f] = [keys |-> keys, original |-> o, seen |-> Len(leads),
                                             ranked |-> I!RankedAs(K, keys)]]
    BY <2>1
  <2>3. PICK o \in I!Found(K) :
          newLead' = [newLead EXCEPT ![f] = [keys |-> keys, original |-> o, seen |-> Len(leads),
                                             ranked |-> I!RankedAs(K, keys)]]
    BY <2>2
  <2>4. K \in SUBSET I!Matches(keys, wide) /\ (I!Matches(keys, wide) # {} => K # {})
    <3>1. K # I!Matches(keys, wide) => I!Cardinality(K) # 0
      BY DEF I!Oldest, I!Sizes
    <3>2. I!Cardinality({}) = 0
      BY FS_EmptySet, Counting
    <3> QED BY <3>1, <3>2 DEF I!Oldest
  <2>5. /\ Known(o) /\ Judged(keys, o, I!RankedAs(K, keys)) /\ I!RankedAs(K, keys) \in I!Ranks
    BY <1>1, <2>4, FoundJudged
  <2>6. keys \subseteq Contacts
    BY DEF I!Inputs
  <2>7. PICK w : w = [keys |-> keys, original |-> o, seen |-> Len(leads),
                      ranked |-> I!RankedAs(K, keys)]
    OBVIOUS
  <2>8. FormJudged(w)
    BY <1>1, <2>5, <2>6, <2>7 DEF FormJudged
  <2> QED BY <2>3, <2>7, <2>8
<1>3. CASE \E i \in I!Ids : I!CheckCopy(f, i)
  <2>1. PICK i \in I!Ids : I!CheckCopy(f, i)
    BY <1>3
  <2> DEFINE o == IF leads[i].original # 0 THEN leads[i].original ELSE i
             w == [keys |-> leads[i].keys, original |-> o, seen |-> Len(leads), ranked |-> "some"]
  <2>2. newLead' = [newLead EXCEPT ![f] = w]
    BY <2>1 DEF I!CheckCopy
  <2>3. I!Ids = 1..Len(leads) /\ leads[i] \in I!Lead
    BY LeadRows DEF LinksIInv, LeadsLinked, I!Ids
  <2>4. o # 0 /\ Known(o)
    BY <1>1, <2>3 DEF LeadsLinked, Known
  <2>5. leads[i].keys \subseteq Contacts
    BY <2>3 DEF I!Lead
  <2> HIDE DEF o
  <2>6. FormJudged(w)
    BY <1>1, <2>4, <2>5 DEF FormJudged, Judged, I!Ranks
  <2> HIDE DEF w
  <2> QED BY <2>2, <2>6
<1> QED BY <1>2, <1>3 DEF Submits

\* The New Lead form, a copy, and a lead changed later.
LEMMA LeadsMoveLinks ==
  ASSUME I!Sizes, I!Inputs, ImportIInv, LinksIInv,
         \/ \E f \in Forms : I!CreateLead(f) \/ Submits(f)
         \/ \E i \in I!Ids : Changes(i)
  PROVE  LinksIInv'
<1>1. job' = job /\ run' = run
  BY DEF I!CreateLead, I!CheckCreate, I!CheckCopy, I!ArchiveLead, I!RestoreLead, I!DeleteLead,
         I!EditLead, I!Disturbs, Changes, Submits
<1>2. LinksStand /\ LeadsLinked' /\ I!SharedIsLinked' /\ I!StarWhenMatched'
  <2>1. CASE \E f \in Forms : I!CreateLead(f)
    BY <2>1, CreateGrows, GrowthStands, GrowthKeeps, SameKeeps DEF LinksIInv
  <2>2. CASE \E f \in Forms : Submits(f)
    <3>1. leads' = leads /\ disturbed' = disturbed
      BY <2>2 DEF Submits, I!CheckCreate, I!CheckCopy
    <3> QED BY <3>1, SameKeeps
  <2>3. CASE \E i \in I!Ids : Changes(i)
    BY <2>3, ChangeStands, ChangeKeeps DEF LinksIInv
  <2> QED BY <2>1, <2>2, <2>3
<1>3. /\ newLead' = [f \in Forms |-> newLead'[f]]
      /\ \A f \in Forms : \/ newLead'[f] = newLead[f] \/ newLead'[f] = None
                          \/ FormJudged(newLead[f])'
  <2>1. CASE \E f \in Forms : I!CreateLead(f)
    BY <2>1 DEF I!CreateLead, LinksIInv, FormsJudged
  <2>2. CASE \E i \in I!Ids : Changes(i)
    <3>1. newLead' = newLead
      BY <2>2 DEF Changes, I!ArchiveLead, I!RestoreLead, I!DeleteLead, I!EditLead, I!Disturbs
    <3> QED BY <3>1 DEF LinksIInv, FormsJudged
  <2>3. ASSUME NEW f \in Forms, Submits(f)
        PROVE  /\ newLead' = [g \in Forms |-> newLead'[g]]
               /\ \A g \in Forms : newLead'[g] = newLead[g] \/ FormJudged(newLead[g])'
    <3>1. PICK w : FormJudged(w) /\ newLead' = [newLead EXCEPT ![f] = w]
      BY <2>3, SubmitsJudged
    <3>2. FormJudged(w)'
      BY <1>2, <3>1, FormStands
    <3>3. newLead' = [g \in Forms |-> IF g = f THEN w ELSE newLead[g]]
      BY <3>1 DEF LinksIInv, FormsJudged
    <3> QED BY <3>2, <3>3 DEF FormJudged
  <2> QED BY <2>1, <2>2, <2>3
<1>4. FormsJudged' /\ RunsJudged' /\ JobsLinked'
  <2>1. \A q \in Jobs : \/ run'[q] = run[q] /\ job'[q] = job[q]
                        \/ ~I!At(q, "insert")'
                        \/ RunJudged(q)'
    BY <1>1
  <2>2. \A q \in Jobs : \/ job'[q] = None
                        \/ job[q] # None /\ SameRows(job'[q], job[q])
                        \/ JobLinked(job[q])'
    BY <1>1 DEF SameRows
  <2> QED BY <1>2, <1>3, <2>1, <2>2, OthersStand DEF LinksIInv
<1> QED BY <1>2, <1>4 DEF LinksIInv

LEMMA LinksStart ==
  ASSUME I!Init
  PROVE  LinksIInv
<1>1. leads \in Seq(I!Lead) /\ I!Ids = {}
  BY EmptySeq DEF I!Init, I!Ids
<1> QED BY <1>1
        DEF I!Init, LinksIInv, LeadsLinked, FormsJudged, RunsJudged, JobsLinked, I!At,
            I!SharedIsLinked, I!StarWhenMatched

LEMMA LinksNext ==
  ASSUME I!Sizes, I!Inputs, I!NoneIsNoRow, ImportIInv, LinksIInv, [I!Next]_(I!vars)
  PROVE  LinksIInv'
<1>1. ASSUME NEW j \in Jobs, I!Steps(j)
      PROVE  LinksIInv'
  <2>1. CASE I!LookUp(j)
    BY <2>1, LookUpLinks
  <2>2. CASE I!InsertBatch(j)
    BY <2>2, InsertKeepsLinks
  <2>3. CASE \/ I!Progress(j) \/ I!Complete(j) \/ I!RunFails(j)
             \/ I!RecordFailure(j) \/ I!FailureUnrecorded(j)
    BY <2>3, RunsMoveLinks
  <2> QED BY <1>1, <2>1, <2>2, <2>3 DEF I!Steps
<1>2. ASSUME NEW j \in Jobs, NEW file \in Files, I!StartImport(j, file)
      PROVE  LinksIInv'
  BY <1>2, StartLinks
<1>3. CASE \/ \E f \in Forms : I!CreateLead(f) \/ Submits(f)
           \/ \E i \in I!Ids : Changes(i)
  BY <1>3, LeadsMoveLinks
<1>4. CASE I!Crash
  BY <1>4, RunsMoveLinks
<1>5. CASE UNCHANGED I!vars
  <2>1. /\ leads' = leads /\ disturbed' = disturbed /\ newLead' = newLead /\ job' = job /\ run' = run
    BY <1>5 DEF I!vars
  <2>2. newLead' = [f \in Forms |-> newLead'[f]]
    BY <2>1 DEF LinksIInv, FormsJudged
  <2> QED BY <2>1, <2>2, RunsStepKeeps
<1> QED BY <1>1, <1>2, <1>3, <1>4, <1>5 DEF I!Next, Submits, Changes

\* What the tables of leads and jobs say of the duplicates.
LEMMA LinksTell ==
  ASSUME ImportIInv, LinksIInv
  PROVE  I!TypeOK /\ I!SharedIsLinked /\ I!StarWhenMatched /\ I!PreviewHolds
<1>1. I!TypeOK
  <2>1. \A a \in I!Ids : leads[a].original \in {0} \cup I!Ids
    BY DEF LinksIInv, LeadsLinked, Known
  <2>2. \A j \in Jobs : run[j] # None =>
          /\ job[j] # None /\ job[j].status = "PROCESSING"
          /\ run[j].step \in {"lookUp", "insert", "progress", "complete", "fail"}
    BY DEF ImportIInv, RunsMatch, RunsTyped, RunShape
  <2> QED BY <2>1, <2>2 DEF I!TypeOK, ImportIInv, JobsTyped, LinksIInv, LeadsLinked
<1>2. I!PreviewHolds
  BY DEF I!PreviewHolds, LinksIInv, JobsLinked, JobLinked, FlagHolds
<1> QED BY <1>1, <1>2 DEF LinksIInv

\* Whatever imports, New Lead forms and copies cross, wherever a run stops and whichever leads are
\* edited, archived, restored or deleted: a lead that shares a contact with an earlier one its
\* lookup covered is recorded as a duplicate, of an original where one was among the leads it
\* ranked, and what the preview of a file said comes true.
THEOREM DuplicatesStayLinked ==
  ASSUME I!Sizes, I!Inputs, I!NoneIsNoRow
  PROVE  I!Init /\ [][I!Next]_(I!vars) =>
           [](I!TypeOK /\ I!SharedIsLinked /\ I!StarWhenMatched /\ I!PreviewHolds)
<1>1. I!Init => ImportIInv /\ LinksIInv
  BY ImportInitIInv, LinksStart
<1>2. ImportIInv /\ LinksIInv /\ [I!Next]_(I!vars) => (ImportIInv /\ LinksIInv)'
  BY ImportNextIInv, LinksNext
<1>3. ImportIInv /\ LinksIInv =>
        I!TypeOK /\ I!SharedIsLinked /\ I!StarWhenMatched /\ I!PreviewHolds
  BY LinksTell
<1> QED BY <1>1, <1>2, <1>3, PTL
-----------------------------------------------------------------------------
(***************************************************************************)
(* The assignment of leads, for any number of users, leads and requests.   *)
(* The round robin passes a user over by a row stamped before his latest   *)
(* and committed after it, or by a pick made before his turn could be      *)
(* seen: every request owes him at most one of each until he gets a lead,  *)
(* and one that has committed owes him nothing.                            *)
(***************************************************************************)

CallSet == [step : R!Steps, lead : NewLeads \cup {None}, users : SUBSET R!Users,
            needsLogin : BOOLEAN,
            auto : BOOLEAN, rule : Rules \cup {None}, status : R!Statuses \cup {None}]
RowSet == [lead : NewLeads, user : R!Users, auto : BOOLEAN, visible : BOOLEAN]

LEMMA WritersCounted ==
  ASSUME R!Sizes
  PROVE  /\ IsFiniteSet(Writers) /\ Writers # {}
         /\ R!Cardinality(Writers) \in Nat /\ R!Cardinality(Writers) # 0
<1>1. IsFiniteSet(Writers) /\ Writers # {}
  BY CountedAlike DEF R!Sizes
<1> QED BY <1>1, FS_CardinalityType, CountedAlike, FS_EmptySet, CountedAlike

-----------------------------------------------------------------------------
(* Rows that are kept stay in their order. *)

\* f tells where each of the rows in kept was.
TakenFrom(kept, P, f) ==
  /\ f \in [DOMAIN kept -> P]
  /\ \A n \in DOMAIN kept : kept[n] = rows[f[n]]
  /\ \A i \in P : \E n \in DOMAIN kept : f[n] = i
  /\ \A m, n \in DOMAIN kept : m < n <=> f[m] < f[n]

LEMMA KeptRows ==
  ASSUME NEW T, rows \in Seq(T), NEW P \in SUBSET (DOMAIN rows)
  PROVE  R!Kept(P) \in Seq(T) /\ \E f : TakenFrom(R!Kept(P), P, f)
<1>1. IsFiniteSet(P) /\ P \subseteq Nat
  <2>1. DOMAIN rows = 1..Len(rows) /\ Len(rows) \in Nat
    OBVIOUS
  <2>2. IsFiniteSet(1..Len(rows)) /\ P \subseteq 1..Len(rows)
    BY <2>1, FS_Interval, CountedAlike
  <2> QED BY <2>1, <2>2, FS_Subset, CountedAlike
<1>2. PICK f \in [1..R!Cardinality(P) -> P] :
           /\ \A i \in P : \E n \in 1..R!Cardinality(P) : f[n] = i
           /\ \A m, n \in 1..R!Cardinality(P) : m < n => f[m] < f[n]
           /\ \A n \in 1..R!Cardinality(P) : f[n] = R!Nth(P, n)
  BY <1>1, PlacesCounted
<1> DEFINE C == R!Cardinality(P)
<1>3. C \in Nat
  BY <1>1, FS_CardinalityType, CountedAlike
<1>4. R!Kept(P) = [n \in 1..C |-> rows[f[n]]]
  BY <1>2 DEF R!Kept
<1>5. \A m, n \in 1..C : m < n <=> f[m] < f[n]
  <2> SUFFICES ASSUME NEW m \in 1..C, NEW n \in 1..C, f[m] < f[n] PROVE m < n
    BY <1>2
  <2>1. f[m] \in Nat /\ f[n] \in Nat
    BY <1>1, <1>2
  <2>2. ~(n < m) /\ m # n
    BY <1>2, <2>1
  <2> HIDE DEF C
  <2> QED BY <1>3, <2>2
<1> HIDE DEF C
<1>6. R!Kept(P) \in [1..C -> T]
  <2>1. \A n \in 1..C : rows[f[n]] \in T
    BY <1>2 DEF C
  <2> QED BY <1>4, <2>1
<1>7. R!Kept(P) \in Seq(T)
  BY <1>3, <1>6, SeqDef
<1>8. DOMAIN R!Kept(P) = 1..C
  BY <1>4
<1> QED BY <1>2, <1>4, <1>5, <1>7, <1>8 DEF TakenFrom, C

\* A finite set is put in some order.
LEMMA SetOrdered ==
  ASSUME NEW S, IsFiniteSet(S)
  PROVE  /\ R!SetToSeq(S) \in Seq(S)
         /\ \A x \in S : \E n \in DOMAIN R!SetToSeq(S) : R!SetToSeq(S)[n] = x
<1> DEFINE C == R!Cardinality(S)
<1>1. C \in Nat /\ ExistsBijection(1..C, S)
  BY FS_CardinalityType, CountedAlike
<1>2. \E f \in [1..C -> S] : R!IsInjective(f)
  BY <1>1 DEF ExistsBijection, Bijection, Injection, IsInjective, R!IsInjective
<1>3. R!SetToSeq(S) \in [1..C -> S] /\ IsInjective(R!SetToSeq(S))
  BY <1>2 DEF R!SetToSeq, IsInjective, R!IsInjective
<1>4. R!SetToSeq(S) \in Injection(1..C, S)
  BY <1>3 DEF Injection
<1>5. R!SetToSeq(S) \in Surjection(1..C, S)
  <2>1. R!Cardinality(1..C) = C
    BY <1>1, FS_Interval, CountedAlike
  <2> HIDE DEF C
  <2> QED BY <1>4, <2>1, FS_Injection, CountedAlike DEF C
<1> HIDE DEF C
<1>6. R!SetToSeq(S) \in Seq(S)
  BY <1>1, <1>3, SeqDef
<1>7. DOMAIN R!SetToSeq(S) = 1..C
  BY <1>3
<1> QED BY <1>5, <1>6, <1>7 DEF Surjection

-----------------------------------------------------------------------------
(* What a turn counts. *)

LEMMA CountsAnew ==
  ASSUME NEW X, IsFiniteSet(X), NEW B \in SUBSET X, NEW N \in SUBSET X, B \cap N = {}, B # X,
         NEW h \in BOOLEAN
  PROVE  R!Cardinality(B) + (IF h THEN R!Cardinality(X) ELSE R!Cardinality(N))
           < 2 * R!Cardinality(X)
<1> DEFINE x == R!Cardinality(X)
           b == R!Cardinality(B)
           k == R!Cardinality(N)
<1>1. IsFiniteSet(B) /\ IsFiniteSet(N)
  BY FS_Subset, CountedAlike
<1>2. x \in Nat /\ b \in Nat /\ k \in Nat
  BY <1>1, FS_CardinalityType, CountedAlike
<1>3. b < x
  BY <1>1, <1>2, FS_Subset, CountedAlike
<1>4. b + k <= x
  <2>1. R!Cardinality(B \cup N) = b + k - R!Cardinality(B \cap N) /\ IsFiniteSet(B \cup N)
    BY <1>1, FS_Union, CountedAlike
  <2>2. R!Cardinality(B \cap N) = 0
    BY FS_EmptySet, CountedAlike
  <2>3. R!Cardinality(B \cup N) <= x
    BY FS_Subset, CountedAlike
  <2>4. b + k - 0 <= x
    BY <2>1, <2>2, <2>3, Zenon
  <2> QED BY <1>2, <2>4
<1> HIDE DEF x, b, k
<1>5. b + (IF h THEN x ELSE k) < 2 * x
  BY <1>2, <1>3, <1>4
<1> QED BY <1>5 DEF x, b, k

-----------------------------------------------------------------------------
(* The invariant. *)

TurnOpen(r) == assigning[r].step = "commit"

\* A row that is seen is of a lead there is, one that is not of a lead about to be committed.
RowsPlaced ==
  \A i \in DOMAIN rows :
    IF rows[i].visible THEN rows[i].lead \in created
    ELSE \E r \in Writers : TurnOpen(r) /\ assigning[r].lead = rows[i].lead

\* Each open transaction creates a lead of its own, with rows as they were picked.
LeadsApart ==
  \A r \in Writers : TurnOpen(r) =>
    /\ assigning[r].lead \in NewLeads \ created
    /\ \A q \in Writers \ {r} : TurnOpen(q) => assigning[q].lead # assigning[r].lead
    /\ \A i \in DOMAIN rows : rows[i].lead = assigning[r].lead =>
         rows[i].user \in assigning[r].users /\ rows[i].auto = assigning[r].auto

\* What a request has read so far.
CallPlaced(c) ==
  /\ c.step \in {"config", "rule", "users"} => ~c.auto
  /\ c.step = "assign" => c.lead \in NewLeads
  /\ c.step \in {"save", "remove"} => c.rule \in Rules /\ rule[c.rule] # None
  /\ c.step = "save" => c.status \in R!Statuses

CallsPlaced == \A r \in Writers : CallPlaced(assigning[r])

\* The requests that are about to commit a row stamped before the latest of u.
Ahead(u) ==
  {r \in Writers : TurnOpen(r) /\ \E i \in DOMAIN rows, j \in R!Places(u) :
                                    rows[i].lead = assigning[r].lead /\ i < j}

\* The requests that have picked v, or will pick without regard to u.
Picked(v) == {r \in Writers : /\ assigning[r].step \in {"insert", "commit"}
                              /\ assigning[r].auto /\ v \in assigning[r].users}
Unaware(u) == {r \in Writers : /\ assigning[r].step \in {"rule", "users"}
                               /\ assigning[r].needsLogin /\ u \notin loggedIn}
Owed(u, v) == (Picked(v) \ Ahead(u)) \cup Unaware(u)

TurnsLeft(u, v) == IF R!Goes(v, u) THEN R!Cardinality(Writers) ELSE R!Cardinality(Owed(u, v))

Turns ==
  \A u, v \in R!Users :
    /\ Ahead(u) # Writers
    /\ passed[u][u] = 0
    /\ u \notin R!Candidates(config.requireLogin) => passed[u][v] = 0
    /\ u # v => passed[u][v] + R!Cardinality(Ahead(u)) + TurnsLeft(u, v)
                  < 2 * R!Cardinality(Writers)

TurnIInv == R!TypeOK /\ RowsPlaced /\ LeadsApart /\ CallsPlaced /\ Turns

-----------------------------------------------------------------------------

\* What a step leaves of the turns of u and v: u gets no row, v at most one in turn.
LEMMA TurnsStep ==
  ASSUME R!Sizes, R!TypeOK, Turns, NEW u \in R!Users, NEW v \in R!Users, u # v, NEW n \in {0, 1},
         passed'[u][v] = passed[u][v] + n, (Ahead(u))' \subseteq Ahead(u),
         (R!Goes(v, u))' => R!Goes(v, u),
         ~R!Goes(v, u) => (Owed(u, v))' \subseteq Owed(u, v),
         n = 1 => \E r \in Writers : /\ r \notin (Ahead(u))' /\ r \notin (Owed(u, v))'
                                     /\ r \in Ahead(u) \/ (r \in Owed(u, v) /\ ~(R!Goes(v, u))')
  PROVE  passed'[u][v] + R!Cardinality((Ahead(u))') + (TurnsLeft(u, v))'
           < 2 * R!Cardinality(Writers)
<1> DEFINE A == Ahead(u)
           B == (Ahead(u))'
           O == Owed(u, v)
           N == (Owed(u, v))'
           g == R!Goes(v, u)
           h == (R!Goes(v, u))'
<1>1. A \in SUBSET Writers /\ B \in SUBSET Writers /\ O \in SUBSET Writers /\ N \in SUBSET Writers
  BY DEF Ahead, Owed, Picked, Unaware
<1>2. g \in BOOLEAN /\ h \in BOOLEAN
  BY DEF R!Goes, R!Before
<1>3. passed[u][v] \in Nat
  BY DEF R!TypeOK
<1>4. passed[u][v] + R!Cardinality(A) + (IF g THEN R!Cardinality(Writers) ELSE R!Cardinality(O))
        < 2 * R!Cardinality(Writers)
  BY DEF Turns, TurnsLeft
<1>5. (TurnsLeft(u, v))' = IF h THEN R!Cardinality(Writers) ELSE R!Cardinality(N)
  BY DEF TurnsLeft
<1>6. IsFiniteSet(Writers)
  BY WritersCounted
<1> DEFINE p == passed[u][v]
<1>7. /\ B \subseteq A /\ (h => g) /\ (~g /\ ~h => N \subseteq O)
      /\ n = 1 => \E r \in Writers : r \notin B /\ r \notin N /\ (r \in A \/ (r \in O /\ ~h))
  OBVIOUS
<1> HIDE DEF A, B, O, N, g, h, p
<1>8. p + n + R!Cardinality(B) + (IF h THEN R!Cardinality(Writers) ELSE R!Cardinality(N))
        < 2 * R!Cardinality(Writers)
  <2> DEFINE x == R!Cardinality(Writers)
             a == R!Cardinality(A)
             o == R!Cardinality(O)
             b == R!Cardinality(B)
             k == R!Cardinality(N)
  <2>1. IsFiniteSet(A) /\ IsFiniteSet(O) /\ IsFiniteSet(B) /\ IsFiniteSet(N)
    BY <1>1, <1>6, FS_Subset, CountedAlike
  <2>2. x \in Nat /\ a \in Nat /\ o \in Nat /\ b \in Nat /\ k \in Nat
    BY <1>6, <2>1, FS_CardinalityType, CountedAlike
  <2>3. b <= a /\ k <= x
    BY <1>1, <1>6, <1>7, <2>1, FS_Subset, CountedAlike
  <2>4. ~g /\ ~h => k <= o
    BY <1>7, <2>1, FS_Subset, CountedAlike
  <2>5. \A S, T : IsFiniteSet(T) /\ S \subseteq T =>
          \A r \in T : r \notin S => R!Cardinality(S) < R!Cardinality(T)
    <3> SUFFICES ASSUME NEW S, NEW T, IsFiniteSet(T), S \subseteq T, NEW r \in T, r \notin S
                 PROVE  R!Cardinality(S) < R!Cardinality(T)
      OBVIOUS
    <3>1. IsFiniteSet(S) /\ R!Cardinality(S) <= R!Cardinality(T)
          /\ R!Cardinality(S) # R!Cardinality(T)
      BY FS_Subset, CountedAlike
    <3> QED BY <3>1, FS_CardinalityType, CountedAlike
  <2>6. p + a + (IF g THEN x ELSE o) < 2 * x /\ p \in Nat
    BY <1>3, <1>4 DEF p
  <2>7. CASE n = 0
    <3> HIDE DEF x, a, o, b, k
    <3>1. p + n + b + (IF h THEN x ELSE k) < 2 * x
      BY <1>2, <1>7, <2>2, <2>3, <2>4, <2>6, <2>7
    <3> QED BY <3>1 DEF x, b, k
  <2>8. CASE n = 1
    <3>1. PICK r \in Writers : r \notin B /\ r \notin N /\ (r \in A \/ (r \in O /\ ~h))
      BY <1>7, <2>8
    <3>2. k < x
      BY <1>1, <1>6, <2>5, <3>1
    <3>3. r \in A => b < a
      BY <1>7, <2>1, <2>5, <3>1
    <3>4. r \in O /\ ~g /\ ~h => k < o
      BY <1>7, <2>1, <2>5, <3>1
    <3> HIDE DEF x, a, o, b, k
    <3>5. p + n + b + (IF h THEN x ELSE k) < 2 * x
      BY <1>2, <1>7, <2>2, <2>3, <2>4, <2>6, <2>8, <3>1, <3>2, <3>3, <3>4
    <3> QED BY <3>5 DEF x, b, k
  <2> QED BY <2>7, <2>8
<1> QED BY <1>5, <1>8 DEF B, p

LEMMA TurnsAnew ==
  ASSUME R!Sizes, NEW u \in R!Users, NEW v \in R!Users,
         passed'[u][v] = 0, (Ahead(u))' # Writers
  PROVE  passed'[u][v] + R!Cardinality((Ahead(u))') + (TurnsLeft(u, v))'
           < 2 * R!Cardinality(Writers)
<1> DEFINE B == (Ahead(u))'
           N == (Owed(u, v))'
           h == (R!Goes(v, u))'
<1>1. B \in SUBSET Writers /\ N \in SUBSET Writers /\ B \cap N = {} /\ B # Writers
  BY DEF Ahead, Owed, Picked, Unaware, TurnOpen
<1>2. h \in BOOLEAN
  BY DEF R!Goes, R!Before
<1>3. IsFiniteSet(Writers)
  BY WritersCounted
<1>4. (TurnsLeft(u, v))' = IF h THEN R!Cardinality(Writers) ELSE R!Cardinality(N)
  BY DEF TurnsLeft
<1> HIDE DEF B, N, h
<1>5. R!Cardinality(B) + (IF h THEN R!Cardinality(Writers) ELSE R!Cardinality(N))
        < 2 * R!Cardinality(Writers)
  BY <1>1, <1>2, <1>3, CountsAnew
<1>6. IsFiniteSet(B) /\ IsFiniteSet(N)
  BY <1>1, <1>3, FS_Subset, CountedAlike
<1>7. R!Cardinality(B) \in Nat /\ R!Cardinality(N) \in Nat /\ R!Cardinality(Writers) \in Nat
  BY <1>3, <1>6, FS_CardinalityType, CountedAlike
<1>8. passed'[u][v] + R!Cardinality(B) + (IF h THEN R!Cardinality(Writers) ELSE R!Cardinality(N))
        < 2 * R!Cardinality(Writers)
  BY <1>5, <1>7
<1> QED BY <1>4, <1>8 DEF B

-----------------------------------------------------------------------------

\* What a step takes back, may not give to u, or gives to u.
Got == (R!Seen(rows))' \ R!Seen(rows)
Turned(v) == {x \in Got : x.user = v /\ x.auto}
Anew(u) == \/ R!Seen(rows) \ (R!Seen(rows))' # {}
           \/ u \notin (R!Candidates(config.requireLogin))'
           \/ \E x \in Got : x.user = u

LEMMA PassedNext ==
  ASSUME R!CountTurns
  PROVE  /\ \A u, v \in R!Users : passed'[u][v] = IF Anew(u) THEN 0
                                                ELSE passed[u][v] + R!Cardinality(Turned(v))
         /\ passed' = [u \in R!Users |-> [v \in R!Users |-> passed'[u][v]]]
<1>1. passed' = [u \in R!Users |-> [v \in R!Users |->
                   IF Anew(u) THEN 0 ELSE passed[u][v] + R!Cardinality(Turned(v))]]
  BY DEF R!CountTurns, Anew, Turned, Got
<1> HIDE DEF Anew, Turned
<1> QED BY <1>1

LEMMA TurnsHold ==
  ASSUME R!Sizes, R!TypeOK, Turns, R!CountTurns,
         \A u \in R!Users : (Ahead(u))' # Writers,
         \A u \in R!Users : ~Anew(u) => (Ahead(u))' \subseteq Ahead(u),
         \A u, v \in R!Users : ~Anew(u) /\ u # v =>
           /\ (R!Goes(v, u))' => R!Goes(v, u)
           /\ ~R!Goes(v, u) => (Owed(u, v))' \subseteq Owed(u, v)
           /\ Turned(v) = {} \/
                /\ R!Cardinality(Turned(v)) = 1
                /\ \E r \in Writers : /\ r \notin (Ahead(u))' /\ r \notin (Owed(u, v))'
                                      /\ r \in Ahead(u) \/ (r \in Owed(u, v) /\ ~(R!Goes(v, u))')
  PROVE  Turns' /\ passed' \in [R!Users -> [R!Users -> Nat]]
<1>1. \A u, v \in R!Users : passed[u][v] \in Nat
  BY DEF R!TypeOK
<1>2. \A u \in R!Users : ~Anew(u) => Turned(u) = {}
  BY DEF Anew, Turned
<1>3. R!Cardinality({}) = 0
  BY FS_EmptySet, CountedAlike
<1>4. \A u \in R!Users : passed[u][u] = 0
  BY DEF Turns
<1>5. ASSUME NEW u \in R!Users, NEW v \in R!Users
      PROVE  /\ passed'[u][v] \in Nat
             /\ passed'[u][u] = 0
             /\ u \notin (R!Candidates(config.requireLogin))' => passed'[u][v] = 0
             /\ u # v => passed'[u][v] + R!Cardinality((Ahead(u))') + (TurnsLeft(u, v))'
                           < 2 * R!Cardinality(Writers)
  <2>1. CASE Anew(u)
    <3>1. passed'[u][v] = 0 /\ passed'[u][u] = 0
      BY <2>1, PassedNext
    <3>2. passed'[u][v] + R!Cardinality((Ahead(u))') + (TurnsLeft(u, v))'
            < 2 * R!Cardinality(Writers)
      BY <3>1, TurnsAnew
    <3> QED BY <3>1, <3>2
  <2>2. CASE ~Anew(u)
    <3>1. /\ passed'[u][v] = passed[u][v] + R!Cardinality(Turned(v))
          /\ passed'[u][u] = passed[u][u] + R!Cardinality(Turned(u))
      BY <2>2, PassedNext
    <3>2. passed'[u][u] = 0
      <4>1. R!Cardinality(Turned(u)) = 0
        BY <1>2, <1>3, <2>2, Zenon
      <4> QED BY <1>4, <3>1, <4>1
    <3>3. u \in (R!Candidates(config.requireLogin))'
      BY <2>2 DEF Anew
    <3>4. CASE u = v
      BY <3>2, <3>3, <3>4
    <3>5. CASE u # v
      <4>1. PICK n \in {0, 1} :
              /\ R!Cardinality(Turned(v)) = n
              /\ n = 1 => \E r \in Writers :
                            /\ r \notin (Ahead(u))' /\ r \notin (Owed(u, v))'
                            /\ r \in Ahead(u) \/ (r \in Owed(u, v) /\ ~(R!Goes(v, u))')
        <5>1. CASE Turned(v) = {}
          <6>1. R!Cardinality(Turned(v)) = 0
            BY <1>3, <5>1, Zenon
          <6> QED BY <6>1
        <5>2. CASE Turned(v) # {}
          BY <2>2, <3>5, <5>2
        <5> QED BY <5>1, <5>2
      <4>2. /\ (Ahead(u))' \subseteq Ahead(u) /\ ((R!Goes(v, u))' => R!Goes(v, u))
            /\ ~R!Goes(v, u) => (Owed(u, v))' \subseteq Owed(u, v)
        BY <2>2, <3>5
      <4>3. passed'[u][v] = passed[u][v] + n
        BY <3>1, <4>1
      <4>4. passed'[u][v] + R!Cardinality((Ahead(u))') + (TurnsLeft(u, v))'
              < 2 * R!Cardinality(Writers)
        BY <3>5, <4>1, <4>2, <4>3, TurnsStep
      <4> QED BY <1>1, <3>2, <3>3, <4>3, <4>4
    <3> QED BY <3>4, <3>5
  <2> QED BY <2>1, <2>2
<1>6. passed' \in [R!Users -> [R!Users -> Nat]]
  BY <1>5, PassedNext
<1>7. Turns'
  <2>1. Turns' = \A u, v \in R!Users :
                   /\ (Ahead(u))' # Writers
                   /\ passed'[u][u] = 0
                   /\ u \notin (R!Candidates(config.requireLogin))' => passed'[u][v] = 0
                   /\ u # v => passed'[u][v] + R!Cardinality((Ahead(u))') + (TurnsLeft(u, v))'
                                 < 2 * R!Cardinality(Writers)
    BY DEF Turns
  <2> QED BY <1>5, <2>1
<1> QED BY <1>6, <1>7

\* A step that leaves the rows alone and no pick is late for.
LEMMA QuietTurns ==
  ASSUME R!Sizes, R!TypeOK, Turns, R!CountTurns, rows' = rows,
         \A r \in Writers : assigning'[r] # assigning[r] => ~TurnOpen(r) /\ ~(TurnOpen(r))',
         \A r \in Writers, u, v \in R!Users :
           u \in (R!Candidates(config.requireLogin))' /\ r \in (Picked(v))' /\ u # v =>
             r \in Picked(v) \/ R!Goes(v, u) \/ r \in Unaware(u),
         \A r \in Writers, u \in R!Users :
           u \in (R!Candidates(config.requireLogin))' /\ r \in (Unaware(u))' => r \in Unaware(u)
  PROVE  Turns' /\ passed' \in [R!Users -> [R!Users -> Nat]]
<1>1. Got = {} /\ \A v : Turned(v) = {}
  BY DEF Got, Turned, R!Seen
<1>2. \A u : (R!Places(u))' = R!Places(u)
  BY DEF R!Places
<1>3. \A u, v : (R!Goes(v, u))' = R!Goes(v, u)
  BY <1>2 DEF R!Goes, R!Before
<1>4. \A u \in R!Users : (Ahead(u))' = Ahead(u)
  BY <1>2 DEF Ahead, TurnOpen
<1>5. \A u \in R!Users : ~Anew(u) => u \in (R!Candidates(config.requireLogin))'
  BY DEF Anew
<1>6. ASSUME NEW u \in R!Users, NEW v \in R!Users, u \in (R!Candidates(config.requireLogin))',
             u # v,
             ~R!Goes(v, u), NEW r \in (Owed(u, v))'
      PROVE  r \in Owed(u, v)
  <2>1. r \in Writers
    BY DEF Owed, Picked, Unaware
  <2>2. CASE r \in (Unaware(u))'
    BY <1>6, <2>1, <2>2 DEF Owed
  <2>3. CASE r \in (Picked(v))' /\ r \notin (Ahead(u))'
    <3>1. r \notin Ahead(u)
      BY <1>4, <2>3
    <3> QED BY <1>6, <2>1, <2>3, <3>1 DEF Owed
  <2> QED BY <2>2, <2>3 DEF Owed
<1>7. \A u \in R!Users : (Ahead(u))' # Writers
  BY <1>4 DEF Turns
<1> QED BY <1>1, <1>3, <1>4, <1>5, <1>6, <1>7, TurnsHold

\* The rows at D stand as they stood at their places f; what is added comes after them.
Stay(K, f) ==
  /\ K \subseteq DOMAIN rows'
  /\ \A n \in K : f[n] \in DOMAIN rows /\ rows'[n] = rows[f[n]]
  /\ \A m, n \in K : m < n <=> f[m] < f[n]
  /\ \A m \in K, n \in DOMAIN rows' \ K : m < n

\* The row at i is one of them.
Stands(i, K, f) == \E n \in K : f[n] = i

LEMMA RowsCounted ==
  ASSUME NEW T, rows \in Seq(T)
  PROVE  DOMAIN rows \subseteq Nat
<1>1. Len(rows) \in Nat /\ DOMAIN rows = 1..Len(rows)
  OBVIOUS
<1> QED BY <1>1

LEMMA StayedOrder ==
  ASSUME NEW S, NEW T, rows \in Seq(S), rows' \in Seq(T), NEW K, NEW f, Stay(K, f), NEW u,
         \A n \in DOMAIN rows' \ K : ~(rows'[n].visible /\ rows'[n].user = u)
  PROVE  /\ \A r \in Writers :
              assigning'[r] = assigning[r] /\ r \in (Ahead(u))' => r \in Ahead(u)
         /\ \A r \in Writers :
              /\ assigning'[r] = assigning[r] /\ r \in Ahead(u)
              /\ \A i \in DOMAIN rows :
                   \/ rows[i].visible /\ rows[i].user = u
                   \/ rows[i].lead = assigning[r].lead
                   => Stands(i, K, f)
              => r \in (Ahead(u))'
         /\ \A v : (\A i \in DOMAIN rows :
                      rows[i].visible /\ rows[i].user \in {u, v} => Stands(i, K, f))
                   => ((R!Goes(v, u))' => R!Goes(v, u))
<1>1. \A j \in (R!Places(u))' : j \in K /\ f[j] \in R!Places(u)
  BY DEF Stay, R!Places
<1>2. \A m, n \in DOMAIN rows' : m \in Nat /\ n \in Nat
  <2>1. DOMAIN rows' = 1..Len(rows') /\ Len(rows') \in Nat
    OBVIOUS
  <2> QED BY <2>1
<1>3. ASSUME NEW r \in Writers, assigning'[r] = assigning[r], r \in (Ahead(u))'
      PROVE  r \in Ahead(u)
  <2>1. TurnOpen(r)
    BY <1>3 DEF Ahead, TurnOpen
  <2>2. PICK i \in DOMAIN rows', j \in (R!Places(u))' : rows'[i].lead = assigning'[r].lead
                                                          /\ i < j
    BY <1>3 DEF Ahead
  <2>3. j \in K /\ f[j] \in R!Places(u)
    BY <1>1, <2>2
  <2>4. j \in DOMAIN rows'
    BY <2>3 DEF Stay
  <2>5. i \in K
    <3>1. ~(j < i)
      BY <1>2, <2>2, <2>4
    <3> QED BY <2>2, <2>3, <3>1 DEF Stay
  <2>6. f[i] \in DOMAIN rows /\ rows[f[i]].lead = assigning[r].lead /\ f[i] < f[j]
    BY <1>3, <2>2, <2>3, <2>5 DEF Stay
  <2> QED BY <2>1, <2>3, <2>6 DEF Ahead
<1>4. ASSUME NEW r \in Writers, assigning'[r] = assigning[r], r \in Ahead(u),
             \A i \in DOMAIN rows :
               \/ rows[i].visible /\ rows[i].user = u
               \/ rows[i].lead = assigning[r].lead
               => Stands(i, K, f)
      PROVE  r \in (Ahead(u))'
  <2>1. (TurnOpen(r))'
    BY <1>4 DEF Ahead, TurnOpen
  <2>2. PICK i \in DOMAIN rows, j \in R!Places(u) : rows[i].lead = assigning[r].lead /\ i < j
    BY <1>4 DEF Ahead
  <2>3. PICK m \in K : f[m] = i
    BY <1>4, <2>2 DEF Stands
  <2>4. PICK n \in K : f[n] = j
    BY <1>4, <2>2 DEF Stands, R!Places
  <2>5. m < n /\ rows'[m] = rows[i] /\ rows'[n] = rows[j]
        /\ m \in DOMAIN rows' /\ n \in DOMAIN rows'
    BY <2>2, <2>3, <2>4 DEF Stay
  <2>6. n \in (R!Places(u))'
    BY <2>2, <2>5 DEF R!Places
  <2> QED BY <1>4, <2>1, <2>2, <2>5, <2>6 DEF Ahead
<1>5. ASSUME NEW v, \A i \in DOMAIN rows :
                      rows[i].visible /\ rows[i].user \in {u, v} => Stands(i, K, f),
             (R!Goes(v, u))'
      PROVE  R!Goes(v, u)
  <2>1. \A w \in {u, v} : \A i \in R!Places(w) :
          \E n \in K : f[n] = i /\ n \in (R!Places(w))'
    BY <1>5 DEF R!Places, Stands, Stay
  <2>2. CASE (R!Before(v, u))'
    <3>1. PICK j \in (R!Places(u))' : \A i \in (R!Places(v))' : i < j
      BY <2>2 DEF R!Before
    <3>2. j \in K /\ f[j] \in R!Places(u)
      BY <1>1
    <3>3. ASSUME NEW i \in R!Places(v) PROVE i < f[j]
      <4>1. PICK n \in K : f[n] = i /\ n \in (R!Places(v))'
        BY <2>1
      <4>2. n < j
        BY <3>1, <4>1
      <4> QED BY <3>2, <4>1, <4>2 DEF Stay
    <3> QED BY <3>2, <3>3 DEF R!Goes, R!Before
  <2>3. CASE (R!Places(v))' = {} /\ (R!Places(u))' = {} /\ R!Earlier(v, u)
    <3>1. R!Places(v) = {} /\ R!Places(u) = {}
      BY <2>1, <2>3
    <3> QED BY <2>3, <3>1 DEF R!Goes
  <2>4. (R!Goes(v, u))' = ((R!Before(v, u))' \/ ((R!Places(v))' = {} /\ (R!Places(u))' = {}
                                               /\ R!Earlier(v, u)))
    BY DEF R!Goes, R!Earlier
  <2> QED BY <1>5, <2>2, <2>3, <2>4
<1> QED BY <1>3, <1>4, <1>5

\* A step that keeps every row that is seen and adds none in turn.
LEMMA StayedTurns ==
  ASSUME R!Sizes, R!TypeOK, Turns, R!CountTurns, NEW T, rows' \in Seq(T), NEW K, NEW f, Stay(K,
         f),
         UNCHANGED <<R!people, config>>,
         \A i \in DOMAIN rows : rows[i].visible => Stands(i, K, f),
         \A n \in DOMAIN rows' \ K : rows'[n].visible
                                       => ~rows'[n].auto /\ rows'[n] \notin R!Seen(rows),
         \A u \in R!Users : (Ahead(u))' # Writers,
         \A r \in Writers :
           \/ /\ assigning'[r] = assigning[r]
              /\ TurnOpen(r) => \A i \in DOMAIN rows :
                              rows[i].lead = assigning[r].lead => Stands(i, K, f)
           \/ \A u, v \in R!Users : /\ r \notin (Ahead(u))'
                                    /\ r \in (Owed(u, v))' => r \in Owed(u, v)
  PROVE  Turns' /\ passed' \in [R!Users -> [R!Users -> Nat]]
<1>1. rows \in Seq(RowSet)
  BY DEF R!TypeOK, RowSet
<1>2. ASSUME NEW x \in Got PROVE ~x.auto /\ \E n \in DOMAIN rows' \ K : rows'[n] = x
  <2>1. PICK n \in DOMAIN rows' : rows'[n].visible /\ rows'[n] = x
    BY <1>2 DEF Got, R!Seen
  <2>2. n \notin K
    BY <1>2, <2>1 DEF Stay, Got, R!Seen
  <2> QED BY <2>1, <2>2
<1>3. \A v : Turned(v) = {}
  BY <1>2 DEF Turned
<1>4. ASSUME NEW u \in R!Users, ~Anew(u)
      PROVE  \A n \in DOMAIN rows' \ K : ~(rows'[n].visible /\ rows'[n].user = u)
  <2> SUFFICES ASSUME NEW n \in DOMAIN rows' \ K, rows'[n].visible, rows'[n].user = u PROVE FALSE
    OBVIOUS
  <2>1. rows'[n] \in Got
    BY DEF Got, R!Seen
  <2> QED BY <1>4, <2>1 DEF Anew
<1>5. ASSUME NEW u \in R!Users, ~Anew(u) PROVE (Ahead(u))' \subseteq Ahead(u)
  <2> SUFFICES ASSUME NEW r \in (Ahead(u))' PROVE r \in Ahead(u)
    OBVIOUS
  <2>1. r \in Writers
    BY DEF Ahead
  <2>2. assigning'[r] = assigning[r]
    BY <2>1
  <2> QED BY <1>1, <1>4, <1>5, <2>1, <2>2, StayedOrder
<1>6. ASSUME NEW u \in R!Users, NEW v \in R!Users, ~Anew(u)
      PROVE  (R!Goes(v, u))' => R!Goes(v, u)
  <2>1. \A i \in DOMAIN rows : rows[i].visible /\ rows[i].user \in {u, v} => Stands(i, K, f)
    OBVIOUS
  <2> QED BY <1>1, <1>4, <1>6, <2>1, StayedOrder
<1>7. ASSUME NEW u \in R!Users, NEW v \in R!Users, ~Anew(u)
      PROVE  (Owed(u, v))' \subseteq Owed(u, v)
  <2> SUFFICES ASSUME NEW r \in (Owed(u, v))' PROVE r \in Owed(u, v)
    OBVIOUS
  <2>1. r \in Writers
    BY DEF Owed, Picked, Unaware
  <2>2. CASE /\ assigning'[r] = assigning[r]
             /\ TurnOpen(r) => \A i \in DOMAIN rows : rows[i].lead = assigning[r].lead
                  => Stands(i, K, f)
    <3>1. CASE r \in (Unaware(u))'
      BY <2>1, <2>2, <3>1 DEF Owed, Unaware, R!people
    <3>2. CASE r \in (Picked(v))' /\ r \notin (Ahead(u))'
      <4>1. r \in Picked(v)
        BY <2>1, <2>2, <3>2 DEF Picked
      <4>2. r \notin Ahead(u)
        <5> SUFFICES ASSUME r \in Ahead(u) PROVE FALSE
          OBVIOUS
        <5>1. TurnOpen(r)
          BY DEF Ahead
        <5>2. \A i \in DOMAIN rows : \/ rows[i].visible /\ rows[i].user = u
                                     \/ rows[i].lead = assigning[r].lead
                                     => Stands(i, K, f)
          BY <2>2, <5>1
        <5> QED BY <1>1, <1>4, <1>7, <2>1, <2>2, <3>2, <5>2, StayedOrder
      <4> QED BY <4>1, <4>2 DEF Owed
    <3> QED BY <3>1, <3>2 DEF Owed
  <2>3. CASE r \in (Owed(u, v))' => r \in Owed(u, v)
    BY <2>3
  <2> QED BY <2>1, <2>2, <2>3
<1> QED BY <1>3, <1>5, <1>6, <1>7, TurnsHold

-----------------------------------------------------------------------------

\* A request goes on without a row of its own.
LEMMA CallKeeps ==
  ASSUME R!Sizes, TurnIInv, R!CountTurns, UNCHANGED <<R!people, config, R!leadRows>>,
         NEW r \in Writers, NEW c \in CallSet, assigning' = [assigning EXCEPT ![r] = c],
         ~TurnOpen(r), c.step # "commit", (CallPlaced(c))',
         rule' \in [Rules -> {None} \cup [status : R!Statuses, removed : BOOLEAN]],
         \A x \in Rules : rule[x] # None => rule'[x] # None,
         \A u, v \in R!Users :
           /\ c.step = "insert" /\ c.auto /\ v \in c.users
           /\ u \in R!Candidates(config.requireLogin) /\ u # v
           => R!Goes(v, u) \/ r \in Unaware(u),
         c.step \in {"rule", "users"} /\ c.needsLogin =>
           \/ assigning[r].step \in {"rule", "users"} /\ assigning[r].needsLogin
           \/ config.requireLogin
  PROVE  TurnIInv'
<1>1. assigning \in [Writers -> CallSet]
  BY DEF TurnIInv, R!TypeOK, CallSet
<1>2. assigning' \in [Writers -> CallSet]
  BY <1>1
<1>3. /\ assigning'[r] = c
      /\ \A q \in Writers \ {r} : assigning'[q] = assigning[q]
  BY <1>1
<1>4. \A q \in Writers : (TurnOpen(q))' <=> TurnOpen(q)
  BY <1>3 DEF TurnOpen
<1>5. rows' = rows /\ created' = created /\ config' = config /\ loggedIn' = loggedIn
        /\ active' = active
  BY DEF R!people, R!leadRows
<1>6. RowsPlaced'
  BY <1>3, <1>4, <1>5 DEF TurnIInv, RowsPlaced, TurnOpen
<1>7. LeadsApart'
  <2> SUFFICES ASSUME NEW q \in Writers, TurnOpen(q)
               PROVE  /\ assigning'[q].lead \in NewLeads \ created'
                      /\ \A k \in Writers \ {q} : (TurnOpen(k))'
                                                    => assigning'[k].lead # assigning'[q].lead
                      /\ \A i \in DOMAIN rows' : rows'[i].lead = assigning'[q].lead =>
                           rows'[i].user \in assigning'[q].users
                             /\ rows'[i].auto = assigning'[q].auto
    BY <1>4 DEF LeadsApart
  <2>1. assigning'[q] = assigning[q]
    BY <1>3
  <2>2. \A k \in Writers : TurnOpen(k) => assigning'[k] = assigning[k]
    BY <1>3
  <2> QED BY <1>4, <1>5, <2>1, <2>2 DEF TurnIInv, LeadsApart
<1>8. CallsPlaced'
  <2> SUFFICES ASSUME NEW q \in Writers PROVE (CallPlaced(assigning[q]))'
    BY DEF CallsPlaced
  <2>1. CASE q = r
    BY <1>3, <2>1
  <2>2. CASE q # r
    BY <1>3, <2>2 DEF TurnIInv, CallsPlaced, CallPlaced
  <2> QED BY <2>1, <2>2
<1>9. Turns' /\ passed' \in [R!Users -> [R!Users -> Nat]]
  <2>1. \A q \in Writers : assigning'[q] # assigning[q] => ~TurnOpen(q) /\ ~(TurnOpen(q))'
    BY <1>3, <1>4
  <2>2. \A q \in Writers, u, v \in R!Users :
          u \in (R!Candidates(config.requireLogin))' /\ q \in (Picked(v))' /\ u # v =>
            q \in Picked(v) \/ R!Goes(v, u) \/ q \in Unaware(u)
    <3> SUFFICES ASSUME NEW q \in Writers, NEW u \in R!Users, NEW v \in R!Users,
                        u \in (R!Candidates(config.requireLogin))', q \in (Picked(v))', u # v
                 PROVE  q \in Picked(v) \/ R!Goes(v, u) \/ q \in Unaware(u)
      OBVIOUS
    <3>1. u \in R!Candidates(config.requireLogin)
      BY <1>5 DEF R!Candidates
    <3>2. CASE q = r
      BY <1>3, <3>1, <3>2 DEF Picked
    <3>3. CASE q # r
      BY <1>3, <3>3 DEF Picked
    <3> QED BY <3>2, <3>3
  <2>3. \A q \in Writers, u \in R!Users :
          u \in (R!Candidates(config.requireLogin))' /\ q \in (Unaware(u))' => q \in Unaware(u)
    <3> SUFFICES ASSUME NEW q \in Writers, NEW u \in R!Users,
                        u \in (R!Candidates(config.requireLogin))', q \in (Unaware(u))'
                 PROVE  q \in Unaware(u)
      OBVIOUS
    <3>1. config.requireLogin => u \in loggedIn
      BY <1>5 DEF R!Candidates
    <3>2. CASE q = r
      BY <1>3, <1>5, <3>1, <3>2 DEF Unaware
    <3>3. CASE q # r
      BY <1>3, <1>5, <3>3 DEF Unaware
    <3> QED BY <3>2, <3>3
  <2> QED BY <1>5, <2>1, <2>2, <2>3, QuietTurns DEF TurnIInv
<1>10. R!TypeOK'
  BY <1>2, <1>5, <1>9 DEF TurnIInv, R!TypeOK, CallSet
<1> QED BY <1>6, <1>7, <1>8, <1>9, <1>10 DEF TurnIInv

LEMMA CallTyped ==
  ASSUME R!TypeOK, NEW r \in Writers
  PROVE  assigning[r] \in CallSet /\ assigning \in [Writers -> CallSet]
BY DEF R!TypeOK, CallSet

LEMMA CreateKeeps ==
  ASSUME R!Sizes, TurnIInv, R!CountTurns, NEW r \in Writers,
         R!CreateUnassigned(r) \/ R!CreateAssigned(r)
  PROVE  TurnIInv'
<1>1. PICK c \in CallSet : /\ assigning[r].step = "idle"
                                /\ assigning' = [assigning EXCEPT ![r] = c]
                           /\ c.step \in {"config", "insert"} /\ ~c.auto
  <2>1. CASE R!CreateUnassigned(r)
    <3>1. [R!Idle EXCEPT !.step = "config"] \in CallSet
      BY DEF R!Idle, CallSet, R!Steps
    <3> QED BY <2>1, <3>1 DEF R!CreateUnassigned, R!Begin, R!Idle
  <2>2. CASE R!CreateAssigned(r)
    <3>1. PICK u \in active : R!Begin(r, [R!Idle EXCEPT !.step = "insert", !.users = {u}])
      BY <2>2 DEF R!CreateAssigned
    <3>2. [R!Idle EXCEPT !.step = "insert", !.users = {u}] \in CallSet
      BY DEF R!Idle, CallSet, R!Steps, TurnIInv, R!TypeOK
    <3> QED BY <3>1, <3>2 DEF R!Begin, R!Idle
  <2> QED BY <2>1, <2>2
<1>2. UNCHANGED <<R!people, config, R!leadRows>> /\ rule' = rule
  BY DEF R!CreateUnassigned, R!CreateAssigned, R!setup
<1>3. (CallPlaced(c))' /\ ~TurnOpen(r) /\ c.step # "commit"
  BY <1>1 DEF CallPlaced, TurnOpen
<1>4. rule \in [Rules -> {None} \cup [status : R!Statuses, removed : BOOLEAN]]
  BY DEF TurnIInv, R!TypeOK
<1> QED BY <1>1, <1>2, <1>3, <1>4, CallKeeps

LEMMA ReadKeeps ==
  ASSUME R!Sizes, TurnIInv, R!CountTurns, NEW r \in Writers, R!ReadConfig(r) \/ R!ReadRule(r)
  PROVE  TurnIInv'
<1>1. PICK c \in CallSet :
        /\ assigning' = [assigning EXCEPT ![r] = c]
        /\ assigning[r].step \in {"config", "rule"}
        /\ c.step \in {"rule", "users", "insert"} /\ ~c.auto
        /\ c.needsLogin => config.requireLogin
                           \/ (assigning[r].step = "rule" /\ assigning[r].needsLogin)
  <2>1. ~assigning[r].auto \/ assigning[r].step \notin {"config", "rule"}
    BY DEF TurnIInv, CallsPlaced, CallPlaced
  <2>2. assigning[r] \in CallSet /\ assigning \in [Writers -> CallSet]
    BY CallTyped DEF TurnIInv
  <2>3. CASE R!ReadConfig(r)
    <3> DEFINE c == [assigning[r] EXCEPT !.step = IF config.automatic THEN "rule" ELSE "insert",
                                       !.needsLogin = config.requireLogin]
    <3>1. config.requireLogin \in BOOLEAN
      BY DEF TurnIInv, R!TypeOK
    <3>2. c \in CallSet
      BY <2>2, <3>1 DEF CallSet, R!Steps
    <3>3. assigning' = [assigning EXCEPT ![r] = c]
      BY <2>2, <2>3 DEF R!ReadConfig
    <3>4. /\ c.step \in {"rule", "users", "insert"}
          /\ c.auto = assigning[r].auto /\ c.needsLogin = config.requireLogin
      BY <2>2 DEF CallSet
    <3> QED BY <2>1, <2>3, <3>2, <3>3, <3>4 DEF R!ReadConfig
  <2>4. CASE R!ReadRule(r)
    <3> DEFINE c == [assigning[r] EXCEPT !.step = IF \E x \in Rules : R!Applies(x) THEN "users"
                                                ELSE "insert"]
    <3>1. c \in CallSet
      BY <2>2 DEF CallSet, R!Steps
    <3>2. assigning' = [assigning EXCEPT ![r] = c]
      BY <2>2, <2>4 DEF R!ReadRule, R!Goto
    <3>3. /\ c.step \in {"rule", "users", "insert"}
          /\ c.auto = assigning[r].auto /\ c.needsLogin = assigning[r].needsLogin
      BY <2>2 DEF CallSet
    <3> QED BY <2>1, <2>4, <3>1, <3>2, <3>3 DEF R!ReadRule
  <2> QED BY <2>3, <2>4
<1>2. UNCHANGED <<R!people, config, R!leadRows>> /\ rule' = rule
  BY DEF R!ReadConfig, R!ReadRule, R!setup
<1>3. (CallPlaced(c))' /\ ~TurnOpen(r) /\ c.step # "commit"
  BY <1>1 DEF CallPlaced, TurnOpen
<1>4. rule \in [Rules -> {None} \cup [status : R!Statuses, removed : BOOLEAN]]
  BY DEF TurnIInv, R!TypeOK
<1> QED BY <1>1, <1>2, <1>3, <1>4, CallKeeps

LEMMA ReadUsersKeeps ==
  ASSUME R!Sizes, TurnIInv, R!CountTurns, NEW r \in Writers, R!ReadUsers(r)
  PROVE  TurnIInv'
<1> DEFINE next == R!NextInRotation(R!Candidates(assigning[r].needsLogin))
           c == [assigning[r] EXCEPT !.step = "insert", !.users = next, !.auto = (next # {})]
<1>1. assigning[r] \in CallSet /\ assigning \in [Writers -> CallSet]
        /\ assigning[r].step = "users"
  BY CallTyped DEF TurnIInv, R!ReadUsers
<1>2. next \subseteq R!Users
  BY DEF R!NextInRotation, R!Candidates, TurnIInv, R!TypeOK
<1>3. /\ c \in CallSet /\ c.step = "insert" /\ c.users = next
  BY <1>1, <1>2 DEF CallSet, R!Steps
<1>4. assigning' = [assigning EXCEPT ![r] = c]
  BY <1>1 DEF R!ReadUsers
<1>5. ASSUME NEW u \in R!Users, NEW v \in next, u \in R!Candidates(config.requireLogin), u # v
      PROVE  R!Goes(v, u) \/ r \in Unaware(u)
  <2>1. CASE u \in R!Candidates(assigning[r].needsLogin)
    BY <1>5, <2>1 DEF R!NextInRotation
  <2>2. CASE u \notin R!Candidates(assigning[r].needsLogin)
    BY <1>1, <1>5, <2>2 DEF R!Candidates, Unaware
  <2> QED BY <2>1, <2>2
<1>6. UNCHANGED <<R!people, config, R!leadRows>> /\ rule' = rule
  BY DEF R!ReadUsers, R!setup
<1>7. PICK d \in CallSet : d = c
  BY <1>3
<1>8. /\ assigning' = [assigning EXCEPT ![r] = d] /\ d.step = "insert" /\ d.users = next
  BY <1>3, <1>4, <1>7
<1> HIDE DEF c, next
<1>9. (CallPlaced(d))' /\ ~TurnOpen(r) /\ d.step # "commit"
  BY <1>1, <1>8 DEF CallPlaced, TurnOpen
<1>10. rule \in [Rules -> {None} \cup [status : R!Statuses, removed : BOOLEAN]]
  BY DEF TurnIInv, R!TypeOK
<1>11. \A u, v \in R!Users :
         /\ d.step = "insert" /\ d.auto /\ v \in d.users
         /\ u \in R!Candidates(config.requireLogin) /\ u # v
         => R!Goes(v, u) \/ r \in Unaware(u)
  BY <1>5, <1>8
<1>12. ~(d.step \in {"rule", "users"})
  BY <1>8
<1> QED BY <1>6, <1>8, <1>9, <1>10, <1>11, <1>12, CallKeeps

LEMMA CheckAssignKeeps ==
  ASSUME R!Sizes, TurnIInv, R!CountTurns, NEW r \in Writers, R!CheckAssign(r)
  PROVE  TurnIInv'
<1>1. PICK l \in created, us \in SUBSET R!Users :
        R!Begin(r, [R!Idle EXCEPT !.step = "assign", !.lead = l, !.users = us])
  BY DEF R!CheckAssign
<1> DEFINE c == [R!Idle EXCEPT !.step = "assign", !.lead = l, !.users = us]
<1>2. l \in NewLeads
  BY DEF TurnIInv, R!TypeOK
<1>3. c \in CallSet /\ c.step = "assign" /\ c.lead = l
  BY <1>2 DEF R!Idle, CallSet, R!Steps
<1>4. assigning' = [assigning EXCEPT ![r] = c] /\ assigning[r].step = "idle"
  BY <1>1 DEF R!Begin
<1> HIDE DEF c
<1>5. UNCHANGED <<R!people, config, R!leadRows>> /\ rule' = rule
  BY DEF R!CheckAssign, R!setup
<1>6. PICK d \in CallSet : d = c
  BY <1>3
<1>7. (CallPlaced(d))' /\ ~TurnOpen(r) /\ d.step = "assign"
  BY <1>2, <1>3, <1>4, <1>6 DEF CallPlaced, TurnOpen
<1>8. rule \in [Rules -> {None} \cup [status : R!Statuses, removed : BOOLEAN]]
  BY DEF TurnIInv, R!TypeOK
<1> QED BY <1>4, <1>5, <1>6, <1>7, <1>8, CallKeeps

LEMMA CheckRuleKeeps ==
  ASSUME R!Sizes, R!NoneIsNothing, TurnIInv, R!CountTurns, NEW r \in Writers, R!CheckRule(r)
  PROVE  TurnIInv'
<1>1. PICK x \in Rules : /\ R!Live(x)
                         /\ \/ \E s \in R!Statuses :
                                 R!Begin(r, [R!Idle EXCEPT !.step = "save", !.rule = x,
                                                       !.status = s])
                            \/ R!Begin(r, [R!Idle EXCEPT !.step = "remove", !.rule = x])
  BY DEF R!CheckRule
<1>2. UNCHANGED <<R!people, config, R!leadRows>> /\ rule' = rule
  BY DEF R!CheckRule, R!setup
<1>3. PICK d \in CallSet : /\ assigning' = [assigning EXCEPT ![r] = d]
                                /\ assigning[r].step = "idle"
                           /\ d.step \in {"save", "remove"} /\ d.rule = x
                           /\ d.step = "save" => d.status \in R!Statuses
  <2>1. CASE R!Begin(r, [R!Idle EXCEPT !.step = "remove", !.rule = x])
    <3>1. [R!Idle EXCEPT !.step = "remove", !.rule = x] \in CallSet
      BY DEF R!Idle, CallSet, R!Steps
    <3> QED BY <2>1, <3>1 DEF R!Begin, R!Idle
  <2>2. ASSUME NEW s \in R!Statuses,
               R!Begin(r, [R!Idle EXCEPT !.step = "save", !.rule = x, !.status = s])
        PROVE  \E d \in CallSet : /\ assigning' = [assigning EXCEPT ![r] = d]
                                       /\ assigning[r].step = "idle"
                                  /\ d.step \in {"save", "remove"} /\ d.rule = x
                                  /\ d.step = "save" => d.status \in R!Statuses
    <3>1. [R!Idle EXCEPT !.step = "save", !.rule = x, !.status = s] \in CallSet
      BY DEF R!Idle, CallSet, R!Steps
    <3> QED BY <2>2, <3>1 DEF R!Begin, R!Idle
  <2> QED BY <1>1, <2>1, <2>2
<1>4. (CallPlaced(d))' /\ ~TurnOpen(r) /\ d.step \notin {"commit", "insert", "rule", "users"}
  BY <1>1, <1>2, <1>3 DEF CallPlaced, TurnOpen, R!Live
<1>5. rule \in [Rules -> {None} \cup [status : R!Statuses, removed : BOOLEAN]]
  BY DEF TurnIInv, R!TypeOK
<1> QED BY <1>2, <1>3, <1>4, <1>5, CallKeeps

\* A request that ends without a row.
LEMMA EndKeeps ==
  ASSUME R!Sizes, TurnIInv, R!CountTurns, UNCHANGED <<R!people, config, R!leadRows>>,
         NEW r \in Writers,
         R!End(r), ~TurnOpen(r),
         rule' \in [Rules -> {None} \cup [status : R!Statuses, removed : BOOLEAN]],
         \A x \in Rules : rule[x] # None => rule'[x] # None
  PROVE  TurnIInv'
<1>1. PICK d \in CallSet : d = R!Idle
  BY DEF R!Idle, CallSet, R!Steps
<1>2. (CallPlaced(d))' /\ d.step = "idle"
  BY <1>1 DEF CallPlaced, R!Idle
<1>3. assigning' = [assigning EXCEPT ![r] = d]
  BY <1>1 DEF R!End
<1> QED BY <1>2, <1>3, CallKeeps

LEMMA RuleKeeps ==
  ASSUME R!Sizes, R!NoneIsNothing, TurnIInv, R!CountTurns, NEW r \in Writers,
         R!UpdateRule(r) \/ R!RemoveRule(r)
  PROVE  /\ TurnIInv'
         /\ \A x \in Rules : rule[x] # None /\ rule[x].removed => rule'[x].removed
<1> DEFINE Rows == [status : R!Statuses, removed : BOOLEAN]
           x == assigning[r].rule
<1>1. x \in Rules /\ rule[x] \in Rows /\ rule \in [Rules -> {None} \cup Rows]
      /\ (assigning[r].step = "save" => assigning[r].status \in R!Statuses)
      /\ assigning[r].step \in {"save", "remove"}
  BY DEF TurnIInv, R!TypeOK, CallsPlaced, CallPlaced, R!UpdateRule, R!RemoveRule
<1>2. PICK y \in Rows : rule' = [rule EXCEPT ![x] = y] /\ (rule[x].removed => y.removed)
  <2>1. CASE R!UpdateRule(r)
    <3> DEFINE y == [rule[x] EXCEPT !.status = assigning[r].status]
    <3>1. y \in Rows /\ y.removed = rule[x].removed
      BY <1>1, <2>1 DEF R!UpdateRule
    <3>2. rule' = [rule EXCEPT ![x] = y]
      BY <2>1 DEF R!UpdateRule, R!Updated
    <3> QED BY <3>1, <3>2
  <2>2. CASE R!RemoveRule(r)
    BY <1>1, <2>2 DEF R!RemoveRule
  <2> QED BY <2>1, <2>2
<1>3. y # None
  BY <1>2 DEF R!NoneIsNothing
<1>4. UNCHANGED <<R!people, config, R!leadRows>> /\ R!End(r) /\ ~TurnOpen(r)
  BY <1>1 DEF R!UpdateRule, R!RemoveRule, TurnOpen
<1> HIDE DEF x
<1>5. /\ rule' \in [Rules -> {None} \cup Rows]
      /\ \A z \in Rules : rule[z] # None => rule'[z] # None
      /\ \A z \in Rules : rule[z] # None /\ rule[z].removed => rule'[z].removed
  BY <1>1, <1>2, <1>3
<1> QED BY <1>4, <1>5, EndKeeps

\* What happens outside the requests.
LEMMA WorldKeeps ==
  ASSUME R!Sizes, R!NoneIsNothing, TurnIInv, R!CountTurns,
         \/ \E u \in R!Users : R!SetActive(u) \/ R!Login(u)
         \/ \E c \in [automatic : BOOLEAN, requireLogin : BOOLEAN] : R!SaveConfig(c)
         \/ \E x \in Rules, s \in R!Statuses : R!CreateRule(x, s)
  PROVE  /\ TurnIInv'
         /\ \A x \in Rules : rule[x] # None /\ rule[x].removed => rule'[x].removed
<1>1. rows' = rows /\ created' = created /\ assigning' = assigning /\ loggedIn \subseteq loggedIn'
  BY DEF R!SetActive, R!Login, R!SaveConfig, R!CreateRule, R!leadRows, R!people, R!setup
<1>2. /\ active' \subseteq R!Users /\ loggedIn' \subseteq R!Users
      /\ config' \in [automatic : BOOLEAN, requireLogin : BOOLEAN]
  BY DEF R!SetActive, R!Login, R!SaveConfig, R!CreateRule, R!people, R!setup, TurnIInv, R!TypeOK
<1>3. /\ rule' \in [Rules -> {None} \cup [status : R!Statuses, removed : BOOLEAN]]
      /\ \A x \in Rules : rule[x] # None => rule'[x] # None /\ rule'[x] = rule[x]
  <2>1. CASE rule' = rule
    BY <2>1 DEF TurnIInv, R!TypeOK
  <2>2. ASSUME NEW x \in Rules, NEW s \in R!Statuses, R!CreateRule(x, s)
        PROVE  /\ rule' \in [Rules -> {None} \cup [status : R!Statuses, removed : BOOLEAN]]
               /\ \A z \in Rules : rule[z] # None => rule'[z] # None /\ rule'[z] = rule[z]
    <3>1. R!Rule(s) \in [status : R!Statuses, removed : BOOLEAN]
      BY DEF R!Rule
    <3>2. R!Rule(s) # None
      BY <3>1 DEF R!NoneIsNothing
    <3> QED BY <2>2, <3>1, <3>2 DEF R!CreateRule, TurnIInv, R!TypeOK
  <2> QED BY <2>1, <2>2 DEF R!SetActive, R!Login, R!SaveConfig, R!setup
<1>4. RowsPlaced' /\ LeadsApart'
  BY <1>1 DEF TurnIInv, RowsPlaced, LeadsApart, TurnOpen
<1>5. CallsPlaced'
  BY <1>1, <1>3 DEF TurnIInv, CallsPlaced, CallPlaced
<1>6. Turns' /\ passed' \in [R!Users -> [R!Users -> Nat]]
  <2>1. \A r \in Writers, v \in R!Users : r \in (Picked(v))' <=> r \in Picked(v)
    BY <1>1 DEF Picked
  <2>2. \A r \in Writers, u \in R!Users : r \in (Unaware(u))' => r \in Unaware(u)
    BY <1>1 DEF Unaware
  <2> QED BY <1>1, <2>1, <2>2, QuietTurns DEF TurnIInv
<1> QED BY <1>1, <1>2, <1>3, <1>4, <1>5, <1>6 DEF TurnIInv, R!TypeOK

-----------------------------------------------------------------------------
(* Rows that are added, committed and taken back. *)

LEMMA UsersCounted ==
  ASSUME R!Sizes
  PROVE  IsFiniteSet(R!Users)
<1>1. DOMAIN ByName = 1..Len(ByName) /\ Len(ByName) \in Nat
  BY DEF R!Sizes
<1>2. IsFiniteSet(DOMAIN ByName)
  BY <1>1, FS_Interval, CountedAlike
<1>3. ByName \in Surjection(DOMAIN ByName, R!Users)
  <2>1. ByName \in [DOMAIN ByName -> R!Users]
    BY <1>1 DEF R!Sizes, R!Users
  <2> QED BY <2>1 DEF Surjection, R!Users
<1> QED BY <1>2, <1>3, FS_Surjection, CountedAlike

LEMMA NewRows ==
  ASSUME R!Sizes, NEW X, X \subseteq RowSet, \A x, y \in X : x.user = y.user => x = y,
         NEW s, s = R!SetToSeq(X)
  PROVE  s \in Seq(RowSet) /\ \A n \in DOMAIN s : s[n] \in X
<1>1. IsFiniteSet(X)
  <2> DEFINE f == [x \in X |-> x.user]
  <2>1. f \in Injection(X, R!Users)
    <3>1. f \in [X -> R!Users]
      BY DEF RowSet
    <3> QED BY <3>1 DEF Injection, IsInjective
  <2> QED BY <2>1, UsersCounted, FS_Injection, CountedAlike
<1>2. s \in Seq(X)
  BY <1>1, SetOrdered
<1>3. \A n \in DOMAIN s : s[n] \in X
  BY <1>2
<1> QED BY <1>2, <1>3

LEMMA Joined ==
  ASSUME NEW T, NEW p \in Seq(T), NEW s \in Seq(T), NEW t, t = p \o s
  PROVE  /\ t \in Seq(T) /\ DOMAIN p \subseteq DOMAIN t
         /\ \A n \in DOMAIN p : t[n] = p[n]
         /\ \A n \in DOMAIN t \ DOMAIN p :
              /\ \E k \in DOMAIN s : t[n] = s[k]
              /\ \A m \in DOMAIN p : m < n
<1>1. /\ Len(p) \in Nat /\ Len(s) \in Nat /\ DOMAIN p = 1..Len(p) /\ DOMAIN s = 1..Len(s)
      /\ t \in Seq(T) /\ DOMAIN t = 1..(Len(p) + Len(s))
  OBVIOUS
<1>2. \A n \in DOMAIN p : t[n] = p[n]
  BY <1>1
<1>3. ASSUME NEW n \in DOMAIN t \ DOMAIN p
      PROVE  n - Len(p) \in DOMAIN s /\ t[n] = s[n - Len(p)] /\ \A m \in DOMAIN p : m < n
  BY <1>1, <1>3
<1> QED BY <1>1, <1>2, <1>3

\* Rows that stay, and rows of leads there are.
LEMMA StayedPlaces ==
  ASSUME RowsPlaced, LeadsApart, NEW K, NEW f, Stay(K, f), created' \subseteq created,
         \A r \in Writers : (TurnOpen(r))' => TurnOpen(r) /\ assigning'[r] = assigning[r],
         \A n \in K : IF rows'[n].visible THEN rows'[n].lead \in created'
                      ELSE \E r \in Writers : (TurnOpen(r))'
                        /\ assigning'[r].lead = rows'[n].lead,
         \A n \in DOMAIN rows' \ K : rows'[n].visible /\ rows'[n].lead \in created'
  PROVE  RowsPlaced' /\ LeadsApart'
<1>1. RowsPlaced'
  BY DEF RowsPlaced
<1>2. ASSUME NEW r \in Writers, (TurnOpen(r))'
      PROVE  /\ assigning'[r].lead \in NewLeads \ created'
             /\ \A q \in Writers \ {r} : (TurnOpen(q))' => assigning'[q].lead # assigning'[r].lead
             /\ \A i \in DOMAIN rows' : rows'[i].lead = assigning'[r].lead =>
                  rows'[i].user \in assigning'[r].users /\ rows'[i].auto = assigning'[r].auto
  <2>1. TurnOpen(r) /\ assigning'[r] = assigning[r]
    BY <1>2
  <2>2. assigning[r].lead \in NewLeads \ created
    BY <2>1 DEF LeadsApart
  <2>3. \A q \in Writers \ {r} : (TurnOpen(q))' => assigning'[q].lead # assigning'[r].lead
    BY <2>1 DEF LeadsApart
  <2>4. ASSUME NEW i \in DOMAIN rows', rows'[i].lead = assigning'[r].lead
        PROVE  rows'[i].user \in assigning'[r].users /\ rows'[i].auto = assigning'[r].auto
    <3>1. i \in K
      BY <2>1, <2>2, <2>4
    <3> QED BY <2>1, <2>4, <3>1 DEF Stay, LeadsApart
  <2> QED BY <2>1, <2>2, <2>3, <2>4
<1> QED BY <1>1, <1>2 DEF LeadsApart

LEMMA Ended ==
  ASSUME R!TypeOK, CallsPlaced, NEW r \in Writers, R!End(r), rule' = rule
  PROVE  /\ assigning' \in [Writers -> CallSet] /\ CallsPlaced'
         /\ assigning'[r].step = "idle" /\ \A q \in Writers \ {r} : assigning'[q] = assigning[q]
         /\ \A q \in Writers : (TurnOpen(q))'
                                 => q # r /\ TurnOpen(q) /\ assigning'[q] = assigning[q]
         /\ \A u, v : r \notin (Ahead(u))' /\ r \notin (Owed(u, v))'
<1>1. R!Idle \in CallSet /\ R!Idle.step = "idle"
  BY DEF R!Idle, CallSet, R!Steps
<1>2. assigning' = [assigning EXCEPT ![r] = R!Idle] /\ assigning \in [Writers -> CallSet]
  BY DEF R!End, R!TypeOK, CallSet
<1>3. /\ assigning' \in [Writers -> CallSet] /\ assigning'[r] = R!Idle
      /\ \A q \in Writers \ {r} : assigning'[q] = assigning[q]
  BY <1>1, <1>2
<1>4. CallsPlaced'
  BY <1>1, <1>3 DEF CallsPlaced, CallPlaced
<1>5. \A q \in Writers : (TurnOpen(q))' => q # r /\ TurnOpen(q) /\ assigning'[q] = assigning[q]
  BY <1>1, <1>3 DEF TurnOpen
<1>6. \A u, v : r \notin (Ahead(u))' /\ r \notin (Owed(u, v))'
  BY <1>1, <1>3 DEF Ahead, TurnOpen, Owed, Picked, Unaware
<1> QED BY <1>1, <1>3, <1>4, <1>5, <1>6

\* Something is taken back: everybody starts anew.
LEMMA TakenBack ==
  ASSUME R!Sizes, R!TypeOK, Turns, R!CountTurns, NEW x \in R!Seen(rows), x \notin (R!Seen(rows))',
         \A u \in R!Users : (Ahead(u))' # Writers
  PROVE  Turns' /\ passed' \in [R!Users -> [R!Users -> Nat]]
<1>1. \A u : Anew(u)
  BY DEF Anew
<1> QED BY <1>1, TurnsHold

LEMMA TurnInsertKeeps ==
  ASSUME R!Sizes, R!NoneIsNothing, TurnIInv, R!CountTurns, NEW r \in Writers, R!Insert(r)
  PROVE  TurnIInv' /\ R!Seen(rows) \subseteq (R!Seen(rows))'
<1>1. PICK l \in R!Fresh :
        /\ rows' = rows \o
                     R!SetToSeq({R!Row(l, u, assigning[r].auto, FALSE) : u \in assigning[r].users})
        /\ assigning' = [assigning EXCEPT ![r].step = "commit", ![r].lead = l]
  BY DEF R!Insert
<1>2. assigning[r] \in CallSet /\ assigning \in [Writers -> CallSet]
        /\ assigning[r].step = "insert"
  BY CallTyped DEF TurnIInv, R!Insert
<1>3. UNCHANGED <<R!people, R!setup, created>>
  BY DEF R!Insert
<1> DEFINE X == {R!Row(l, u, assigning[r].auto, FALSE) : u \in assigning[r].users}
<1>4. l \in NewLeads /\ l \notin created /\ \A q \in Writers : assigning[q].lead # l
  BY <1>1 DEF R!Fresh
<1>5. PICK s : s = R!SetToSeq(X)
  OBVIOUS
<1>6. /\ s \in Seq(RowSet)
      /\ \A n \in DOMAIN s :
           \E u \in assigning[r].users : s[n] = R!Row(l, u, assigning[r].auto, FALSE)
  <2>1. assigning[r].auto \in BOOLEAN /\ assigning[r].users \in SUBSET R!Users
    BY <1>2 DEF CallSet
  <2>2. \A u \in assigning[r].users : /\ R!Row(l, u, assigning[r].auto, FALSE) \in RowSet
                                      /\ R!Row(l, u, assigning[r].auto, FALSE).user = u
    BY <1>4, <2>1 DEF R!Row, RowSet
  <2>3. \A x \in X : \E u \in assigning[r].users : x = R!Row(l, u, assigning[r].auto, FALSE)
    OBVIOUS
  <2> HIDE DEF X
  <2>4. X \subseteq RowSet
    BY <2>2, <2>3
  <2>5. \A x, y \in X : x.user = y.user => x = y
    BY <2>2, <2>3
  <2>6. s \in Seq(RowSet) /\ \A n \in DOMAIN s : s[n] \in X
    BY <1>5, <2>4, <2>5, NewRows
  <2> QED BY <2>3, <2>6
<1>7. rows' = rows \o s /\ rows \in Seq(RowSet)
  BY <1>1, <1>5 DEF TurnIInv, R!TypeOK, RowSet
<1> HIDE DEF X
<1> DEFINE K == DOMAIN rows
           f == [n \in K |-> n]
<1>8. /\ rows' \in Seq(RowSet) /\ K \subseteq DOMAIN rows' /\ \A n \in K : rows'[n] = rows[n]
      /\ \A n \in DOMAIN rows' \ K :
           /\ \E u \in assigning[r].users : rows'[n] = R!Row(l, u, assigning[r].auto, FALSE)
           /\ \A m \in K : m < n
  <2>1. /\ rows' \in Seq(RowSet) /\ DOMAIN rows \subseteq DOMAIN rows'
        /\ \A n \in DOMAIN rows : rows'[n] = rows[n]
        /\ \A n \in DOMAIN rows' \ DOMAIN rows :
             /\ \E k \in DOMAIN s : rows'[n] = s[k]
             /\ \A m \in DOMAIN rows : m < n
    <3>1. PICK p, t : p \in Seq(RowSet) /\ p = rows /\ t = rows'
      BY <1>7
    <3>2. t = p \o s
      BY <1>7, <3>1
    <3> QED BY <1>6, <3>1, <3>2, Joined
  <2> QED BY <1>6, <2>1
<1>9. Stay(K, f) /\ \A i \in K : Stands(i, K, f)
  BY <1>8 DEF Stay, Stands
<1>10. /\ assigning' \in [Writers -> CallSet]
       /\ assigning'[r].step = "commit" /\ assigning'[r].lead = l
       /\ assigning'[r].auto = assigning[r].auto /\ assigning'[r].users = assigning[r].users
       /\ \A q \in Writers \ {r} : assigning'[q] = assigning[q]
  <2>1. PICK c : c = [assigning[r] EXCEPT !.step = "commit", !.lead = l]
    OBVIOUS
  <2>2. /\ c \in CallSet /\ c.step = "commit" /\ c.lead = l /\ c.auto = assigning[r].auto
        /\ c.users = assigning[r].users
    BY <1>2, <1>4, <2>1 DEF CallSet, R!Steps
  <2>3. assigning' = [assigning EXCEPT ![r] = c]
    BY <1>1, <1>2, <2>1
  <2> QED BY <1>2, <2>2, <2>3
<1>11. \A n \in DOMAIN rows' \ K : /\ ~rows'[n].visible /\ rows'[n].lead = l
                                   /\ rows'[n].user \in assigning[r].users
                                   /\ rows'[n].auto = assigning[r].auto
  BY <1>8 DEF R!Row
<1>12. \A i \in K : rows[i].lead # l
  <2>1. \A i \in K : rows[i].lead \in created
                       \/ \E q \in Writers : assigning[q].lead = rows[i].lead
    BY DEF TurnIInv, RowsPlaced
  <2> QED BY <1>4, <2>1
<1>13. \A q \in Writers \ {r} : (TurnOpen(q))' <=> TurnOpen(q)
  BY <1>10 DEF TurnOpen
<1>14. (TurnOpen(r))' /\ ~TurnOpen(r)
  BY <1>2, <1>10 DEF TurnOpen
<1>15. RowsPlaced'
  <2> SUFFICES ASSUME NEW i \in DOMAIN rows'
               PROVE  IF rows'[i].visible THEN rows'[i].lead \in created'
                      ELSE \E q \in Writers : (TurnOpen(q))' /\ assigning'[q].lead = rows'[i].lead
    BY DEF RowsPlaced
  <2>1. CASE i \in K
    <3>1. CASE rows[i].visible
      BY <1>3, <1>8, <2>1, <3>1 DEF TurnIInv, RowsPlaced
    <3>2. CASE ~rows[i].visible
      <4>1. PICK q \in Writers : TurnOpen(q) /\ assigning[q].lead = rows[i].lead
        BY <2>1, <3>2 DEF TurnIInv, RowsPlaced
      <4>2. q # r
        BY <1>14, <4>1
      <4> QED BY <1>8, <1>10, <1>13, <2>1, <3>2, <4>1, <4>2
    <3> QED BY <3>1, <3>2
  <2>2. CASE i \notin K
    BY <1>10, <1>11, <1>14, <2>2
  <2> QED BY <2>1, <2>2
<1>16. LeadsApart'
  <2> SUFFICES ASSUME NEW q \in Writers, (TurnOpen(q))'
               PROVE  /\ assigning'[q].lead \in NewLeads \ created'
                      /\ \A k \in Writers \ {q} : (TurnOpen(k))'
                                                    => assigning'[k].lead # assigning'[q].lead
                      /\ \A i \in DOMAIN rows' : rows'[i].lead = assigning'[q].lead =>
                           rows'[i].user \in assigning'[q].users
                             /\ rows'[i].auto = assigning'[q].auto
    BY DEF LeadsApart
  <2>1. CASE q = r
    BY <1>3, <1>4, <1>8, <1>10, <1>11, <1>12, <2>1
  <2>2. CASE q # r
    <3>1. TurnOpen(q) /\ assigning'[q] = assigning[q]
      BY <1>10, <1>13, <2>2
    <3>2. /\ assigning[q].lead \in NewLeads \ created
          /\ \A k \in Writers \ {q} : TurnOpen(k) => assigning[k].lead # assigning[q].lead
          /\ \A i \in K : rows[i].lead = assigning[q].lead =>
               rows[i].user \in assigning[q].users /\ rows[i].auto = assigning[q].auto
      BY <3>1 DEF TurnIInv, LeadsApart
    <3>3. \A k \in Writers \ {q} : (TurnOpen(k))' => assigning'[k].lead # assigning'[q].lead
      BY <1>4, <1>10, <1>13, <3>1, <3>2
    <3>4. \A i \in DOMAIN rows' : rows'[i].lead = assigning[q].lead => i \in K
      BY <1>4, <1>11
    <3> QED BY <1>3, <1>8, <3>1, <3>2, <3>3, <3>4
  <2> QED BY <2>1, <2>2
<1>17. CallsPlaced'
  <2> SUFFICES ASSUME NEW q \in Writers PROVE (CallPlaced(assigning[q]))'
    BY DEF CallsPlaced
  <2>1. CASE q = r
    BY <1>10, <2>1 DEF CallPlaced
  <2>2. CASE q # r
    BY <1>3, <1>10, <2>2 DEF TurnIInv, CallsPlaced, CallPlaced, R!setup
  <2> QED BY <2>1, <2>2
<1>18. \A u : r \notin (Ahead(u))'
  <2> SUFFICES ASSUME NEW u, NEW i \in DOMAIN rows', NEW j \in (R!Places(u))',
                      rows'[i].lead = l, i < j
               PROVE  FALSE
    BY <1>10 DEF Ahead
  <2>1. j \in K
    BY <1>11 DEF R!Places
  <2>2. i \in DOMAIN rows' \ K
    BY <1>8, <1>12
  <2>3. j < i
    BY <1>8, <2>1, <2>2
  <2>4. i \in Nat /\ j \in Nat
    BY <1>8, <2>1
  <2> QED BY <2>3, <2>4
<1>19. \A u, v \in R!Users : r \in (Owed(u, v))' => r \in Owed(u, v)
  BY <1>2, <1>10, <1>14 DEF Owed, Picked, Unaware, Ahead
<1>20. \A q \in Writers :
         \/ /\ assigning'[q] = assigning[q]
            /\ TurnOpen(q) => \A i \in DOMAIN rows : rows[i].lead = assigning[q].lead
                 => Stands(i, K, f)
         \/ \A u, v \in R!Users : /\ q \notin (Ahead(u))'
                                  /\ q \in (Owed(u, v))' => q \in Owed(u, v)
  BY <1>9, <1>10, <1>18, <1>19
<1>21. config' = config
  BY <1>3 DEF R!setup
<1>22. \A n \in DOMAIN rows' \ K : ~rows'[n].visible
  BY <1>11
<1>23. \A u \in R!Users : (Ahead(u))' # Writers
  BY <1>18
<1> HIDE DEF K, f
<1>24. \A i \in DOMAIN rows : rows[i].visible => Stands(i, K, f)
  BY <1>9 DEF K
<1>25. Turns' /\ passed' \in [R!Users -> [R!Users -> Nat]]
  BY <1>3, <1>8, <1>9, <1>20, <1>21, <1>22, <1>23, <1>24, StayedTurns DEF TurnIInv
<1>26. R!TypeOK'
  BY <1>3, <1>8, <1>10, <1>25 DEF TurnIInv, R!TypeOK, CallSet, RowSet, R!people, R!setup
<1>27. R!Seen(rows) \subseteq (R!Seen(rows))'
  BY <1>8 DEF R!Seen, K
<1> QED BY <1>15, <1>16, <1>17, <1>25, <1>26, <1>27 DEF TurnIInv

LEMMA CommitKeeps ==
  ASSUME R!Sizes, R!NoneIsNothing, TurnIInv, R!CountTurns, NEW r \in Writers, R!Commit(r)
  PROVE  TurnIInv' /\ R!Seen(rows) \subseteq (R!Seen(rows))'
<1>1. PICK l : l = assigning[r].lead
  OBVIOUS
<1>2. /\ TurnOpen(r) /\ l \in NewLeads \ created /\ created' = created \cup {l}
      /\ rows' = [i \in DOMAIN rows |-> [rows[i] EXCEPT !.visible = @ \/ rows[i].lead = l]]
      /\ R!End(r) /\ UNCHANGED <<R!people, R!setup>>
  BY <1>1 DEF R!Commit, TurnOpen, TurnIInv, LeadsApart
<1>3. /\ assigning' \in [Writers -> CallSet] /\ CallsPlaced'
      /\ assigning'[r].step = "idle" /\ \A q \in Writers \ {r} : assigning'[q] = assigning[q]
      /\ \A q \in Writers : (TurnOpen(q))' => q # r /\ TurnOpen(q) /\ assigning'[q] = assigning[q]
      /\ \A u, v : r \notin (Ahead(u))' /\ r \notin (Owed(u, v))'
  BY <1>2, Ended DEF TurnIInv, R!setup
<1>4. \A q \in Writers \ {r} : TurnOpen(q) => (TurnOpen(q))' /\ assigning[q].lead # l
  BY <1>1, <1>2, <1>3 DEF TurnOpen, TurnIInv, LeadsApart
<1>5. /\ rows \in Seq(RowSet) /\ \A i \in DOMAIN rows : rows[i] \in RowSet
  <2>1. rows \in Seq(RowSet)
    BY DEF TurnIInv, R!TypeOK, RowSet
  <2> QED BY <2>1
<1>6. /\ DOMAIN rows' = DOMAIN rows /\ rows' \in Seq(RowSet)
      /\ \A i \in DOMAIN rows :
           /\ rows'[i] \in RowSet
           /\ rows'[i].lead = rows[i].lead /\ rows'[i].user = rows[i].user
           /\ rows'[i].auto = rows[i].auto
           /\ rows'[i].visible <=> rows[i].visible \/ rows[i].lead = l
           /\ rows[i].visible => rows'[i] = rows[i]
  <2>1. ASSUME NEW i \in DOMAIN rows
        PROVE  /\ rows'[i] \in RowSet
               /\ rows'[i].lead = rows[i].lead /\ rows'[i].user = rows[i].user
               /\ rows'[i].auto = rows[i].auto
               /\ rows'[i].visible <=> rows[i].visible \/ rows[i].lead = l
               /\ rows[i].visible => rows'[i] = rows[i]
    <3>1. rows'[i] = [rows[i] EXCEPT !.visible = rows[i].visible \/ rows[i].lead = l]
      BY <1>2
    <3> QED BY <1>5, <3>1 DEF RowSet
  <2>2. DOMAIN rows' = DOMAIN rows
    BY <1>2
  <2>3. /\ Len(rows) \in Nat /\ DOMAIN rows = 1..Len(rows)
    BY <1>5
  <2>4. rows' \in [1..Len(rows) -> RowSet]
    BY <1>2, <2>1, <2>3
  <2>5. rows' \in Seq(RowSet)
    BY <2>3, <2>4, SeqDef
  <2> QED BY <2>1, <2>2, <2>5
<1>7. \A i \in DOMAIN rows : rows[i].lead = l => ~rows[i].visible
  BY <1>2 DEF TurnIInv, RowsPlaced
<1>8. RowsPlaced'
  <2> SUFFICES ASSUME NEW i \in DOMAIN rows
               PROVE  IF rows'[i].visible THEN rows'[i].lead \in created'
                      ELSE \E q \in Writers : (TurnOpen(q))' /\ assigning'[q].lead = rows'[i].lead
    BY <1>6 DEF RowsPlaced
  <2>1. CASE rows'[i].visible
    <3>1. rows'[i].lead = rows[i].lead /\ (rows[i].visible \/ rows[i].lead = l)
      BY <1>6, <2>1
    <3>2. rows[i].visible => rows[i].lead \in created
      BY DEF TurnIInv, RowsPlaced
    <3> QED BY <1>2, <2>1, <3>1, <3>2
  <2>2. CASE ~rows'[i].visible
    <3>1. rows[i].lead # l /\ ~rows[i].visible
      BY <1>6, <2>2
    <3>2. PICK q \in Writers : TurnOpen(q) /\ assigning[q].lead = rows[i].lead
      BY <3>1 DEF TurnIInv, RowsPlaced
    <3>3. q # r
      BY <1>1, <3>1, <3>2
    <3> QED BY <1>3, <1>4, <1>6, <2>2, <3>2, <3>3
  <2> QED BY <2>1, <2>2
<1>9. LeadsApart'
  <2> SUFFICES ASSUME NEW q \in Writers, (TurnOpen(q))'
               PROVE  /\ assigning'[q].lead \in NewLeads \ created'
                      /\ \A k \in Writers \ {q} : (TurnOpen(k))'
                                                    => assigning'[k].lead # assigning'[q].lead
                      /\ \A i \in DOMAIN rows' : rows'[i].lead = assigning'[q].lead =>
                           rows'[i].user \in assigning'[q].users
                             /\ rows'[i].auto = assigning'[q].auto
    BY DEF LeadsApart
  <2>1. q # r /\ TurnOpen(q) /\ assigning'[q] = assigning[q]
    BY <1>3
  <2>2. assigning[q].lead \in NewLeads \ created /\ assigning[q].lead # l
    BY <1>4, <2>1 DEF TurnIInv, LeadsApart
  <2>3. \A k \in Writers \ {q} : (TurnOpen(k))' => assigning'[k].lead # assigning'[q].lead
    BY <1>3, <2>1 DEF TurnIInv, LeadsApart
  <2>4. \A i \in DOMAIN rows' : rows'[i].lead = assigning'[q].lead =>
           rows'[i].user \in assigning'[q].users /\ rows'[i].auto = assigning'[q].auto
    BY <1>6, <2>1 DEF TurnIInv, LeadsApart
  <2> QED BY <1>2, <2>1, <2>2, <2>3, <2>4
<1>10. \A x \in Got : /\ x.lead = l /\ x.visible
                      /\ \E i \in DOMAIN rows : /\ rows[i].lead = l /\ rows[i].user = x.user
                                                /\ rows[i].auto = x.auto /\ x \in RowSet
  <2> SUFFICES ASSUME NEW x \in Got
               PROVE  /\ x.lead = l /\ x.visible
                      /\ \E i \in DOMAIN rows : /\ rows[i].lead = l /\ rows[i].user = x.user
                                                /\ rows[i].auto = x.auto /\ x \in RowSet
    OBVIOUS
  <2>1. PICK i \in DOMAIN rows : rows'[i].visible /\ rows'[i] = x
    BY <1>6 DEF Got, R!Seen
  <2>2. ~rows[i].visible
    BY <1>6, <2>1 DEF Got, R!Seen
  <2> QED BY <1>6, <2>1, <2>2
<1>11. ASSUME NEW i \in DOMAIN rows, rows[i].lead = l
       PROVE  rows'[i] \in Got
  <2>1. rows'[i] \in (R!Seen(rows))'
    BY <1>6, <1>11 DEF R!Seen
  <2>2. \A k \in DOMAIN rows : rows[k].visible => rows[k].lead # l
    BY <1>7
  <2>3. rows'[i] \notin R!Seen(rows)
    BY <1>6, <1>11, <2>2 DEF R!Seen
  <2> QED BY <2>1, <2>3 DEF Got
<1>12. ASSUME NEW u \in R!Users, ~Anew(u)
       PROVE  /\ \A i \in DOMAIN rows : rows[i].lead = l => rows[i].user # u
              /\ (R!Places(u))' = R!Places(u)
  <2>1. \A i \in DOMAIN rows : rows[i].lead = l => rows[i].user # u
    BY <1>6, <1>11, <1>12 DEF Anew
  <2> QED BY <1>6, <2>1 DEF R!Places
<1>13. \A v : R!Places(v) \subseteq (R!Places(v))'
  BY <1>6 DEF R!Places
<1>14. ASSUME NEW u \in R!Users, ~Anew(u), NEW q \in Writers
       PROVE  q \in (Ahead(u))' <=> q \in Ahead(u) /\ q # r
  <2>1. q # r => ((TurnOpen(q))' <=> TurnOpen(q)) /\ assigning'[q] = assigning[q]
    BY <1>3, <1>4
  <2> QED BY <1>3, <1>6, <1>12, <1>14, <2>1 DEF Ahead
<1>15. ASSUME NEW u \in R!Users, NEW v \in R!Users, ~Anew(u), (R!Goes(v, u))'
       PROVE  R!Goes(v, u)
  <2>1. CASE (R!Before(v, u))'
    BY <1>12, <1>13, <1>15, <2>1 DEF R!Goes, R!Before
  <2>2. CASE (R!Places(v))' = {} /\ (R!Places(u))' = {} /\ R!Earlier(v, u)
    BY <1>12, <1>13, <1>15, <2>2 DEF R!Goes
  <2>3. (R!Goes(v, u))' = ((R!Before(v, u))' \/ ((R!Places(v))' = {} /\ (R!Places(u))' = {}
                                               /\ R!Earlier(v, u)))
    BY DEF R!Goes, R!Earlier
  <2> QED BY <1>15, <2>1, <2>2, <2>3
<1>16. ASSUME NEW u \in R!Users, NEW v \in R!Users, ~Anew(u)
       PROVE  (Owed(u, v))' \subseteq Owed(u, v)
  <2> SUFFICES ASSUME NEW q \in (Owed(u, v))' PROVE q \in Owed(u, v)
    OBVIOUS
  <2>1. q \in Writers /\ q # r
    BY <1>3 DEF Owed, Picked, Unaware
  <2>2. assigning'[q] = assigning[q]
    BY <1>3, <2>1
  <2>3. q \in (Ahead(u))' <=> q \in Ahead(u)
    BY <1>14, <1>16, <2>1
  <2>4. (q \in (Picked(v))' => q \in Picked(v)) /\ (q \in (Unaware(u))' => q \in Unaware(u))
    BY <1>2, <2>1, <2>2 DEF Picked, Unaware, R!people
  <2> QED BY <2>3, <2>4 DEF Owed
<1>17. ASSUME NEW u \in R!Users, NEW v \in R!Users, ~Anew(u), u # v, Turned(v) # {}
       PROVE  /\ R!Cardinality(Turned(v)) = 1
              /\ r \in Ahead(u) \/ (r \in Owed(u, v) /\ ~(R!Goes(v, u))')
  <2>1. PICK x \in Turned(v) : TRUE
    BY <1>17
  <2>2. x \in Got /\ x.user = v /\ x.auto
    BY DEF Turned
  <2>3. PICK i \in DOMAIN rows : rows[i].lead = l /\ rows[i].user = v /\ rows[i].auto
    BY <1>10, <2>2
  <2>4. Turned(v) = {x}
    <3> SUFFICES ASSUME NEW y \in Turned(v) PROVE y = x
      BY <2>1
    <3>1. y \in Got /\ y.user = v /\ y.auto
      BY DEF Turned
    <3>2. /\ y \in RowSet /\ x \in RowSet /\ y.lead = x.lead /\ y.visible /\ x.visible
          /\ y.user = x.user /\ y.auto /\ x.auto
      BY <1>10, <2>2, <3>1
    <3>3. y.visible = x.visible /\ y.auto = x.auto
      BY <3>2 DEF RowSet
    <3> QED BY <3>2, <3>3 DEF RowSet
  <2>5. R!Cardinality(Turned(v)) = 1
    BY <2>4, FS_Singleton, CountedAlike
  <2>6. v \in assigning[r].users /\ assigning[r].auto
    BY <1>1, <1>2, <2>3 DEF TurnIInv, LeadsApart
  <2>7. r \in Picked(v)
    BY <1>2, <2>6 DEF Picked, TurnOpen
  <2>8. ASSUME r \notin Ahead(u) PROVE r \in Owed(u, v) /\ ~(R!Goes(v, u))'
    <3>1. \A j \in R!Places(u) : ~(i < j)
      BY <1>1, <1>2, <2>3, <2>8 DEF Ahead
    <3>2. i \in (R!Places(v))'
      BY <1>6, <2>3 DEF R!Places
    <3>3. ~(R!Before(v, u))'
      BY <1>12, <1>17, <3>1, <3>2 DEF R!Before
    <3>4. (R!Goes(v, u))' = ((R!Before(v, u))' \/ ((R!Places(v))' = {} /\ (R!Places(u))' = {}
                                                 /\ R!Earlier(v, u)))
      BY DEF R!Goes, R!Earlier
    <3> QED BY <2>7, <2>8, <3>2, <3>3, <3>4 DEF Owed
  <2> QED BY <2>5, <2>8
<1>18. \A u \in R!Users : (Ahead(u))' # Writers
  BY <1>3
<1>19. \A u \in R!Users : ~Anew(u) => (Ahead(u))' \subseteq Ahead(u)
  <2> SUFFICES ASSUME NEW u \in R!Users, ~Anew(u), NEW q \in (Ahead(u))' PROVE q \in Ahead(u)
    OBVIOUS
  <2>1. q \in Writers
    BY DEF Ahead
  <2> QED BY <1>14, <2>1
<1>20. Turns' /\ passed' \in [R!Users -> [R!Users -> Nat]]
  BY <1>3, <1>15, <1>16, <1>17, <1>18, <1>19, TurnsHold DEF TurnIInv
<1>21. created' \subseteq NewLeads
  BY <1>2 DEF TurnIInv, R!TypeOK
<1>22. R!TypeOK'
  BY <1>2, <1>3, <1>6, <1>20, <1>21 DEF TurnIInv, R!TypeOK, CallSet, RowSet, R!people, R!setup
<1>23. R!Seen(rows) \subseteq (R!Seen(rows))'
  BY <1>6 DEF R!Seen
<1> QED BY <1>3, <1>8, <1>9, <1>20, <1>22, <1>23 DEF TurnIInv

LEMMA FailKeeps ==
  ASSUME R!Sizes, R!NoneIsNothing, TurnIInv, R!CountTurns, NEW r \in Writers, R!Fail(r)
  PROVE  TurnIInv' /\ R!Seen(rows) \subseteq (R!Seen(rows))'
<1>1. CASE ~TurnOpen(r)
  <2>1. UNCHANGED <<R!people, R!setup, R!leadRows>> /\ R!End(r)
    BY <1>1 DEF R!Fail, TurnOpen, R!leadRows
  <2>2. config' = config /\ rule' = rule /\ rows' = rows
    BY <2>1 DEF R!setup, R!leadRows
  <2>3. rule' \in [Rules -> {None} \cup [status : R!Statuses, removed : BOOLEAN]]
    BY <2>2 DEF TurnIInv, R!TypeOK
  <2>4. R!Seen(rows) \subseteq (R!Seen(rows))'
    BY <2>2 DEF R!Seen
  <2> QED BY <1>1, <2>1, <2>2, <2>3, <2>4, EndKeeps
<1>2. CASE TurnOpen(r)
  <2>1. PICK l : l = assigning[r].lead
    OBVIOUS
  <2>2. /\ l \in NewLeads \ created /\ created' = created /\ rows' = R!Without(l)
        /\ R!End(r) /\ UNCHANGED <<R!people, R!setup>>
    BY <1>2, <2>1 DEF R!Fail, TurnOpen, TurnIInv, LeadsApart
  <2>3. /\ assigning' \in [Writers -> CallSet] /\ CallsPlaced'
        /\ assigning'[r].step = "idle" /\ \A q \in Writers \ {r} : assigning'[q] = assigning[q]
        /\ \A q \in Writers : (TurnOpen(q))'
                                => q # r /\ TurnOpen(q) /\ assigning'[q] = assigning[q]
        /\ \A u, v : r \notin (Ahead(u))' /\ r \notin (Owed(u, v))'
    BY <2>2, Ended DEF TurnIInv, R!setup
  <2>4. PICK P : P = {i \in DOMAIN rows : rows[i].lead # l}
    OBVIOUS
  <2>5. rows \in Seq(RowSet) /\ P \in SUBSET (DOMAIN rows) /\ rows' = R!Kept(P)
    BY <2>2, <2>4 DEF TurnIInv, R!TypeOK, RowSet, R!Without
  <2>6. rows' \in Seq(RowSet) /\ \E f : TakenFrom(rows', P, f)
    BY <2>5, KeptRows
  <2>7. PICK f : TakenFrom(rows', P, f)
    BY <2>6
  <2>8. PICK K : K = DOMAIN rows'
    OBVIOUS
  <2>9. Stay(K, f) /\ \A i \in P : Stands(i, K, f)
    BY <2>5, <2>7, <2>8 DEF Stay, Stands, TakenFrom
  <2>10. \A n \in K : f[n] \in P /\ rows'[n] = rows[f[n]]
    BY <2>7, <2>8 DEF TakenFrom
  <2>11. \A i \in DOMAIN rows : rows[i].visible => i \in P
    BY <2>2, <2>4 DEF TurnIInv, RowsPlaced
  <2>12. \A q \in Writers \ {r} : TurnOpen(q) =>
           (TurnOpen(q))' /\ \A i \in DOMAIN rows : rows[i].lead = assigning[q].lead => i \in P
    BY <1>2, <2>1, <2>3, <2>4 DEF TurnOpen, TurnIInv, LeadsApart
  <2>13. \A n \in K : IF rows'[n].visible THEN rows'[n].lead \in created'
                      ELSE \E q \in Writers : (TurnOpen(q))' /\ assigning'[q].lead = rows'[n].lead
    <3> SUFFICES ASSUME NEW i \in P
                 PROVE  IF rows[i].visible THEN rows[i].lead \in created'
                        ELSE \E q \in Writers : (TurnOpen(q))'
                          /\ assigning'[q].lead = rows[i].lead
      BY <2>10
    <3>1. i \in DOMAIN rows /\ rows[i].lead # l
      BY <2>4
    <3>2. CASE rows[i].visible
      BY <2>2, <3>1, <3>2 DEF TurnIInv, RowsPlaced
    <3>3. CASE ~rows[i].visible
      <4>1. PICK q \in Writers : TurnOpen(q) /\ assigning[q].lead = rows[i].lead
        BY <3>1, <3>3 DEF TurnIInv, RowsPlaced
      <4>2. q # r
        BY <2>1, <3>1, <4>1
      <4> QED BY <2>3, <2>12, <3>3, <4>1, <4>2
    <3> QED BY <3>2, <3>3
  <2>14. RowsPlaced' /\ LeadsApart'
    BY <2>2, <2>3, <2>8, <2>9, <2>13, StayedPlaces DEF TurnIInv
  <2>15. \A q \in Writers :
           \/ /\ assigning'[q] = assigning[q]
              /\ TurnOpen(q) => \A i \in DOMAIN rows : rows[i].lead = assigning[q].lead
                   => Stands(i, K, f)
           \/ \A u, v \in R!Users : /\ q \notin (Ahead(u))'
                                    /\ q \in (Owed(u, v))' => q \in Owed(u, v)
    BY <2>3, <2>9, <2>12
  <2>16. \A u \in R!Users : (Ahead(u))' # Writers
    BY <2>3
  <2>17. \A i \in DOMAIN rows : rows[i].visible => Stands(i, K, f)
    BY <2>9, <2>11
  <2>18. config' = config
    BY <2>2 DEF R!setup
  <2>19. Turns' /\ passed' \in [R!Users -> [R!Users -> Nat]]
    BY <2>2, <2>6, <2>8, <2>9, <2>15, <2>16, <2>17, <2>18, StayedTurns DEF TurnIInv
  <2>20. R!TypeOK'
    BY <2>2, <2>3, <2>6, <2>19 DEF TurnIInv, R!TypeOK, CallSet, RowSet, R!people, R!setup
  <2>21. R!Seen(rows) \subseteq (R!Seen(rows))'
    BY <2>8, <2>10, <2>17 DEF R!Seen, Stands
  <2> QED BY <2>3, <2>14, <2>19, <2>20, <2>21 DEF TurnIInv
<1> QED BY <1>1, <1>2

LEMMA DeleteLeadKeeps ==
  ASSUME R!Sizes, R!NoneIsNothing, TurnIInv, R!CountTurns, NEW l \in NewLeads, R!DeleteLead(l)
  PROVE  TurnIInv' /\ \A x \in R!Seen(rows) : x.lead \in created' => x \in (R!Seen(rows))'
<1>1. /\ l \in created /\ created' = created \ {l} /\ rows' = R!Without(l)
      /\ UNCHANGED <<R!people, R!setup, assigning>>
  BY DEF R!DeleteLead
<1>2. \A q \in Writers : ((TurnOpen(q))' <=> TurnOpen(q)) /\ assigning'[q] = assigning[q]
  BY <1>1 DEF TurnOpen
<1>3. \A q \in Writers : TurnOpen(q) => assigning[q].lead # l
  BY <1>1 DEF TurnIInv, LeadsApart
<1>4. PICK P : P = {i \in DOMAIN rows : rows[i].lead # l}
  OBVIOUS
<1>5. rows \in Seq(RowSet) /\ P \in SUBSET (DOMAIN rows) /\ rows' = R!Kept(P)
  BY <1>1, <1>4 DEF TurnIInv, R!TypeOK, RowSet, R!Without
<1>6. rows' \in Seq(RowSet) /\ \E f : TakenFrom(rows', P, f)
  BY <1>5, KeptRows
<1>7. PICK f : TakenFrom(rows', P, f)
  BY <1>6
<1>8. PICK K : K = DOMAIN rows'
  OBVIOUS
<1>9. Stay(K, f) /\ \A i \in P : Stands(i, K, f)
  BY <1>5, <1>7, <1>8 DEF Stay, Stands, TakenFrom
<1>10. \A n \in K : f[n] \in P /\ rows'[n] = rows[f[n]]
  BY <1>7, <1>8 DEF TakenFrom
<1>11. \A q \in Writers : TurnOpen(q)
                            => \A i \in DOMAIN rows : rows[i].lead = assigning[q].lead => i \in P
  BY <1>3, <1>4
<1>12. \A n \in K : IF rows'[n].visible THEN rows'[n].lead \in created'
                    ELSE \E q \in Writers : (TurnOpen(q))' /\ assigning'[q].lead = rows'[n].lead
  <2> SUFFICES ASSUME NEW i \in P
               PROVE  IF rows[i].visible THEN rows[i].lead \in created'
                      ELSE \E q \in Writers : (TurnOpen(q))' /\ assigning'[q].lead = rows[i].lead
    BY <1>10
  <2>1. i \in DOMAIN rows /\ rows[i].lead # l
    BY <1>4
  <2>2. CASE rows[i].visible
    BY <1>1, <2>1, <2>2 DEF TurnIInv, RowsPlaced
  <2>3. CASE ~rows[i].visible
    BY <1>2, <2>1, <2>3 DEF TurnIInv, RowsPlaced
  <2> QED BY <2>2, <2>3
<1>13. RowsPlaced' /\ LeadsApart'
  BY <1>1, <1>2, <1>8, <1>9, <1>12, StayedPlaces DEF TurnIInv
<1>14. \A u \in R!Users : (Ahead(u))' # Writers
  <2> SUFFICES ASSUME NEW u \in R!Users PROVE (Ahead(u))' \subseteq Ahead(u) /\ Ahead(u) # Writers
    BY DEF Ahead
  <2>1. \A q \in (Ahead(u))' : q \in Writers
    BY DEF Ahead
  <2>2. \A q \in (Ahead(u))' : q \in Ahead(u)
    BY <1>2, <1>5, <1>6, <1>8, <1>9, <2>1, StayedOrder
  <2> QED BY <2>2 DEF TurnIInv, Turns
<1>15. config' = config
  BY <1>1 DEF R!setup
<1>16. \A x \in R!Seen(rows) : x.lead # l => x \in (R!Seen(rows))'
  BY <1>4, <1>8, <1>9, <1>10 DEF R!Seen, Stands
<1>17. Turns' /\ passed' \in [R!Users -> [R!Users -> Nat]]
  <2>1. CASE \E i \in DOMAIN rows : rows[i].visible /\ rows[i].lead = l
    <3>1. PICK i \in DOMAIN rows : rows[i].visible /\ rows[i].lead = l
      BY <2>1
    <3>2. rows[i] \in R!Seen(rows)
      BY <3>1 DEF R!Seen
    <3>3. \A n \in K : rows'[n].lead # l
      BY <1>4, <1>10
    <3>4. rows[i] \notin (R!Seen(rows))'
      BY <1>8, <3>1, <3>3 DEF R!Seen
    <3> QED BY <1>14, <3>2, <3>4, TakenBack DEF TurnIInv
  <2>2. CASE ~\E i \in DOMAIN rows : rows[i].visible /\ rows[i].lead = l
    <3>1. \A i \in DOMAIN rows : rows[i].visible => Stands(i, K, f)
      BY <1>4, <1>9, <2>2
    <3>2. \A q \in Writers :
            /\ assigning'[q] = assigning[q]
            /\ TurnOpen(q) => \A i \in DOMAIN rows : rows[i].lead = assigning[q].lead
                 => Stands(i, K, f)
      BY <1>2, <1>9, <1>11
    <3> QED BY <1>1, <1>6, <1>8, <1>9, <1>14, <1>15, <3>1, <3>2, StayedTurns DEF TurnIInv
  <2> QED BY <2>1, <2>2
<1>18. CallsPlaced'
  BY <1>1 DEF TurnIInv, CallsPlaced, CallPlaced, R!setup
<1>19. created' \subseteq NewLeads
  BY <1>1 DEF TurnIInv, R!TypeOK
<1>20. R!TypeOK'
  BY <1>1, <1>6, <1>17, <1>19 DEF TurnIInv, R!TypeOK, RowSet, R!people, R!setup
<1>21. \A x \in R!Seen(rows) : x.lead \in created' => x \in (R!Seen(rows))'
  BY <1>1, <1>16
<1> QED BY <1>13, <1>17, <1>18, <1>20, <1>21 DEF TurnIInv

LEMMA AssignKeeps ==
  ASSUME R!Sizes, R!NoneIsNothing, TurnIInv, R!CountTurns, NEW r \in Writers, R!Assign(r)
  PROVE  /\ TurnIInv'
         /\ \A x \in R!Seen(rows) :
              (\E y \in (R!Seen(rows))' : y.lead = x.lead /\ y.user = x.user)
                => x \in (R!Seen(rows))'
<1>1. PICK l, us : l = assigning[r].lead /\ us = assigning[r].users
  OBVIOUS
<1>2. /\ l \in NewLeads /\ us \in SUBSET R!Users /\ ~TurnOpen(r) /\ R!End(r)
      /\ rows' = IF l \in created THEN R!Assigned(l, us) ELSE rows
      /\ UNCHANGED <<R!people, R!setup, created>>
  <2>1. assigning[r] \in CallSet
    BY CallTyped DEF TurnIInv
  <2> QED BY <1>1, <2>1 DEF R!Assign, TurnOpen, CallSet, TurnIInv, CallsPlaced, CallPlaced
<1>3. CASE l \notin created
  <2>1. UNCHANGED <<R!people, R!setup, R!leadRows>>
    BY <1>2, <1>3 DEF R!leadRows
  <2>2. config' = config /\ rule' = rule /\ rows' = rows
    BY <2>1 DEF R!setup, R!leadRows
  <2>3. rule' \in [Rules -> {None} \cup [status : R!Statuses, removed : BOOLEAN]]
    BY <2>2 DEF TurnIInv, R!TypeOK
  <2>4. (R!Seen(rows))' = R!Seen(rows)
    BY <2>2 DEF R!Seen
  <2> QED BY <1>2, <2>1, <2>2, <2>3, <2>4, EndKeeps
<1>4. CASE l \in created
  <2> DEFINE X == {R!Row(l, u, FALSE, TRUE) : u \in us \ R!Assignees(l)}
  <2>1. PICK s, P : s = R!SetToSeq(X)
                    /\ P = {i \in DOMAIN rows : rows[i].lead = l => rows[i].user \in us}
    OBVIOUS
  <2>2. rows \in Seq(RowSet) /\ P \in SUBSET (DOMAIN rows) /\ rows' = R!Kept(P) \o s
    BY <1>2, <1>4, <2>1 DEF TurnIInv, R!TypeOK, RowSet, R!Assigned
  <2>3. /\ s \in Seq(RowSet)
        /\ \A n \in DOMAIN s : /\ s[n].lead = l /\ s[n].user \in us \ R!Assignees(l)
                               /\ ~s[n].auto /\ s[n].visible
    <3>1. PICK V : V = us \ R!Assignees(l)
      OBVIOUS
    <3>2. \A u \in V : /\ R!Row(l, u, FALSE, TRUE) \in RowSet
                       /\ R!Row(l, u, FALSE, TRUE).user = u /\ R!Row(l, u, FALSE, TRUE).lead = l
                       /\ ~R!Row(l, u, FALSE, TRUE).auto /\ R!Row(l, u, FALSE, TRUE).visible
      BY <1>2, <3>1 DEF R!Row, RowSet
    <3>3. \A x \in X : \E u \in V : x = R!Row(l, u, FALSE, TRUE)
      BY <3>1
    <3> HIDE DEF X
    <3>4. X \subseteq RowSet
      BY <3>2, <3>3
    <3>5. \A x, y \in X : x.user = y.user => x = y
      <4> SUFFICES ASSUME NEW x \in X, NEW y \in X, x.user = y.user PROVE x = y
        OBVIOUS
      <4>1. \A z \in X : \E u : z = [lead |-> l, user |-> u, auto |-> FALSE, visible |-> TRUE]
        BY <3>3 DEF R!Row
      <4>2. \A z \in X : z = [lead |-> l, user |-> z.user, auto |-> FALSE, visible |-> TRUE]
        BY <4>1
      <4> QED BY <4>2
    <3>6. s \in Seq(RowSet) /\ \A n \in DOMAIN s : s[n] \in X
      BY <2>1, <3>4, <3>5, NewRows
    <3>7. \A x \in X : x.lead = l /\ x.user \in V /\ ~x.auto /\ x.visible
      BY <3>2, <3>3
    <3> QED BY <3>1, <3>6, <3>7
  <2> HIDE DEF X
  <2>4. PICK kept : kept = R!Kept(P)
    OBVIOUS
  <2>5. kept \in Seq(RowSet) /\ \E f : TakenFrom(kept, P, f)
    BY <2>2, <2>4, KeptRows
  <2>6. PICK f : TakenFrom(kept, P, f)
    BY <2>5
  <2>7. PICK K, t : K = DOMAIN kept /\ t = rows'
    OBVIOUS
  <2>8. /\ rows' \in Seq(RowSet) /\ K \subseteq DOMAIN rows'
        /\ \A n \in K : rows'[n] = kept[n]
        /\ \A n \in DOMAIN rows' \ K : /\ \E k \in DOMAIN s : rows'[n] = s[k]
                                       /\ \A m \in K : m < n
    <3>1. t = kept \o s
      BY <2>2, <2>4, <2>7
    <3>2. kept \in Seq(RowSet) /\ s \in Seq(RowSet)
      BY <2>3, <2>5
    <3>3. /\ t \in Seq(RowSet) /\ DOMAIN kept \subseteq DOMAIN t
          /\ \A n \in DOMAIN kept : t[n] = kept[n]
          /\ \A n \in DOMAIN t \ DOMAIN kept :
               /\ \E k \in DOMAIN s : t[n] = s[k]
               /\ \A m \in DOMAIN kept : m < n
      BY <3>1, <3>2, Joined
    <3> QED BY <2>7, <3>3
  <2>9. \A n \in DOMAIN rows' \ K : /\ rows'[n].lead = l /\ rows'[n].user \in us \ R!Assignees(l)
                                    /\ ~rows'[n].auto /\ rows'[n].visible
    BY <2>3, <2>8
  <2>10. \A n \in K : f[n] \in P /\ rows'[n] = rows[f[n]]
    BY <2>6, <2>7, <2>8 DEF TakenFrom
  <2>11. Stay(K, f) /\ \A i \in P : Stands(i, K, f)
    BY <2>2, <2>6, <2>7, <2>8 DEF Stay, Stands, TakenFrom
  <2>12. /\ assigning' \in [Writers -> CallSet] /\ CallsPlaced'
         /\ assigning'[r].step = "idle" /\ \A q \in Writers \ {r} : assigning'[q] = assigning[q]
         /\ \A q \in Writers : (TurnOpen(q))'
                                 => q # r /\ TurnOpen(q) /\ assigning'[q] = assigning[q]
         /\ \A u, v : r \notin (Ahead(u))' /\ r \notin (Owed(u, v))'
    BY <1>2, Ended DEF TurnIInv, R!setup
  <2>13. \A q \in Writers : TurnOpen(q) =>
           (TurnOpen(q))' /\ \A i \in DOMAIN rows : rows[i].lead = assigning[q].lead => i \in P
    BY <1>2, <1>4, <2>1, <2>12 DEF TurnOpen, TurnIInv, LeadsApart
  <2>14. \A n \in K : IF rows'[n].visible THEN rows'[n].lead \in created'
                      ELSE \E q \in Writers : (TurnOpen(q))' /\ assigning'[q].lead = rows'[n].lead
    <3> SUFFICES ASSUME NEW i \in P
                 PROVE  IF rows[i].visible THEN rows[i].lead \in created'
                        ELSE \E q \in Writers : (TurnOpen(q))'
                          /\ assigning'[q].lead = rows[i].lead
      BY <2>10
    <3>1. i \in DOMAIN rows
      BY <2>1
    <3>2. CASE rows[i].visible
      BY <1>2, <3>1, <3>2 DEF TurnIInv, RowsPlaced
    <3>3. CASE ~rows[i].visible
      <4>1. PICK q \in Writers : TurnOpen(q) /\ assigning[q].lead = rows[i].lead
        BY <3>1, <3>3 DEF TurnIInv, RowsPlaced
      <4> QED BY <2>12, <2>13, <3>3, <4>1
    <3> QED BY <3>2, <3>3
  <2>15. RowsPlaced' /\ LeadsApart'
    <3>1. \A n \in DOMAIN rows' \ K : rows'[n].visible /\ rows'[n].lead \in created'
      BY <1>2, <1>4, <2>9
    <3> QED BY <1>2, <2>11, <2>12, <2>14, <3>1, StayedPlaces DEF TurnIInv
  <2>16. \A q \in Writers :
           \/ /\ assigning'[q] = assigning[q]
              /\ TurnOpen(q) => \A i \in DOMAIN rows : rows[i].lead = assigning[q].lead
                   => Stands(i, K, f)
           \/ \A u, v \in R!Users : /\ q \notin (Ahead(u))'
                                    /\ q \in (Owed(u, v))' => q \in Owed(u, v)
    BY <2>11, <2>12, <2>13
  <2>17. \A u \in R!Users : (Ahead(u))' # Writers
    BY <2>12
  <2>18. config' = config
    BY <1>2 DEF R!setup
  <2>19. Turns' /\ passed' \in [R!Users -> [R!Users -> Nat]]
    <3>1. CASE \E i \in DOMAIN rows : rows[i].visible /\ i \notin P
      <4>1. PICK i \in DOMAIN rows : rows[i].visible /\ i \notin P
        BY <3>1
      <4>2. rows[i] \in R!Seen(rows) /\ rows[i].lead = l /\ rows[i].user \notin us
        BY <2>1, <4>1 DEF R!Seen
      <4>3. \A n \in K : rows'[n].lead = l => rows'[n].user \in us
        BY <2>1, <2>10
      <4>4. \A n \in DOMAIN rows' : rows'[n] # rows[i]
        BY <2>9, <4>2, <4>3
      <4>5. rows[i] \notin (R!Seen(rows))'
        BY <4>4 DEF R!Seen
      <4> QED BY <2>17, <4>2, <4>5, TakenBack DEF TurnIInv
    <3>2. CASE ~\E i \in DOMAIN rows : rows[i].visible /\ i \notin P
      <4>1. \A i \in DOMAIN rows : rows[i].visible => Stands(i, K, f)
        BY <2>11, <3>2
      <4>2. \A n \in DOMAIN rows' \ K : rows'[n] \notin R!Seen(rows)
        BY <2>9 DEF R!Seen, R!Assignees
      <4> QED BY <1>2, <2>8, <2>9, <2>11, <2>16, <2>17, <2>18, <4>1, <4>2, StayedTurns
              DEF TurnIInv
    <3> QED BY <3>1, <3>2
  <2>20. R!TypeOK'
    BY <1>2, <2>8, <2>12, <2>19 DEF TurnIInv, R!TypeOK, CallSet, RowSet, R!people, R!setup
  <2>21. ASSUME NEW x \in R!Seen(rows), NEW y \in (R!Seen(rows))', y.lead = x.lead,
                        y.user = x.user
         PROVE  x \in (R!Seen(rows))'
    <3>1. PICK i \in DOMAIN rows : rows[i].visible /\ rows[i] = x
      BY DEF R!Seen
    <3>2. PICK n \in DOMAIN rows' : rows'[n] = y
      BY DEF R!Seen
    <3>3. i \in P
      <4>1. CASE n \in K
        BY <2>1, <2>10, <2>21, <3>1, <3>2, <4>1
      <4>2. CASE n \notin K
        BY <2>1, <2>9, <2>21, <3>1, <3>2, <4>2
      <4> QED BY <4>1, <4>2
    <3>4. PICK m \in K : f[m] = i
      BY <2>11, <3>3 DEF Stands
    <3> QED BY <2>8, <2>10, <3>1, <3>4 DEF R!Seen
  <2> QED BY <2>12, <2>15, <2>19, <2>20, <2>21 DEF TurnIInv
<1> QED BY <1>3, <1>4

-----------------------------------------------------------------------------

LEMMA StartsInTurn ==
  ASSUME R!Sizes, R!NoneIsNothing, R!Init
  PROVE  TurnIInv
<1>1. rows = <<>> /\ DOMAIN rows = {} /\ rows \in Seq(RowSet)
  BY DEF R!Init
<1>2. R!Idle \in CallSet /\ R!Idle.step = "idle"
  BY DEF R!Idle, CallSet, R!Steps
<1>3. /\ assigning \in [Writers -> CallSet]
      /\ \A r \in Writers : assigning[r].step = "idle"
  BY <1>2 DEF R!Init
<1>4. \A s \in R!Statuses : R!Rule(s) \in [status : R!Statuses, removed : BOOLEAN]
  BY DEF R!Rule
<1>5. R!TypeOK
  <2>1. "ACTIVE" \in R!Statuses
    BY DEF R!Statuses
  <2> QED BY <1>1, <1>3, <1>4, <2>1 DEF R!Init, R!TypeOK, CallSet, RowSet
<1>6. RowsPlaced /\ LeadsApart /\ CallsPlaced
  BY <1>1, <1>3 DEF RowsPlaced, LeadsApart, CallsPlaced, CallPlaced, TurnOpen
<1>7. IsFiniteSet(Writers) /\ Writers # {}
  BY WritersCounted
<1>8. \A u : Ahead(u) = {}
  BY <1>3 DEF Ahead, TurnOpen
<1>9. \A u, v : R!Goes(v, u) => R!Earlier(v, u)
  BY <1>1 DEF R!Goes, R!Before, R!Places
<1>10. \A u, v : Owed(u, v) = {}
  BY <1>3 DEF Owed, Picked, Unaware
<1>11. R!Cardinality({}) = 0 /\ R!Cardinality(Writers) \in Nat /\ R!Cardinality(Writers) # 0
  BY WritersCounted, FS_EmptySet, CountedAlike
<1>12. \A u, v \in R!Users : passed[u][v] = 0
  BY DEF R!Init
<1>13. ASSUME NEW u \in R!Users, NEW v \in R!Users
       PROVE  passed[u][v] + R!Cardinality(Ahead(u)) + TurnsLeft(u, v)
                < 2 * R!Cardinality(Writers)
  <2>1. R!Cardinality(Ahead(u)) = 0
    BY <1>8, <1>11, Zenon
  <2>2. R!Cardinality(Owed(u, v)) = 0
    BY <1>10, <1>11, Zenon
  <2>3. TurnsLeft(u, v) \in {0, R!Cardinality(Writers)}
    BY <2>2 DEF TurnsLeft
  <2> QED BY <1>11, <1>12, <2>1, <2>3
<1>14. \A u \in R!Users : Ahead(u) # Writers
  BY <1>7, <1>8
<1>15. Turns
  BY <1>12, <1>13, <1>14 DEF Turns
<1> QED BY <1>5, <1>6, <1>15 DEF TurnIInv

LEMMA StepKeeps ==
  ASSUME R!Sizes, R!NoneIsNothing, TurnIInv, R!Next
  PROVE  /\ TurnIInv'
         /\ \A x \in R!Seen(rows) :
              x.lead \in created'
                /\ (\E y \in (R!Seen(rows))' : y.lead = x.lead /\ y.user = x.user)
                => x \in (R!Seen(rows))'
         /\ \A x \in Rules : rule[x] # None /\ rule[x].removed => rule'[x].removed
<1>1. R!CountTurns
  BY DEF R!Next
<1>2. ASSUME NEW r \in Writers,
             \/ R!CreateUnassigned(r) \/ R!CreateAssigned(r) \/ R!ReadConfig(r) \/ R!ReadRule(r)
             \/ R!ReadUsers(r) \/ R!CheckAssign(r) \/ R!CheckRule(r)
      PROVE  TurnIInv' /\ rows' = rows /\ rule' = rule
  <2>1. rows' = rows /\ rule' = rule
    BY <1>2
    DEF R!CreateUnassigned, R!CreateAssigned, R!ReadConfig, R!ReadRule, R!ReadUsers,
        R!CheckAssign,
                R!CheckRule, R!setup, R!leadRows
  <2> QED BY <1>1, <1>2, <2>1, CreateKeeps, ReadKeeps, ReadUsersKeeps, CheckAssignKeeps,
             CheckRuleKeeps
<1>3. ASSUME NEW r \in Writers, R!UpdateRule(r) \/ R!RemoveRule(r)
      PROVE  /\ TurnIInv' /\ rows' = rows
             /\ \A x \in Rules : rule[x] # None /\ rule[x].removed => rule'[x].removed
  <2>1. rows' = rows
    BY <1>3 DEF R!UpdateRule, R!RemoveRule, R!leadRows
  <2> QED BY <1>1, <1>3, <2>1, RuleKeeps
<1>4. ASSUME NEW r \in Writers, R!Insert(r) \/ R!Commit(r) \/ R!Fail(r)
      PROVE  TurnIInv' /\ R!Seen(rows) \subseteq (R!Seen(rows))' /\ rule' = rule
  <2>1. rule' = rule
    BY <1>4 DEF R!Insert, R!Commit, R!Fail, R!setup
  <2> QED BY <1>1, <1>4, <2>1, TurnInsertKeeps, CommitKeeps, FailKeeps
<1>5. ASSUME NEW r \in Writers, R!Assign(r)
      PROVE  /\ TurnIInv' /\ rule' = rule
             /\ \A x \in R!Seen(rows) :
                  (\E y \in (R!Seen(rows))' : y.lead = x.lead /\ y.user = x.user)
                    => x \in (R!Seen(rows))'
  <2>1. rule' = rule
    BY <1>5 DEF R!Assign, R!setup
  <2> QED BY <1>1, <1>5, <2>1, AssignKeeps
<1>6. ASSUME NEW l \in NewLeads, R!DeleteLead(l)
      PROVE  /\ TurnIInv' /\ rule' = rule
             /\ \A x \in R!Seen(rows) : x.lead \in created' => x \in (R!Seen(rows))'
  <2>1. rule' = rule
    BY <1>6 DEF R!DeleteLead, R!setup
  <2> QED BY <1>1, <1>6, <2>1, DeleteLeadKeeps
<1>7. ASSUME \/ \E u \in R!Users : R!SetActive(u) \/ R!Login(u)
             \/ \E c \in [automatic : BOOLEAN, requireLogin : BOOLEAN] : R!SaveConfig(c)
             \/ \E x \in Rules, s \in R!Statuses : R!CreateRule(x, s)
      PROVE  /\ TurnIInv' /\ rows' = rows
             /\ \A x \in Rules : rule[x] # None /\ rule[x].removed => rule'[x].removed
  <2>1. rows' = rows
    BY <1>7 DEF R!SetActive, R!Login, R!SaveConfig, R!CreateRule, R!leadRows
  <2> QED BY <1>1, <1>7, <2>1, WorldKeeps
<1>8. rows' = rows => (R!Seen(rows))' = R!Seen(rows)
  BY DEF R!Seen
<1>9. R!Step
  BY DEF R!Next
<1>10. CASE \E r \in Writers :
              \/ R!CreateUnassigned(r) \/ R!CreateAssigned(r) \/ R!ReadConfig(r) \/ R!ReadRule(r)
              \/ R!ReadUsers(r) \/ R!CheckAssign(r) \/ R!CheckRule(r)
  BY <1>2, <1>8, <1>10
<1>11. CASE \E r \in Writers : R!UpdateRule(r) \/ R!RemoveRule(r)
  BY <1>3, <1>8, <1>11
<1>12. CASE \E r \in Writers : R!Insert(r) \/ R!Commit(r) \/ R!Fail(r)
  BY <1>4, <1>12
<1>13. CASE \E r \in Writers : R!Assign(r)
  BY <1>5, <1>13
<1>14. CASE \E l \in NewLeads : R!DeleteLead(l)
  BY <1>6, <1>14
<1>15. CASE \/ \E u \in R!Users : R!SetActive(u) \/ R!Login(u)
            \/ \E c \in [automatic : BOOLEAN, requireLogin : BOOLEAN] : R!SaveConfig(c)
            \/ \E x \in Rules, s \in R!Statuses : R!CreateRule(x, s)
  BY <1>7, <1>8, <1>15
<1> QED BY <1>9, <1>10, <1>11, <1>12, <1>13, <1>14, <1>15 DEF R!Step

LEMMA StillKeeps ==
  ASSUME TurnIInv, UNCHANGED R!vars
  PROVE  TurnIInv'
<1>1. /\ active' = active /\ loggedIn' = loggedIn /\ config' = config /\ rule' = rule
      /\ created' = created /\ rows' = rows /\ assigning' = assigning /\ passed' = passed
  BY DEF R!vars, R!people, R!setup, R!leadRows
<1>2. R!TypeOK' /\ RowsPlaced' /\ LeadsApart' /\ CallsPlaced'
  BY <1>1 DEF TurnIInv, R!TypeOK, RowsPlaced, LeadsApart, CallsPlaced, CallPlaced, TurnOpen
<1>3. \A u : (R!Places(u))' = R!Places(u)
  BY <1>1 DEF R!Places
<1>4. \A u, v : (R!Goes(v, u))' = R!Goes(v, u)
  BY <1>3 DEF R!Goes, R!Before
<1>5. \A u : (Ahead(u))' = Ahead(u)
  BY <1>1, <1>3 DEF Ahead, TurnOpen
<1>6. \A u, v : (Owed(u, v))' = Owed(u, v)
  BY <1>1, <1>5 DEF Owed, Picked, Unaware
<1>7. \A u, v : (TurnsLeft(u, v))' = TurnsLeft(u, v)
  <2> SUFFICES ASSUME NEW u, NEW v PROVE (TurnsLeft(u, v))' = TurnsLeft(u, v)
    OBVIOUS
  <2>1. (TurnsLeft(u, v))' = IF (R!Goes(v, u))' THEN R!Cardinality(Writers)
                             ELSE R!Cardinality((Owed(u, v))')
    BY DEF TurnsLeft
  <2>2. R!Cardinality((Owed(u, v))') = R!Cardinality(Owed(u, v))
    BY <1>6, Zenon
  <2> QED BY <1>4, <2>1, <2>2 DEF TurnsLeft
<1>8. Turns'
  <2>1. \A u : R!Cardinality((Ahead(u))') = R!Cardinality(Ahead(u))
    BY <1>5, Zenon
  <2>2. Turns' = \A u, v \in R!Users :
                   /\ (Ahead(u))' # Writers
                   /\ passed'[u][u] = 0
                   /\ u \notin (R!Candidates(config.requireLogin))' => passed'[u][v] = 0
                   /\ u # v => passed'[u][v] + R!Cardinality((Ahead(u))') + (TurnsLeft(u, v))'
                                 < 2 * R!Cardinality(Writers)
    BY DEF Turns
  <2>3. (R!Candidates(config.requireLogin))' = R!Candidates(config.requireLogin)
    BY <1>1 DEF R!Candidates
  <2> QED BY <1>1, <1>5, <1>7, <2>1, <2>2, <2>3 DEF TurnIInv, Turns
<1> QED BY <1>2, <1>8 DEF TurnIInv

LEMMA TurnsBound ==
  ASSUME R!Sizes, TurnIInv
  PROVE  R!InTurn
<1> SUFFICES ASSUME NEW u \in R!Users, NEW v \in R!Users
             PROVE  passed[u][v] < 2 * R!Cardinality(Writers)
  BY DEF R!InTurn
<1>1. IsFiniteSet(Writers) /\ R!Cardinality(Writers) \in Nat /\ R!Cardinality(Writers) # 0
  BY WritersCounted
<1>2. passed[u][v] \in Nat
  BY DEF TurnIInv, R!TypeOK
<1>3. CASE u = v
  BY <1>1, <1>3 DEF TurnIInv, Turns
<1>4. CASE u # v
  <2>1. Ahead(u) \subseteq Writers /\ Owed(u, v) \subseteq Writers
    BY DEF Ahead, Owed, Picked, Unaware
  <2>2. R!Cardinality(Ahead(u)) \in Nat /\ R!Cardinality(Owed(u, v)) \in Nat
    BY <1>1, <2>1, FS_Subset, CountedAlike, FS_CardinalityType, CountedAlike
  <2>3. TurnsLeft(u, v) \in Nat
    BY <1>1, <2>2 DEF TurnsLeft
  <2>4. passed[u][v] + R!Cardinality(Ahead(u)) + TurnsLeft(u, v) < 2 * R!Cardinality(Writers)
    BY <1>4 DEF TurnIInv, Turns
  <2> QED BY <1>1, <1>2, <2>2, <2>3, <2>4
<1> QED BY <1>3, <1>4

\* Nobody who may be given leads is passed over as often as twice per request that can be under
\* way, whatever is read before it is written and committed after it was stamped.
THEOREM AssignedInTurn ==
  ASSUME R!Sizes, R!NoneIsNothing
  PROVE  R!Spec => [](R!TypeOK /\ R!InTurn)
<1>1. R!Init => TurnIInv
  BY StartsInTurn
<1>2. TurnIInv /\ [R!Next]_(R!vars) => TurnIInv'
  BY StepKeeps, StillKeeps
<1>3. TurnIInv => R!TypeOK /\ R!InTurn
  BY TurnsBound DEF TurnIInv
<1> QED BY <1>1, <1>2, <1>3, PTL DEF R!Spec

\* An assignee who stays keeps the Assigned Date, and a removed rule stays removed, whatever
\* requests cross.
THEOREM AssignmentsStand ==
  ASSUME R!Sizes, R!NoneIsNothing
  PROVE  R!Spec => R!DateKept /\ R!RemovedStays
<1>1. R!Init => TurnIInv
  BY StartsInTurn
<1>2. TurnIInv /\ [R!Next]_(R!vars) => TurnIInv'
  BY StepKeeps, StillKeeps
<1>3. TurnIInv /\ [R!Next]_(R!vars) =>
        [\A x \in R!Seen(rows) :
           x.lead \in created' /\ (\E y \in R!Seen(rows)' : y.lead = x.lead /\ y.user = x.user)
             => x \in R!Seen(rows)']_(R!vars)
  BY StepKeeps
<1>4. TurnIInv /\ [R!Next]_(R!vars) =>
        [\A x \in Rules : rule[x] # None /\ rule[x].removed => rule'[x].removed]_(R!vars)
  BY StepKeeps
<1> QED BY <1>1, <1>2, <1>3, <1>4, PTL DEF R!Spec, R!DateKept, R!RemovedStays
-----------------------------------------------------------------------------
(* What is proved of the parts, proved of the whole. *)

\* A step of the whole is a step of a part, and nothing to the others.
LEMMA PartsSteps ==
  ASSUME [WorkNext]_allVars
  PROVE  /\ [F!Next]_<<owners, followUp, write>>
         /\ [D!Next]_<<document, picture, object, docRequest, deletions, stray>>
         /\ [I!Next]_<<leads, job, run, newLead, disturbed>>
         /\ [R!Next]_(R!vars)
BY DEF WorkNext, allVars, followUpVars, documentVars, importVars, rotationVars,
       R!vars, R!people, R!setup, R!leadRows

\* Somebody who has the lead works on every open follow-up, whatever requests cross.
THEOREM FollowUpsStaySound == WorkSpec => []FollowUpsSound
<1>1. WorkInit => F!Init
  BY DEF WorkInit
<1>2. F!Spec => []F!FollowUpsSound
  BY WorkConstants, FollowUpRowsSound
<1> QED
  BY <1>1, <1>2, PartsSteps, PTL DEF WorkSpec, F!Spec, F!vars, FollowUpsSound

\* The bytes of a document and of a picture last as long as the row that shows them.
THEOREM DocumentsStaySound == WorkSpec => []DocumentsSound
<1>1. WorkInit => D!Init
  BY DEF WorkInit
<1>2. D!Spec => []D!DocumentsSound
  BY WorkConstants, DocumentRowsSound
<1> QED
  BY <1>1, <1>2, PartsSteps, PTL DEF WorkSpec, D!Spec, D!vars, DocumentsSound

\* An import job that is over says what has become of its file.
THEOREM SettledJobsTellTheTruth == WorkSpec => []ReportMatchesTable
<1>1. WorkInit => I!Init
  BY DEF WorkInit
<1>2. I!Init /\ [][I!Next]_(I!vars) => []I!ReportMatchesTable
  BY WorkConstants, SettledJobsSound
<1> QED
  BY <1>1, <1>2, PartsSteps, PTL DEF WorkSpec, I!vars, ReportMatchesTable

\* One customer's leads are linked, and a preview comes true, whatever requests cross.
THEOREM CustomersStayLinked == WorkSpec => []DuplicatesLinked
<1>1. WorkInit => I!Init
  BY DEF WorkInit
<1>2. I!Init /\ [][I!Next]_(I!vars) =>
        [](I!TypeOK /\ I!SharedIsLinked /\ I!StarWhenMatched /\ I!PreviewHolds)
  BY WorkConstants, DuplicatesStayLinked
<1> QED
  BY <1>1, <1>2, PartsSteps, PTL DEF WorkSpec, I!vars, DuplicatesLinked

\* No completion is undone, no work is lost in a hand-over, no document goes before its bytes.
THEOREM WorkStaysKept == WorkSpec => WorkKept
<1>1. WorkInit => F!Init /\ D!Init
  BY DEF WorkInit
<1>2. F!Spec => F!FirstCompletionStands
  BY WorkConstants, CompletionsStand
<1>3. F!Spec => F!NewOwnerTakesOver
  BY WorkConstants, OwnersTakeOver
<1>4. D!Spec => D!GoneWithBytes
  BY WorkConstants, DocumentRowsStay
<1> QED
  BY <1>1, <1>2, <1>3, <1>4, PartsSteps, PTL
  DEF WorkSpec, F!Spec, F!vars, D!Spec, D!vars, WorkKept

\* The round robin passes over nobody for ever, and no request undoes what another has settled:
\* an Assigned Date, or the removal of a rule.
THEOREM RotationStaysKept == WorkSpec => RotationKept
<1>1. WorkInit => R!Init
  BY DEF WorkInit
<1>2. R!Spec => [](R!TypeOK /\ R!InTurn)
  BY WorkConstants, AssignedInTurn
<1>3. R!Spec => R!DateKept /\ R!RemovedStays
  BY WorkConstants, AssignmentsStand
<1> QED
  BY <1>1, <1>2, <1>3, PartsSteps, PTL DEF WorkSpec, R!Spec, RotationKept
=============================================================================
