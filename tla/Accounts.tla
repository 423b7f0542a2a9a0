------------------------------- MODULE Accounts -------------------------------
(***************************************************************************)
(* The payment record every delivered order gets, and the journey its      *)
(* audit events are.  A delivery opens the record (Logistics, CommitMove); *)
(* Accounts then moves or corrects its status.  A change is one READ       *)
(* COMMITTED transaction without a lock: it reads the record, decides, and *)
(* updates the row only where it still has the status the caller saw, so   *)
(* another change can commit between its two steps.                        *)
(***************************************************************************)
EXTENDS Naturals, SequencesExt

CONSTANTS Orders,
          Requests,    \* the changes in flight at one time
          JourneyMax,  \* the longest journey explored
          None

PaymentStatus == {"INITIAL", "PAYMENT_PENDING", "PAYMENT_RECEIVED",
                  "PAYMENT_FAILED", "PARTIALLY_PAID"}

PaymentMoves ==
  [INITIAL          |-> PaymentStatus \ {"INITIAL"},
   PAYMENT_PENDING  |-> {"PAYMENT_RECEIVED", "PAYMENT_FAILED", "PARTIALLY_PAID"},
   PARTIALLY_PAID   |-> {"PAYMENT_RECEIVED", "PAYMENT_FAILED"},
   PAYMENT_FAILED   |-> {"PAYMENT_PENDING", "PAYMENT_RECEIVED", "PARTIALLY_PAID"},
   PAYMENT_RECEIVED |-> {}]

CorrectionTargets(from) == PaymentStatus \ {from}

Targets(kind, from) == IF kind = "move" THEN PaymentMoves[from] ELSE CorrectionTargets(from)

Actions == {"ACCOUNTS_CREATED", "PAYMENT_STATUS_CHANGED", "PAYMENT_STATUS_CORRECTED"}
Event == [action: Actions, before: PaymentStatus \cup {None}, after: PaymentStatus]

Change == [kind: {"move", "correct"}, order: Orders, expected: PaymentStatus,
           target: PaymentStatus]

VARIABLES record,   \* [Orders -> the status of its accounts_records row, None: no row]
          journey,  \* [Orders -> the Accounts events of the order, as committed]
          call      \* [Requests -> the change that passed its checks, None: not started]

vars == <<record, journey, call>>

ASSUME NoneIsNoStatus == None \notin PaymentStatus \cup Change

\* A row holds one of the five statuses, and every event is an Accounts event.
TypeOK ==
  /\ record \in [Orders -> PaymentStatus \cup {None}]
  /\ journey \in [Orders -> Seq(Event)]
  /\ call \in [Requests -> Change \cup {None}]

Init ==
  /\ record = [o \in Orders |-> None]
  /\ journey = [o \in Orders |-> <<>>]
  /\ call = [r \in Requests |-> None]

-----------------------------------------------------------------------------
Recorded(o, action, before, after) ==
  journey' = [journey EXCEPT ![o] = Append(@, [action |-> action, before |-> before,
                                               after |-> after])]

\* openAccountsRecord, in the delivery's transaction; order_id is unique.
Open(o) ==
  /\ record[o] = None
  /\ record' = [record EXCEPT ![o] = "INITIAL"]
  /\ Recorded(o, "ACCOUNTS_CREATED", None, "INITIAL")
  /\ UNCHANGED call

\* The record is in the status the caller saw, and this kind of change may start there.
Begin(r) ==
  /\ call[r] = None
  /\ \E c \in Change :
       /\ Len(journey[c.order]) < JourneyMax
       /\ record[c.order] = c.expected
       /\ c.target \in Targets(c.kind, c.expected)
       /\ call' = [call EXCEPT ![r] = c]
  /\ UNCHANGED <<record, journey>>

\* Mutant: the update names the row alone.
NamesTheRow(c) == TRUE

\* WHERE id AND status = expectedStatus, evaluated on the row another change left.
StillExpected(c) == record[c.order] = c.expected

\* Mutants: every change is recorded as a move, or as an edit of any other record is.
AlwaysChanged(c) == "PAYMENT_STATUS_CHANGED"
GenericUpdated(c) == "UPDATED"

ActionOf(c) ==
  IF c.kind = "move" THEN "PAYMENT_STATUS_CHANGED" ELSE "PAYMENT_STATUS_CORRECTED"

Commit(r) ==
  LET c == call[r]
  IN /\ c # None
     /\ StillExpected(c)
     /\ record' = [record EXCEPT ![c.order] = c.target]
     /\ Recorded(c.order, ActionOf(c), c.expected, c.target)
     /\ call' = [call EXCEPT ![r] = None]

\* The update found no row in the expected status (409), or the transaction is lost.
Refused(r) ==
  /\ call[r] # None
  /\ call' = [call EXCEPT ![r] = None]
  /\ UNCHANGED <<record, journey>>

Next ==
  \/ \E o \in Orders : Open(o)
  \/ \E r \in Requests : Begin(r) \/ Commit(r) \/ Refused(r)

Spec == Init /\ [][Next]_vars

-----------------------------------------------------------------------------
(* What Accounts must keep. *)

\* The history is kept: an order's events start where its record was opened, each
\* continues from the one before, and the last one names the status of the record.
JourneyConnected ==
  \A o \in Orders :
    /\ record[o] = None <=> journey[o] = <<>>
    /\ \A i \in 1..Len(journey[o]) :
         journey[o][i].before = (IF i = 1 THEN None ELSE journey[o][i - 1].after)
    /\ journey[o] # <<>> => Last(journey[o]).after = record[o]

\* A payment that was received is unsaid, and a record goes back to INITIAL, only by a
\* change that the journey names a correction.
BackwardIsCorrection ==
  \A o \in Orders : \A i \in 2..Len(journey[o]) :
    \/ journey[o][i].action = "PAYMENT_STATUS_CORRECTED"
    \/ journey[o][i].before # "PAYMENT_RECEIVED" /\ journey[o][i].after # "INITIAL"

\* Of two changes decided on the same status, one at most is made from it: a record
\* changes only along what its current status allows that kind of change.
ChangesFromCurrent ==
  [][\A o \in Orders :
       record[o] # None /\ record'[o] # record[o] =>
         record'[o] \in Targets(IF Last(journey'[o]).action = "PAYMENT_STATUS_CHANGED"
                                THEN "move" ELSE "correct", record[o])]_vars
==============================================================================
