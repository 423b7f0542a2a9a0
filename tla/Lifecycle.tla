------------------------------ MODULE Lifecycle ------------------------------
(***************************************************************************)
(* What the won-lead workflow promises, with every move taken in one step: *)
(* the order's status, what its lead reads and whether it is in Accounts   *)
(* always change together.  Module Logistics, where a move is several SQL  *)
(* statements of several concurrent requests, is shown to implement it.    *)
(***************************************************************************)
CONSTANT Leads

VARIABLES status,    \* the order's logistics status, "NONE" before conversion
          standing,  \* what the lead reads, "OPEN" before conversion
          billed     \* the leads whose order has an Accounts record

vars == <<status, standing, billed>>

Init ==
  /\ status \in [Leads -> {"NONE", "INITIAL", "QC_VERIFIED", "QC_REJECTED",
                           "DISPATCHED", "DELIVERED", "CANCELLED", "RTO"}]
  /\ standing = [l \in Leads |-> IF status[l] = "NONE" THEN "OPEN"
                                 ELSE IF status[l] = "QC_REJECTED"
                                      THEN "QC NOT APPROVED" ELSE "WON"]
  /\ billed = {l \in Leads : status[l] = "DELIVERED"}

Becomes(l, s) == status' = [status EXCEPT ![l] = s]
Reads(l, s)   == standing' = [standing EXCEPT ![l] = s]

Convert(l) ==
  /\ status[l] = "NONE"
  /\ Becomes(l, "INITIAL")
  /\ Reads(l, "WON")
  /\ UNCHANGED billed

Reject(l) ==
  /\ status[l] = "INITIAL"
  /\ Becomes(l, "QC_REJECTED")
  /\ Reads(l, "QC NOT APPROVED")
  /\ UNCHANGED billed

Resubmit(l) ==
  /\ status[l] = "QC_REJECTED"
  /\ Becomes(l, "INITIAL")
  /\ Reads(l, "WON")
  /\ UNCHANGED billed

Ship(l) ==
  /\ \/ status[l] = "INITIAL" /\ Becomes(l, "QC_VERIFIED")
     \/ status[l] = "QC_VERIFIED" /\ Becomes(l, "DISPATCHED")
     \/ status[l] = "DISPATCHED" /\ Becomes(l, "RTO")
     \/ status[l] \in {"DISPATCHED", "RTO"} /\ Becomes(l, "CANCELLED")
  /\ UNCHANGED <<standing, billed>>

Deliver(l) ==
  /\ status[l] = "DISPATCHED"
  /\ Becomes(l, "DELIVERED")
  /\ billed' = billed \cup {l}
  /\ UNCHANGED standing

Next ==
  \E l \in Leads :
    Convert(l) \/ Reject(l) \/ Resubmit(l) \/ Ship(l) \/ Deliver(l)

Spec == Init /\ [][Next]_vars
==============================================================================
