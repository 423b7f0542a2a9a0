----------------------------- MODULE MCLogistics -----------------------------
(* Instances of Logistics for TLC. *)
EXTENDS Logistics, TLC

CONSTANTS sales, trial

\* "sales" has the workflow's stages; "trial" has neither WON nor QC NOT APPROVED.
MCPipelines == {sales, trial}
MCStages == (sales :> {"New", "WON", "QC NOT APPROVED", "LOST"})
            @@ (trial :> {"New", "LOST"})
MCFirstStage == (sales :> "New") @@ (trial :> "New")

OnePipeline == {sales}
OneStages == sales :> {"New", "WON", "QC NOT APPROVED"}
OneFirstStage == sales :> "New"

\* A board whose first stage is WON: moving an open lead onto it would convert it.
WonFirst == (sales :> "WON") @@ (trial :> "New")

WorkflowOps == {"QC_VERIFY", "QC_REJECT", "RESUBMIT", "SET_STATUS", "EDIT_LEAD",
                "CHANGE_PIPELINE", "ARCHIVE", "UNARCHIVE", "DELETE", "CREATE"}
ShipmentOps == MoveOps \cup EditOps
AllOps == WorkflowOps \cup ShipmentOps
LockingOps == {"QC_VERIFY", "QC_REJECT", "RESUBMIT", "SET_DELIVERY_DATE",
               "SET_STATUS", "DELETE", "DISPATCH", "CORRECT_AWB"}
\* Three requests at once only on the workflow between Sales and QC; of the operations
\* after QC, the shipment and its corrections, two at once.
RequestsBound ==
  (\A r \in Requests : pc[r] # "idle")
    => /\ \A r \in Requests : call[r].op \in WorkflowOps
       /\ \A l \in Leads : order[l].status \notin Shipped

\* No definition tells requests, leads, days or tracking numbers apart.
Symmetry == Permutations(Requests) \cup Permutations(Leads) \cup Permutations(Days)
            \cup Permutations(Awbs)
==============================================================================
