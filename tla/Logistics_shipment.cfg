CONSTANTS
  sales = sales
  trial = trial
  None = None
  Leads = {l1, l2}
  Requests = {r1, r2}
  Pipelines <- OnePipeline
  Stages <- OneStages
  FirstStage <- OneFirstStage
  Days = {d1, d2}
  Awbs = {a1, a2}
  Operations <- ShipmentOps
SPECIFICATION Spec
SYMMETRY Symmetry
INVARIANTS BilledIffDelivered OneOrderPerAwb
PROPERTIES EditsInWindow DatedPastQC
CHECK_DEADLOCK FALSE
