CONSTANTS
  sales = sales
  trial = trial
  None = None
  Leads = {l1}
  Requests = {r1, r2, r3}
  Pipelines <- MCPipelines
  Stages <- MCStages
  FirstStage <- WonFirst
  Days = {d1}
  Awbs = {a1, a2}
  Operations <- AllOps
SPECIFICATION Spec
CONSTRAINT RequestsBound
SYMMETRY Symmetry
INVARIANTS TypeOK LeadFollowsOrder
PROPERTIES OrderKeepsLead JourneyTruthful ConversionSound WriteBackOnBoard ImplementsLifecycle
CHECK_DEADLOCK FALSE
