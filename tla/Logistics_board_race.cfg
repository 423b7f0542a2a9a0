CONSTANTS
  sales = sales
  trial = trial
  None = None
  Leads = {l1}
  Requests = {r1, r2}
  Pipelines <- MCPipelines
  Stages <- MCStages
  FirstStage <- MCFirstStage
  Days = {d1}
  Awbs = {a1}
  Operations <- WorkflowOps
SPECIFICATION Spec
PROPERTIES ConvertedLeadOnBoard
CHECK_DEADLOCK FALSE
