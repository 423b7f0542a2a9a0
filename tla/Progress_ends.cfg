CONSTANTS
  sales = sales
  trial = trial
  None = None
  c1 = c1
  c2 = c2
  j1 = j1
  j2 = j2
  f1 = f1
  Leads = {l1}
  Requests = {r1, r2}
  Pipelines <- OnePipeline
  Stages <- OneStages
  FirstStage <- OneFirstStage
  Days = {d1}
  Awbs = {a1}
  Operations <- LockingOps
SPECIFICATION ProgressSpec
PROPERTIES RequestsEnd ImportEnds
CHECK_DEADLOCK FALSE
