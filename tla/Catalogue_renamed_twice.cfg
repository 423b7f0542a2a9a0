CONSTANTS
  None = None
  Requests = {r1, r2}
  StageIds = {s1}
  PipelineIds = {p1}
  Leads = {l1}
  Users = {}
  Boards = {b1, b2, b3}
  Names = {"New", "WON"}
  Operations = {"RENAME_PIPELINE"}
SPECIFICATION Spec
INVARIANTS LeadPipelinesExist
CHECK_DEADLOCK FALSE
