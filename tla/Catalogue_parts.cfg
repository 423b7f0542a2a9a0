CONSTANTS
  None = None
  Parts = {"alone", "renames"}
  Requests = {r1, r2}
  StageIds = {s1, s2, s3}
  PipelineIds = {p1, p2}
  Leads = {l1}
  Users = {u1}
  Boards = {b1, b2}
  Names <- MCNames
  Operations <- AllOps
SPECIFICATION PartsSpec
SYMMETRY Symmetry
INVARIANT CatalogueSound
PROPERTY LeadsKept
CHECK_DEADLOCK FALSE
