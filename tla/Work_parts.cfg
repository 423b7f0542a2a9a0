CONSTANTS
  None = None
  Orders = {o1}
  Requests = {q1, q2, q3}
  JourneyMax = 4
  Parts = {"accounts", "followUps", "documents", "imports", "rotation"}
  Writers = {r1, r2}
  Staff = {"a1", "a2", "m"}
  Agents = {"a1", "a2"}
  OrgWide = {}
  Sees <- MCSees
  Leads = {"l1"}
  Activities = {"f1"}
  Owners = {"u1", "u2"}
  Admins = {"u2"}
  Documents = {"d1", "d2"}
  Keys = {"k1", "k2"}
  Contacts = {"c1", "c2"}
  Files <- MCFiles
  Jobs = {j1, j2}
  Forms = {"n1"}
  BatchSize = 2
  MaxLeads = 4
  MaxChanged = 1
  MaxCandidates = 2
  Enquiries <- MCEnquiries
  ByName <- MCByName
  NewLeads = {q1, q2, q3, l4}
  Rules = {"x1"}
SPECIFICATION WorkSpec
SYMMETRY Symmetry
CONSTRAINT Bounds
INVARIANTS JourneyConnected BackwardIsCorrection FollowUpsSound DocumentsSound ReportMatchesTable DuplicatesLinked
PROPERTIES WorkKept RotationKept
CHECK_DEADLOCK FALSE
