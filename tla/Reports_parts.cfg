CONSTANTS
  Null = Null
  Absent = Absent
  Parts = {"reports", "funnel", "exports", "access"}
  s1 = s1
  s2 = s2
  s3 = s3
  n1 = n1
  n2 = n2
  n3 = n3
  b1 = b1
  b2 = b2
  Staff <- MCStaff
  Blank = ""
  Like <- MCLike
  Whole = {0, 2, 4, 20}
  Pool <- MCPool
  Tables <- MCTables
  Day = 10
  Now = 25
  Queries <- MCQueries
  Conditions <- MCConditions
  Trim <- MCTrim
  Stages <- MCStages
  DefaultPipeline = "West"
  Joined <- MCJoined
  Alphabet <- MCAlphabet
  Initials <- MCInitials
  MaxDeals = 4
  MaxDays = 2
  MaxRange = 30
  Given <- MCGiven
  Teams = {"north"}
  Boards = {"West"}
  Asked <- MCAsked
  MaxChanges = 2
  FunnelBoards = {b1, b2}
  FunnelStages = {s1, s2, s3}
  Labels = {n1, n2, n3}
  FunnelLeads = {"l1"}
  Shipped <- MCShipped
  MaxEvents = 3
  ExportRows = {1, 2, 3, 4, 5}
  BatchSize = 2
  MaxRows = 4
  MaxListChanges = 3
SPECIFICATION Spec
CONSTRAINT FunnelBounds
CHECK_DEADLOCK FALSE
INVARIANTS ReportsAgree SeenAsAllowed RoutesSound NegationCompletes FiguresAddUp ListsWhole FunnelExact
