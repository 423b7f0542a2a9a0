CONSTANTS
  None = None
  Removed = Removed
  Parts = {"forms", "settings", "categories"}
  Forms = {f1, f2}
  Fields = {k1}
  Options = {o1, o2}
  Leads = {l1}
  Members = {u1}
  Requests = {r1, r2}
  MaxForms = 2
  MaxFields = 1
  SettingFields = {"a", "b"}
  Values = {"x", "y"}
  Bad = "z"
  Default = "x"
  Switches = {"search", "archived"}
  LogLimit = 2
  Shipped = {"call"}
  Custom = {"t1"}
  TypeNames = {"n1", "n2"}
  MaxTypes = 2
  Categories = {g1, g2}
  Names = {x, y, z}
SPECIFICATION ScreensSpec
SYMMETRY Symmetry
CONSTRAINT Bounds
INVARIANTS FormsSound ScreensSound
PROPERTIES DefaultKept ScreensKept
CHECK_DEADLOCK FALSE
