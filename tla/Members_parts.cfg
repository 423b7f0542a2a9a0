CONSTANTS
  None = None
  Removed = Removed
  north = north
  North = North
  south = south
  Parts = {"teams", "roles"}
  Users = {u1, u2}
  Teams = {north, North, south}
  Tags = {t1}
  Requests = {r1, r2}
  Sellers = {u1, u2}
  Overridable = {u1, u2}
  Fold <- FoldDef
  Roles = {n1, n2, n3}
  Members = {m1}
  MaxDepth = 2
SPECIFICATION MembersSpec
SYMMETRY Symmetry
CONSTRAINT Bounds
INVARIANT MembersSound
PROPERTY MembersKept
CHECK_DEADLOCK FALSE
