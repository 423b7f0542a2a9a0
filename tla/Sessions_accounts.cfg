CONSTANTS
  None = None
  Users = {u1}
  Passwords = {p1, p2}
  Tokens = {t1, t2, t3}
  ResetLinks = {l1, l2}
  Requests = {r1, r2}
SPECIFICATION Spec
SYMMETRY Symmetry
INVARIANTS TypeOK ChangeEndsSessions LinksSpent
PROPERTIES EndedSessionsStay
CONSTRAINT RowsBound
CHECK_DEADLOCK FALSE
