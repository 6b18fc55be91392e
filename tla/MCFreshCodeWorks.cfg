SPECIFICATION Spec
CONSTANTS
  User = {u1, u2}
  Email = {e1, e2}
  Call = {p1, p2}
  MaxCode = 3
  None = None
SYMMETRY MCSymmetry
INVARIANTS FreshCodeWorks
CHECK_DEADLOCK FALSE
