SPECIFICATION MCSpec
CONSTANTS
  Req = {l1, l2}
  Max = 2
  Window = 6
  Org = {o1, o2}
  Post = {x1, x2}
  PostReq = {p1, p2, p3, p4}
  None = None
  Faults = {"cache", "await"}
INVARIANTS TypesOK RateBound FirstLoginOnce Cascade
PROPERTIES LockoutEnds DeletedStays
CHECK_DEADLOCK FALSE
