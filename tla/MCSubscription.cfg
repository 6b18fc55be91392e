SPECIFICATION FairSpec
CONSTANTS
  User = {u1}
  Plan = {basic, premium}
  Txn = {t1, t2}
  Call = {p1, p2}
  CvCall = {q1}
  Attempt = {n1, n2}
  Earned = 0
  None = None
INVARIANTS TypeOK PlanPaidFor AckAfterUpgrade
PROPERTIES ChargeHonoured
