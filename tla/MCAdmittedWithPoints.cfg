SPECIFICATION FairSpec
CONSTANTS
  User = {u1}
  Plan = {basic}
  Txn = {t1}
  Call = {p1, p2}
  CvCall = {q1, q2}
  Attempt = {n1}
  Earned = 1
  None = None
PROPERTIES AdmittedWithPoints
