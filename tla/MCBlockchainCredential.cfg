SPECIFICATION Spec
CONSTANTS
  Cred = {old, new}
  Legacy = {old}
  Req = {p1, p2, p3, p4}
  Tx = {t1, t2, t3, t4}
  UnknownReads = "PENDING"
  Faults <- AllFaults
SYMMETRY MCSymmetry
CHECK_DEADLOCK FALSE
INVARIANTS TypeOK VerifiedOnChain IssuanceTracked
PROPERTIES RevocationSticks
