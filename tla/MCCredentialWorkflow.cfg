SPECIFICATION Spec
CONSTANTS
  Tx = {d1, d2, d3, d4, d5}
  Runs = {1}
  Cred = {c1, c2}
  Req = {a1, a2}
  Misleading = {c2}
  IdShape = "uint256"
  Faults <- AllFaults
SYMMETRY ReqSymmetry
CHECK_DEADLOCK FALSE
INVARIANTS TypeOK CanonicalId VerifiesExistingId MintsBoundedByCalls VerifiedWasQueued
PROPERTIES VerifiedStays
