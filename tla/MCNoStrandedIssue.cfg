SPECIFICATION Spec
CONSTANTS
  Tx = {d1, d2, d3, d4, d5}
  Runs = {1}
  Cred = {c1}
  Req = {a1, a2}
  Misleading = {}
  IdShape = "uint256"
  Faults = {}
CHECK_DEADLOCK FALSE
INVARIANTS NoStrandedIssue
