SPECIFICATION Spec
CONSTANTS
  User = {u1, u2}
  ChatId = {c1, c2}
  Msg = {m1, m2}
  Req = {r1, r2, r3, r4}
  None = None
  Faults = {"await", "cache"}
SYMMETRY Symmetry
INVARIANTS
  TypeOK
  OneChatPerGroup
  LastIsNewest
  MapTruthful
CHECK_DEADLOCK FALSE
