CONSTANTS
  Conv = {c1, c2}
  User = {u1, u2}
  UsimSqn = {0, 1}
  Styles = {"auts", "sync", "legacy"}
  ApiFails = TRUE
  MaxSends = 2
SYMMETRY Symmetry
SPECIFICATION BridgeSpec
\* Every authentication may have ended.
CHECK_DEADLOCK FALSE
INVARIANT KeysAgree
INVARIANT SoundAdmitted
INVARIANT SessionsSpent
