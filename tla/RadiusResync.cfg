CONSTANTS
  Conv = {c1}
  User = {u1}
  UsimSqn = {0, 1}
  Styles = {"auts"}
  ApiFails = FALSE
  MaxSends = 2
SPECIFICATION BridgeSpec
\* Every authentication may have ended.
CHECK_DEADLOCK FALSE
PROPERTY ResyncChallenged
