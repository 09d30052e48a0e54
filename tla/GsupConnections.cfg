CONSTANTS
  Peer = {p1, p2}
  MaxPings = 3
SPECIFICATION ConnFairSpec
\* Every connection may have ended.
CHECK_DEADLOCK FALSE
INVARIANT PingsAnswered
INVARIANT TablesClean
PROPERTY SilentReleased
