CONSTANTS
  Worker = {hss1, hss2}
  Call = {call1, call2}
  None = None
  MaxRequests = 4
  MaxFaults = 1
SYMMETRY Symmetry
CONSTRAINT Bounded
SPECIFICATION Spec
\* No more requests may come.
CHECK_DEADLOCK FALSE
INVARIANT TypeOK
INVARIANT Ended
PROPERTY RefusedOwn
