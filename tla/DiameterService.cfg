CONSTANTS
  addr1 = addr1
  addr2 = addr2
  host1 = host1
  host2 = host2
  MaxConns = 2
  Addr = {addr1, addr2}
  Host = {host1, host2}
  Caller <- Callers
  MaxRequests = 2
  Worker = {w1}
  None = None
  QueueSize = 1
  MaxFaults = 1
SPECIFICATION FairSpec
\* No more connections and requests may come.
CHECK_DEADLOCK FALSE
INVARIANT TypeOK
INVARIANT Served
INVARIANT TableFollows
PROPERTY KeepsPromise
PROPERTY HashSettles
