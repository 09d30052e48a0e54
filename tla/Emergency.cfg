CONSTANTS
  site1 = site1
  site2 = site2
  hss1 = hss1
  hss2 = hss2
  api1 = api1
  api2 = api2
  Ue = {ue1, ue2}
  Ip = {ip1, ip2}
  Call = {call1, call2}
  Site = {site1, site2}
  Worker = {hss1, hss2}
  Api = {api1, api2}
  SiteOf <- TwoSites
  None = None
  MaxClock = 1
  MaxRequests = 4
  MaxFaults = 1
SYMMETRY Symmetry
CONSTRAINT Bounded
SPECIFICATION Spec
\* No more requests may come.
CHECK_DEADLOCK FALSE
INVARIANT TypeOK
INVARIANT Known
INVARIANT CallsHome
INVARIANT Ceased
