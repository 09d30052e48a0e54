CONSTANTS
  site1 = site1
  site2 = site2
  hss1 = hss1
  hss2 = hss2
  api1 = api1
  api2 = api2
  Site = {site1, site2}
  Worker = {hss1, hss2}
  Api = {api1, api2}
  SiteOf <- TwoSites
  Apn = {ims, internet, other}
  Listed = {ims, internet}
  LastListed = ims
  Ip = {ip1, ip2}
  None = None
  MaxRequests = 3
  MaxFaults = 1
SYMMETRY Symmetry
CONSTRAINT Bounded
SPECIFICATION Spec
\* No more requests may come.
CHECK_DEADLOCK FALSE
INVARIANT TypeOK
INVARIANT NoDuplicates
INVARIANT RowsFollow
PROPERTY ClearsOwn
