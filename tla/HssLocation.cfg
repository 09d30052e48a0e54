CONSTANTS
  site1 = site1
  site2 = site2
  hss1 = hss1
  hss2 = hss2
  api1 = api1
  api2 = api2
  Site = {site1, site2}
  Worker = {hss1, hss2}
  Api = {api1, api2}
  SiteOf <- TwoSites
  Mme = {mme1, mme2}
  Cscf = {cscf1, cscf2}
  None = None
  ClrSettings = {TRUE, FALSE}
  MaxRequests = 3
  MaxFaults = 1
SYMMETRY Symmetry
CONSTRAINT Bounded
SPECIFICATION Spec
\* No more requests may come.
CHECK_DEADLOCK FALSE
INVARIANT PeerOfMme
INVARIANT Located
INVARIANT SitesAgree
PROPERTY ClearsOwn
