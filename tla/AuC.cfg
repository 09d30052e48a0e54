CONSTANTS
  site1 = site1
  site2 = site2
  hss1 = hss1
  api1 = api1
  hss2 = hss2
  Site = {site1, site2}
  Client = {hss1, api1, hss2}
  SiteOf <- TwoSites
  Batches = {api1}
  Step = 100
  MaxVectors = 2
  UsimSqn = {100}
  MaxCalls = 3
SPECIFICATION Spec
\* The clients may have no more requests to make.
CHECK_DEADLOCK FALSE
INVARIANT VectorsDistinct
INVARIANT SitesAgree
INVARIANT ResyncWorks
