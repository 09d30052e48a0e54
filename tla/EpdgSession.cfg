CONSTANTS
  ue1 = ue1
  ue2 = ue2
  child1 = child1
  child2 = child2
  UE = {ue1, ue2}
  IMSI = {imsi1, imsi2}
  Child = {child1, child2}
  Thread = {t1, t2}
  NoSession = NoSession
  NoRequest = NoRequest
  NoChild = NoChild
  ChildNames <- EmptyOrFixed
  CleanName <- OwnChild
  Modes = {"active", "passive"}
  Careful = {ue1}
  Restarts = TRUE
  MaxClock = 1
  MaxUnfinished = 1
SPECIFICATION Spec
SYMMETRY Symmetry
INVARIANT TableAgrees
INVARIANT UpdatedAfterCreated
INVARIANT NeverStuck
PROPERTY AuthorisedOnly
PROPERTY BystanderKept
PROPERTY SessionOutlivesSA
