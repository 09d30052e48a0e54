CONSTANTS
  c1 = c1
  c2 = c2
  c3 = c3
  m1 = m1
  m2 = m2
  Conn = {c1, c2, c3}
  IMSI = {i1, i2, i3}
  Known = {i1, i2}
  Id = {m1, m2}
  NoId = NoId
  IdOf <- Ids
  RoleOf <- Roles
  NoConn = NoConn
  NoImsi = NoImsi
  Orderly = {TRUE, FALSE}
  MaxRequests <- Requests
  MaxUpdates = 1
SYMMETRY Symmetry
CONSTRAINT Bounded
SPECIFICATION Spec
\* The peers may have nothing more to say.
CHECK_DEADLOCK FALSE
INVARIANT TypeOK
INVARIANT ServingAccepted
INVARIANT HeldIsLocated
PROPERTY ResultLocated
PROPERTY ConformingKept
