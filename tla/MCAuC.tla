------------------------------- MODULE MCAuC -------------------------------
\* Instances of AuC for TLC: the HSS and the API of one site and, with a
\* second site, the HSS of that.
EXTENDS AuC

CONSTANTS hss1, api1, hss2, site1, site2

TwoSites == [c \in Client |-> IF c = hss2 THEN site2 ELSE site1]
=============================================================================
