------------------------- MODULE MCDiameterService -------------------------
\* Instances of DiameterService for TLC.
EXTENDS DiameterService

CONSTANTS addr1, addr2, host1, host2

\* The second connection comes from the same address, of the same host or of
\* another one, or is one more of the same host from another address.
Callers == [c \in Conn |-> {<<addr1, host1>>} \cup
             IF c = 1 THEN {} ELSE {<<addr1, host2>>, <<addr2, host1>>}]
=============================================================================
