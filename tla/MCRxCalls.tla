----------------------------- MODULE MCRxCalls ------------------------------
\* Instances of RxCalls for TLC.
EXTENDS RxCalls, TLC

\* As many requests as leave room for the faults.
Bounded == requests + faults <= MaxRequests

Symmetry == Permutations(Worker) \cup Permutations(Call)
=============================================================================
