------------------------------ MODULE Exchange ------------------------------
(***************************************************************************)
(* What the Diameter service and the HSS worker promise together to the    *)
(* peers: every request that is read is settled, by one answer to the      *)
(* address it came from, or by dropping it; nothing is answered that was   *)
(* not asked, or answered twice.  Neither the order of the answers nor     *)
(* that a request is answered is promised.                                 *)
(***************************************************************************)
EXTENDS Sequences

CONSTANTS
  Request,
  Addr,
  None       \* no address

VARIABLES
  asked,     \* [Request -> Addr \cup {None}]: the address it was read from
  answered,  \* [Request -> Seq(Addr)]: those its answers were written to
  dropped    \* the requests that will never be answered

vars == <<asked, answered, dropped>>

Init ==
  /\ asked = [r \in Request |-> None]
  /\ answered = [r \in Request |-> << >>]
  /\ dropped = {}

Open(r) == asked[r] # None /\ answered[r] = << >> /\ r \notin dropped

\* Requests may be dropped by the batch.
Drop ==
  /\ dropped \subseteq dropped'
  /\ \A r \in dropped' \ dropped : Open(r)
  /\ UNCHANGED <<asked, answered>>

Ask(r) ==
  /\ asked[r] = None
  /\ \E a \in Addr : asked' = [asked EXCEPT ![r] = a]
  /\ UNCHANGED <<answered, dropped>>

Answer(r) ==
  /\ Open(r)
  /\ answered' = [answered EXCEPT ![r] = << asked[r] >>]
  /\ UNCHANGED <<asked, dropped>>

\* A request is refused as it is read: its connection is closed, and what was
\* to be answered on that is dropped, too.
Refuse(r) ==
  /\ asked[r] = None
  /\ \E a \in Addr : asked' = [asked EXCEPT ![r] = a]
  /\ dropped \cup {r} \subseteq dropped'
  /\ \A q \in dropped' \ (dropped \cup {r}) : Open(q)
  /\ UNCHANGED answered

Next == Drop \/ \E r \in Request : Ask(r) \/ Answer(r) \/ Refuse(r)

\* What may happen, and the promise: that no request stays open for ever.
Safe == Init /\ [][Next]_vars
Spec == Safe /\ \A r \in Request : []<>~Open(r)

=============================================================================
