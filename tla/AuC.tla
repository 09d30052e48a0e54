-------------------------------- MODULE AuC --------------------------------
(***************************************************************************)
(* The sequence number of a subscriber's AUC row (database.py,             *)
(* Get_Vectors_AuC and Update_AuC): the HSS, the GSUP service and the API  *)
(* each read the row, build a vector from its SQN and write the SQN back   *)
(* plus 100, in two transactions; every write is copied to the other sites *)
(* (georedService.py), whose API stores it as it comes.                    *)
(*                                                                         *)
(* One subscriber.  The USIM, and the MME, SGSN, S-CSCF or ePDG that asks  *)
(* for vectors and challenges it, are external.                            *)
(***************************************************************************)
EXTENDS Naturals, Sequences, FiniteSets

CONSTANTS
  Site,      \* HSS sites
  Client,    \* those that ask for vectors, each served by its own process
  SiteOf,    \* [Client -> Site]
  Batches,   \* the clients that use the API's aka/vector_count
  Step,      \* what a vector adds to the SQN: 100
  MaxVectors,  \* the most vectors of one request (32, 5 over GSUP)
  UsimSqn,   \* SQNs the USIM may hold at the start
  MaxCalls   \* bound: requests made, resynchronisations included

ASSUME AucAssumption ==
  /\ Site # {}
  /\ SiteOf \in [Client -> Site]
  /\ Batches \subseteq Client
  /\ Step \in Nat \ {0}
  /\ MaxVectors \in Nat \ {0}
  /\ UsimSqn \subseteq Nat
  /\ MaxCalls \in Nat

\* A process's open handler: the resynchronisation it still has to do, the
\* vectors it still has to make, and the locals of Get_Vectors_AuC.
Call == [at : {"idle", "read", "write"}, resync : BOOLEAN, auts : Nat,
         left : Nat, copies : Nat, sqn : Nat]

Idle == [at |-> "idle", resync |-> FALSE, auts |-> 0, left |-> 0,
         copies |-> 0, sqn |-> 0]

\* What can have set the sites' rows apart or moved an SQN back.
Cause == {"overlap",   \* a request began during another, or with an update
                       \* of another site still on its way
          "lost",      \* an update did not reach a site
          "resync",    \* a resynchronisation lowered the SQN
          "batch"}     \* the API answered several times the same vector

VARIABLES
  row,     \* [Site -> SQN]: AUC.sqn
  call,    \* [Client -> Call]
  mail,    \* [Site -> [Site -> Seq(SQN)]]: the queue geored, by destination
  stock,   \* external, [Client -> Seq(SQN)]: vectors a client has not used
  usim,    \* external: the highest SQN the USIM has accepted
  synced,  \* history: the clients whose vectors follow a resynchronisation
           \* of theirs, with no other client's accepted since
  issued,  \* history: the SQNs of the vectors made
  twice,   \* history: those of more than one vector
  cause,   \* history
  calls    \* how many requests have been made

vars == <<row, call, mail, stock, usim, synced, issued, twice, cause, calls>>

Init ==
  /\ row = [s \in Site |-> 0]
  /\ call = [c \in Client |-> Idle]
  /\ mail = [s \in Site |-> [t \in Site |-> << >>]]
  /\ stock = [c \in Client |-> << >>]
  /\ usim \in UsimSqn
  /\ synced = {}
  /\ issued = {}
  /\ twice = {}
  /\ cause = {}
  /\ calls = 0

-----------------------------------------------------------------------------
Open(c) == call[c].at # "idle"
Sending(s) == \E t \in Site : mail[s][t] # << >>

\* Would a request of c now overlap with another, or run ahead of an update?
Overlaps(c) ==
  \/ \E d \in Client \ {c} : Open(d)
  \/ \E s \in Site \ {SiteOf[c]} : Sending(s)

\* A request reaches the handler of the client's process.
Begin(c, request) ==
  /\ ~Open(c)
  /\ calls < MaxCalls
  /\ calls' = calls + 1
  /\ call' = [call EXCEPT ![c] = request]
  /\ cause' = cause \cup (IF Overlaps(c) THEN {"overlap"} ELSE {})

\* AIR, MAR, GSUP and eap_aka make each vector by a call of its own;
\* aka/vector_count puts one vector into the list n times.
Vectors(c, n) ==
  IF c \in Batches
  THEN [Idle EXCEPT !.at = "read", !.left = 1, !.copies = n]
  ELSE [Idle EXCEPT !.at = "read", !.left = n, !.copies = 1]

Ask(c) ==
  /\ stock[c] = << >>
  /\ \E n \in 1 .. MaxVectors : Begin(c, Vectors(c, n))
  /\ UNCHANGED <<row, mail, stock, usim, synced, issued, twice>>

\* Get_Vectors_AuC: GetObj, and the vector is built from what it returns.
Read(c) ==
  /\ call[c].at = "read"
  /\ call' = [call EXCEPT ![c].at = "write", ![c].sqn = row[SiteOf[c]]]
  /\ UNCHANGED <<row, mail, stock, usim, synced, issued, twice, cause, calls>>

\* Mutants: no step for the next vector of a request; none after a resync.
NewSqnOnce(c) ==
  IF call[c].resync THEN call[c].auts + Step
  ELSE IF call[c].left > 1 THEN call[c].sqn ELSE call[c].sqn + Step

NewSqnAuts(c) ==
  IF call[c].resync THEN call[c].auts ELSE call[c].sqn + Step

\* The SQN that Update_AuC stores: sqn_resync takes the USIM's as it is.
NewSqn(c) == (IF call[c].resync THEN call[c].auts ELSE call[c].sqn) + Step

\* Update_AuC: commit, and in the same step its copy to the other sites (a
\* request that comes between the two overlaps with this one all the same) ...
Commit(c) ==
  /\ call[c].at = "write"
  /\ row' = [row EXCEPT ![SiteOf[c]] = NewSqn(c)]

\* Mutant: the update goes to no other site.
SendNowhere(c) == UNCHANGED mail

\* ... then handleGeored, one message that goes to every other site.
Send(c) ==
  mail' = [mail EXCEPT ![SiteOf[c]] =
             [t \in Site |-> IF t = SiteOf[c] THEN << >>
                             ELSE Append(@[t], NewSqn(c))]]

\* handleGeored swallows an error of Redis.
SendFails == UNCHANGED mail /\ Cardinality(Site) > 1

Sent(c, back) ==
  \/ Send(c) /\ cause' = cause \cup back
  \/ SendFails /\ cause' = cause \cup back \cup {"lost"}

\* The resynchronisation of a request; the vectors follow in the same one.
Resync(c) ==
  /\ call[c].resync
  /\ Commit(c)
  /\ Sent(c, IF NewSqn(c) < row[SiteOf[c]] THEN {"resync"} ELSE {})
  /\ call' = [call EXCEPT ![c].resync = FALSE, ![c].at = "read"]
  /\ UNCHANGED <<stock, usim, synced, issued, twice, calls>>

\* One vector: the answer goes out with the last.
Vector(c) ==
  /\ ~call[c].resync
  /\ Commit(c)
  /\ Sent(c, IF call[c].copies > 1 THEN {"batch"} ELSE {})
  /\ LET made == [i \in 1 .. call[c].copies |-> call[c].sqn]
         sqn == call[c].sqn
     IN  /\ stock' = [stock EXCEPT ![c] = @ \o made]
         /\ issued' = issued \cup {sqn}
         /\ twice' = twice \cup
                     (IF sqn \in issued \/ call[c].copies > 1 THEN {sqn}
                                                       ELSE {})
  /\ call' = [call EXCEPT ![c] =
                IF call[c].left = 1 THEN Idle
                ELSE [@ EXCEPT !.at = "read", !.left = call[c].left - 1]]
  /\ UNCHANGED <<usim, synced, calls>>

\* UpdateObj raises, or the process dies: no answer, the vectors are gone.
Fail(c) ==
  /\ Open(c)
  /\ call' = [call EXCEPT ![c] = Idle]
  /\ stock' = [stock EXCEPT ![c] = << >>]
  /\ synced' = synced \ {c}
  /\ UNCHANGED <<row, mail, usim, issued, twice, cause, calls>>

-----------------------------------------------------------------------------
Pop(s, t) == mail' = [mail EXCEPT ![s][t] = Tail(@)]

\* Mutant: the update is counted as one more vector.
StoreNext(s, t) == row' = [row EXCEPT ![t] = Head(mail[s][t]) + Step]

\* PATCH /geored/: Update_AuC(propagate=False), whatever the row holds.
Store(s, t) == row' = [row EXCEPT ![t] = Head(mail[s][t])]

\* sendGeored tries again when the answer does not come back.
Deliver(s, t) ==
  /\ mail[s][t] # << >>
  /\ Store(s, t)
  /\ Pop(s, t) \/ UNCHANGED mail
  /\ UNCHANGED <<call, stock, usim, synced, issued, twice, cause, calls>>

\* sendGeored gives up after its third try, or the queue has expired.
Lose(s, t) ==
  /\ mail[s][t] # << >>
  /\ Pop(s, t)
  /\ cause' = cause \cup {"lost"}
  /\ UNCHANGED <<row, call, stock, usim, synced, issued, twice, calls>>

-----------------------------------------------------------------------------
\* External: a challenge with the client's next vector ...
Challenge(c) == ~Open(c) /\ stock[c] # << >>

\* ... that the USIM accepts: the SQN is beyond the highest it has accepted.
Accept(c) ==
  /\ Challenge(c)
  /\ Head(stock[c]) > usim
  /\ usim' = Head(stock[c])
  /\ stock' = [stock EXCEPT ![c] = Tail(@)]
  /\ synced' = {}
  /\ UNCHANGED <<row, call, mail, issued, twice, cause, calls>>

\* ... or answers with AUTS: the client drops its vectors and asks again.
OutOfSync(c) ==
  /\ Challenge(c)
  /\ Head(stock[c]) <= usim
  /\ \E n \in 1 .. MaxVectors :
       Begin(c, [Vectors(c, n) EXCEPT !.at = "write", !.resync = TRUE,
                                      !.auts = usim])
  /\ stock' = [stock EXCEPT ![c] = << >>]
  /\ synced' = synced \cup {c}
  /\ UNCHANGED <<row, mail, usim, issued, twice>>

\* The client drops vectors it has not used.
Discard(c) ==
  /\ Challenge(c)
  /\ stock' = [stock EXCEPT ![c] = << >>]
  /\ synced' = synced \ {c}
  /\ UNCHANGED <<row, call, mail, usim, issued, twice, cause, calls>>

Next ==
  \/ \E c \in Client :
       \/ Ask(c) \/ Read(c) \/ Resync(c) \/ Vector(c) \/ Fail(c)
       \/ Accept(c) \/ OutOfSync(c) \/ Discard(c)
  \/ \E s, t \in Site : Deliver(s, t) \/ Lose(s, t)

Spec == Init /\ [][Next]_vars

-----------------------------------------------------------------------------
(***************************************************************************)
(* Properties                                                              *)
(***************************************************************************)

\* Type invariant.
TypeOK ==
  /\ row \in [Site -> Nat]
  /\ call \in [Client -> Call]
  /\ mail \in [Site -> [Site -> Seq(Nat)]]
  /\ stock \in [Client -> Seq(Nat)]
  /\ usim \in Nat
  /\ synced \subseteq Client
  /\ issued \subseteq Nat
  /\ twice \subseteq issued
  /\ cause \subseteq Cause
  /\ calls \in Nat

\* Get_Vectors_AuC: no two vectors carry the same SQN, unless requests
\* overlapped (the row is read and written apart), a copy to another site
\* was lost, a resynchronisation moved the SQN back or a batch was asked for.
VectorsDistinct == cause = {} => twice = {}

\* Update_AuC and handleGeored: with nothing on its way, the sites hold the
\* same SQN unless requests overlapped or a copy was lost.
SitesAgree ==
  /\ \A c \in Client : ~Open(c)
  /\ \A s \in Site : ~Sending(s)
  /\ cause \cap {"overlap", "lost"} = {}
  => \A s, t \in Site : row[s] = row[t]

\* sqn_resync: after a resynchronisation the USIM accepts the client's next
\* vector, unless requests overlapped or another client's vector came first.
ResyncWorks ==
  \A c \in synced :
    stock[c] # << >> /\ "overlap" \notin cause => Head(stock[c]) > usim

=============================================================================
