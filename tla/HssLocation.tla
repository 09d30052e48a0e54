---------------------------- MODULE HssLocation ----------------------------
(***************************************************************************)
(* Where the HSS believes a subscriber is: the serving MME (ULR and PUR of *)
(* S6a) and the serving CSCF (SAR and UAR of Cx) in the subscriber's row.  *)
(* At every site the HSS worker and the API's threads update one database  *)
(* (Update_Serving_MME, Update_Serving_CSCF of database.py), in several    *)
(* steps and without a lock; georedService.py sends each update on to the  *)
(* API of every other site, which stores it in its own database.           *)
(*                                                                         *)
(* One subscriber: the rows of two are never read or written together.     *)
(* The MMEs, the S-CSCFs, the UE and the operator are external.            *)
(***************************************************************************)
EXTENDS Naturals, Sequences, FiniteSets

CONSTANTS
  Site,         \* HSS sites
  Worker,       \* the HSS workers (hssService.py)
  Api,          \* the threads of the API (apiService.py)
  SiteOf,       \* [Worker \cup Api -> Site]
  Mme, Cscf,
  None,         \* an empty column
  ClrSettings,  \* values of CancelLocationRequest_Enabled to consider
  MaxRequests,  \* bound: requests made
  MaxFaults     \* bound: copies or answers lost, workers or updates that fail

Thread == Worker \cup Api

ASSUME HssAssumption ==
  /\ Worker \cap Api = {}
  /\ SiteOf \in [Thread -> Site]
  /\ None \notin Site \cup Mme \cup Cscf
  /\ ClrSettings \subseteq BOOLEAN
  /\ MaxRequests \in Nat
  /\ MaxFaults \in Nat

\* The two parts of the row, each with its own update.
Part == {"mme", "scscf"}

\* serving_mme_peer, "<host>;<hss>": the MME's Diameter peer, and the site
\* it is connected to.  None for a peer stored without its HSS.
Peer == Mme \X (Site \cup {None})

ASSUME PeerAssumption == None \notin Peer

Row == [mme : Mme \cup {None}, peer : Peer \cup {None},
        scscf : Cscf \cup {None}]
EmptyRow == [mme |-> None, peer |-> None, scscf |-> None]

Columns(part) == IF part = "mme" THEN {"mme", "peer"} ELSE {"scscf"}

\* A handler: what it serves, the MME or CSCF or site it serves it for, the
\* part it updates, whether the CSCF is to follow, the values to store, the
\* row it has read.
Kind == {"ulr", "pur", "sar", "sar_dereg", "uar_dereg",  \* worker
         "push_clr", "deregister", "geored"}             \* API
Job == [at : {"idle", "check", "load", "commit", "reload", "copy", "answer"},
        kind : Kind, by : Mme \cup Cscf \cup Site \cup {None},
        part : Part, more : BOOLEAN, new : Row, seen : Row]

Idle == [at |-> "idle", kind |-> "geored", by |-> None, part |-> "mme",
         more |-> FALSE, new |-> EmptyRow, seen |-> EmptyRow]

Copy == [part : Part, row : Row]

\* What can have set the rows and the network apart.
Cause == {"overlap",  \* an update began during another of the same part, or
                      \* with one of another site still on its way
          "lost",     \* a copy did not reach a site, a worker died with its
                      \* request, the database failed
          "purge",    \* an MME purged a UE that is at another
          "frozen",   \* an update failed on a peer without its HSS
          "silent"}   \* the API cleared the row, whose MME or CSCF does not
                      \* learn of it

VARIABLES
  clr,      \* CancelLocationRequest_Enabled; never changes
  row,      \* [Site -> Row]
  job,      \* [Thread -> Job]
  mail,     \* [Site -> [Site -> Seq(Copy)]]: the queue geored, by destination
  clrMail,  \* [Site -> Seq(Mme)]: the queue asymmetric-geored
  held,     \* external: the MMEs that hold the subscriber
  ueAt,     \* external: the one it was accepted at last, None if that one
            \* has purged or cancelled it
  imsAt,    \* external: the CSCF it is registered at
  cause,    \* history: pairs of a part and a cause
  requests, \* how many requests have been made
  faults    \* how many things have gone wrong

external == <<held, ueAt, imsAt>>
vars == <<clr, row, job, mail, clrMail, external, cause, requests, faults>>

Init ==
  /\ clr \in ClrSettings
  /\ row = [s \in Site |-> EmptyRow]
  /\ job = [t \in Thread |-> Idle]
  /\ mail = [s \in Site |-> [r \in Site |-> << >>]]
  /\ clrMail = [s \in Site |-> << >>]
  /\ held = {}
  /\ ueAt = None
  /\ imsAt = None
  /\ cause = {}
  /\ requests = 0
  /\ faults = 0

-----------------------------------------------------------------------------
Fault == faults < MaxFaults /\ faults' = faults + 1

Busy(t) == job[t].at # "idle"
Parts(j) == {j.part} \cup (IF j.more THEN {"scscf"} ELSE {})
Updates(t, p) == Busy(t) /\ p \in Parts(job[t])
OnItsWay(s, p) ==
  \E r \in Site : \E i \in 1 .. Len(mail[s][r]) : mail[s][r][i].part = p

\* Would an update of part p that t begins now overlap with another?
Overlaps(t, p, kind) ==
  \/ \E u \in Thread \ {t} :
       /\ Updates(u, p)
       /\ SiteOf[u] = SiteOf[t] \/ (kind # "geored" /\ job[u].kind # "geored")
  \/ kind # "geored" /\ \E s \in Site \ {SiteOf[t]} : OnItsWay(s, p)

\* Thread t takes a request: j is the handler it runs.
Begin(t, j, why) ==
  /\ ~Busy(t)
  /\ job' = [job EXCEPT ![t] = j]
  /\ cause' = cause \cup why \cup
               {p \in Parts(j) : Overlaps(t, p, j.kind)} \X {"overlap"}

Request(t, j, why) ==
  /\ requests < MaxRequests
  /\ requests' = requests + 1
  /\ Begin(t, j, why)
  /\ UNCHANGED <<clr, row, mail, clrMail, faults>>

\* A handler that stores new in a part of the row, at once or after a look.
Handler(kind, by, at, part, new) ==
  [at |-> at, kind |-> kind, by |-> by, part |-> part, more |-> FALSE,
   new |-> new, seen |-> EmptyRow]

\* Mutant: the peer is stored without the site it is connected to.
ServedByHost(m, s) == [EmptyRow EXCEPT !.mme = m, !.peer = <<m, None>>]

\* The columns of a ULR: the peer is the MME's, or the first of its routes.
ServedBy(m, s) == [EmptyRow EXCEPT !.mme = m, !.peer = <<m, s>>]

\* S6a Update-Location-Request: the UE attaches at an MME (one that is refused
\* for the subscriber's rights changes nothing).
Ulr(t) ==
  /\ \E m \in Mme :
       Request(t, Handler("ulr", m, "load", "mme", ServedBy(m, SiteOf[t])),
               {})
  /\ UNCHANGED external

\* S6a Purge-UE-Request: an MME drops the UE; whose row it is is not checked.
Pur(t) ==
  /\ \E m \in held :
       /\ Request(t, Handler("pur", m, "load", "mme", EmptyRow),
                  IF ueAt = m THEN {} ELSE {<<"mme", "purge">>})
       /\ held' = held \ {m}
       /\ ueAt' = IF ueAt = m THEN None ELSE ueAt
  /\ UNCHANGED imsAt

\* Cx Server-Assignment-Request, (re-)registration.
Sar(t) ==
  /\ \E c \in Cscf :
       Request(t, Handler("sar", c, "load", "scscf",
                          [EmptyRow EXCEPT !.scscf = c]), {})
  /\ UNCHANGED external

\* Mutant: the CSCF on record is not looked at.
DeregisterUnchecked(c) ==
  Handler("sar_dereg", c, "load", "scscf", EmptyRow)

\* Any other assignment type: it is checked whose registration is cleared.
Deregistration(c) == Handler("sar_dereg", c, "check", "scscf", EmptyRow)

SarDereg(t) ==
  /\ \E c \in Cscf : /\ Request(t, Deregistration(c), {})
                     /\ imsAt' = IF imsAt = c THEN None ELSE imsAt
  /\ UNCHANGED <<held, ueAt>>

\* Cx User-Authorization-Request, deregistration: the UE asked for it.
UarDereg(t) ==
  /\ imsAt # None
  /\ Request(t, Handler("uar_dereg", None, "load", "scscf", EmptyRow), {})
  /\ imsAt' = None
  /\ UNCHANGED <<held, ueAt>>

\* CLRs reach the MMEs of told, those connected to this site.
Cancel(told) ==
  /\ held' = held \ told
  /\ ueAt' = IF ueAt \in told THEN None ELSE ueAt
  /\ UNCHANGED imsAt

Untold(told) ==
  IF ueAt \in {None} \cup told THEN {} ELSE {<<"mme", "silent">>}

\* PUT /push/clr: the operator cancels the subscriber at an MME, which is
\* sent a CLR; the row is cleared if it names that MME.
PushClr(t) ==
  \E m \in Mme : \E told \in SUBSET {m} :
    /\ Request(t, Handler("push_clr", m, "check", "mme", EmptyRow),
               IF ueAt = m THEN Untold(told) ELSE {})
    /\ Cancel(told)

\* GET /oam/deregister: a CLR to the MMEs, then both parts are cleared.  No
\* RTR goes out: its host is read from the SUBSCRIBER row, which has no
\* CSCF, and the request cannot be built without.
Deregister(t) ==
  \E told \in SUBSET Mme :
    /\ Request(t, [Handler("deregister", None, "load", "mme", EmptyRow)
                     EXCEPT !.more = TRUE],
               Untold(told) \cup
               IF imsAt = None THEN {} ELSE {<<"scscf", "silent">>})
    /\ Cancel(told)

-----------------------------------------------------------------------------
\* A handler that has updated what it had to: all that is left of it is its
\* answer, if somebody acts on it.
Finished(j) ==
  IF j.kind \in {"ulr", "sar", "geored"}
  THEN [j EXCEPT !.at = "answer", !.new = EmptyRow, !.seen = EmptyRow]
  ELSE Idle

\* The part is updated: on to the CSCF, or to the end.
Updated(t) ==
  job' = [job EXCEPT ![t] =
            IF @.more THEN [@ EXCEPT !.at = "load", !.part = "scscf",
                                     !.more = FALSE]
            ELSE Finished(@)]

\* Get_IMS_Subscriber or Get_Subscriber: does the row name whom the request
\* is about?  If not, it is answered without an update.
Check(t) ==
  /\ job[t].at = "check"
  /\ LET named == row[SiteOf[t]][job[t].part] = job[t].by
     IN  job' = [job EXCEPT ![t] = IF named THEN [@ EXCEPT !.at = "load"]
                                  ELSE Finished(@)]
  /\ UNCHANGED <<clr, row, mail, clrMail, external, cause, requests, faults>>

\* Update_Serving_MME evaluates a CLR before it stores anything.
EvaluatesClr(t) ==
  clr /\ job[t].part = "mme" /\ row[SiteOf[t]].mme # None

HssKnown(r) == r.peer # None /\ r.peer[2] # None

\* The row is read ...
Load(t) ==
  /\ job[t].at = "load"
  /\ ~EvaluatesClr(t)
  /\ job' = [job EXCEPT ![t].at = "commit", ![t].seen = row[SiteOf[t]]]
  /\ UNCHANGED <<clr, row, mail, clrMail, external, cause, requests, faults>>

\* ... and, with CLRs enabled, the old peer is taken apart into the variable
\* that held the new one; the CLR is queued for the old peer's HSS.
LoadClr(t) ==
  /\ job[t].at = "load"
  /\ EvaluatesClr(t)
  /\ LET old == row[SiteOf[t]]
         new == job[t].new
     IN  /\ HssKnown(old)
         /\ job' = [job EXCEPT ![t].at = "commit", ![t].seen = old,
                     ![t].new.peer =
                        IF new.mme = None THEN None ELSE <<old.peer[1], None>>]
         /\ clrMail' = IF old.mme = new.mme THEN clrMail
                       ELSE [clrMail EXCEPT ![SiteOf[t]] = Append(@, old.mme)]
  /\ UNCHANGED <<clr, row, mail, external, cause, requests, faults>>

\* The old peer has no HSS: the exception ends the update, not the handler.
LoadFails(t) ==
  /\ job[t].at = "load"
  /\ EvaluatesClr(t)
  /\ ~HssKnown(row[SiteOf[t]])
  /\ Updated(t)
  /\ cause' = cause \cup {<<"mme", "frozen">>}
  /\ UNCHANGED <<clr, row, mail, clrMail, external, requests, faults>>

\* Mutant: the whole row is written back as it was read.
StoredWhole(now, seen, new, part) ==
  LET put(c) == IF c \in Columns(part) THEN new[c] ELSE seen[c]
  IN  [mme |-> put("mme"), peer |-> put("peer"), scscf |-> put("scscf")]

\* The UPDATE writes the columns that differ from what was read.
Stored(now, seen, new, part) ==
  LET put(c) == IF c \in Columns(part) /\ new[c] # seen[c]
                THEN new[c] ELSE now[c]
  IN  [mme |-> put("mme"), peer |-> put("peer"), scscf |-> put("scscf")]

\* session.commit(); an update from another site goes no further.
Commit(t) ==
  /\ job[t].at = "commit"
  /\ LET s == SiteOf[t] IN
       row' = [row EXCEPT ![s] =
                 Stored(@, job[t].seen, job[t].new, job[t].part)]
  /\ job' = [job EXCEPT ![t] =
               IF @.kind = "geored" THEN Finished(@)
               ELSE [@ EXCEPT !.at = "reload", !.new = EmptyRow,
                              !.seen = EmptyRow]]
  /\ UNCHANGED <<clr, mail, clrMail, external, cause, requests, faults>>

\* The database fails.  Update_Serving_MME swallows the error, and the handler
\* goes on; Update_Serving_CSCF raises it, and the handler ends there.
CommitFails(t) ==
  /\ job[t].at = "commit"
  /\ Fault
  /\ IF job[t].part = "mme" THEN Updated(t)
     ELSE job' = [job EXCEPT ![t] = Idle]
  /\ cause' = cause \cup {<<job[t].part, "lost">>}
  /\ UNCHANGED <<clr, row, mail, clrMail, external, requests>>

\* The commit has expired the row: it is read again for the copy ...
Reload(t) ==
  /\ job[t].at = "reload"
  /\ job' = [job EXCEPT ![t].at = "copy", ![t].seen = row[SiteOf[t]]]
  /\ UNCHANGED <<clr, row, mail, clrMail, external, cause, requests, faults>>

\* Mutant: no copy.
QueueNone(s, part, r) == UNCHANGED mail

\* handleGeored: one message, which goes to every other site.
Queue(s, part, r) ==
  mail' = [mail EXCEPT ![s] =
             [q \in Site |-> IF q = s THEN @[q]
                             ELSE Append(@[q], [part |-> part, row |-> r])]]

\* ... which is queued; an error of the queue is swallowed.
QueueCopy(t) ==
  /\ job[t].at = "copy"
  /\ Updated(t)
  /\ \/ Queue(SiteOf[t], job[t].part, job[t].seen) /\ UNCHANGED cause
        /\ UNCHANGED faults
     \/ Fault /\ UNCHANGED mail
        /\ cause' = cause \cup {<<job[t].part, "lost">>}
  /\ UNCHANGED <<clr, row, clrMail, external, requests>>

Ends(t) == job[t].at = "answer" /\ job' = [job EXCEPT ![t] = Idle]

\* The answer is a success, whatever became of the update.
AnswerUlr(t) ==
  /\ job[t].kind = "ulr"
  /\ Ends(t)
  /\ held' = held \cup {job[t].by}
  /\ ueAt' = job[t].by
  /\ UNCHANGED <<clr, row, mail, clrMail, imsAt, cause, requests, faults>>

AnswerSar(t) ==
  /\ job[t].kind = "sar"
  /\ Ends(t)
  /\ imsAt' = job[t].by
  /\ UNCHANGED <<clr, row, mail, clrMail, held, ueAt, cause, requests, faults>>

\* A worker dies with its request.
Die(t) ==
  /\ Busy(t)
  /\ Fault
  /\ job' = [job EXCEPT ![t] = Idle]
  /\ cause' = cause \cup (Parts(job[t]) \X {"lost"})
  /\ UNCHANGED <<clr, row, mail, clrMail, external, requests>>

-----------------------------------------------------------------------------
\* georedService, one message of a queue after the other.
InHand(s, r) ==
  \E t \in Api : SiteOf[t] = r /\ job[t].kind = "geored" /\ job[t].by = s

\* PATCH /geored/ at site r with the next update of site s.
Deliver(t, s) ==
  LET r == SiteOf[t] IN
  /\ mail[s][r] # << >>
  /\ ~InHand(s, r)
  /\ LET copy == Head(mail[s][r]) IN
       Begin(t, Handler("geored", s, "load", copy.part, copy.row), {})
  /\ UNCHANGED <<clr, row, mail, clrMail, external, requests, faults>>

Pop(s, r) == mail' = [mail EXCEPT ![s][r] = Tail(@)]

\* The site answers; without its answer the update is sent once more.
Respond(t) ==
  /\ job[t].kind = "geored"
  /\ Ends(t)
  /\ \/ Pop(job[t].by, SiteOf[t]) /\ UNCHANGED faults
     \/ Fault /\ UNCHANGED mail
  /\ UNCHANGED <<clr, row, clrMail, external, cause, requests>>

\* sendGeored gives up after its third try, or the queue has expired.
GiveUp(s, r) ==
  /\ mail[s][r] # << >>
  /\ ~InHand(s, r)
  /\ Fault
  /\ Pop(s, r)
  /\ cause' = cause \cup {<<Head(mail[s][r]).part, "lost">>}
  /\ UNCHANGED <<clr, row, job, clrMail, external, requests>>

\* What handleGeored makes of a CLR: its default operation, and the fields
\* Update_Serving_MME puts into the body.
ClrMethod == "PATCH"
ClrFields == {"imsi", "DestinationRealm", "DestinationHost",
              "cancellationType", "diameterPeer"}

\* What /push/clr takes.
TakesClr ==
  /\ ClrMethod = "PUT"
  /\ {"DestinationRealm", "diameterPeer", "cancellationType",
      "immediateReattach"} \subseteq ClrFields

\* The CLR goes to the API of the old peer's HSS.
PostClr(s) ==
  /\ clrMail[s] # << >>
  /\ clrMail' = [clrMail EXCEPT ![s] = Tail(@)]
  /\ held' = IF TakesClr THEN held \ {Head(clrMail[s])} ELSE held
  /\ UNCHANGED <<clr, row, job, mail, ueAt, imsAt, cause, requests, faults>>

Update(t) ==
  \/ Check(t) \/ Load(t) \/ LoadClr(t) \/ LoadFails(t)
  \/ Commit(t) \/ CommitFails(t) \/ Reload(t) \/ QueueCopy(t)

Next ==
  \/ \E t \in Worker : \/ Ulr(t) \/ Pur(t)
                       \/ Sar(t) \/ SarDereg(t) \/ UarDereg(t)
                       \/ Update(t) \/ AnswerUlr(t) \/ AnswerSar(t) \/ Die(t)
  \/ \E t \in Api : \/ PushClr(t) \/ Deregister(t) \/ Update(t) \/ Respond(t)
                    \/ \E s \in Site : Deliver(t, s)
  \/ \E s \in Site : PostClr(s) \/ \E r \in Site : GiveUp(s, r)

Spec == Init /\ [][Next]_vars

-----------------------------------------------------------------------------
(***************************************************************************)
(* Properties                                                              *)
(***************************************************************************)

Excused(p, whys) == \E w \in whys : <<p, w>> \in cause

Quiet ==
  /\ \A t \in Thread : ~Busy(t)
  /\ \A s \in Site : clrMail[s] = << >> /\ \A r \in Site : mail[s][r] = << >>

\* Type invariant.
TypeOK ==
  /\ clr \in BOOLEAN
  /\ row \in [Site -> Row]
  /\ job \in [Thread -> Job]
  /\ mail \in [Site -> [Site -> Seq(Copy)]]
  /\ \A s \in Site : mail[s][s] = << >>
  /\ clrMail \in [Site -> Seq(Mme)]
  /\ held \subseteq Mme
  /\ ueAt \in held \cup {None}
  /\ imsAt \in Cscf \cup {None}
  /\ cause \subseteq Part \X Cause
  /\ requests \in Nat

\* serving_mme_peer (the schema's comment on it): a row that names an MME
\* names the peer that leads to it and the HSS that peer is connected to, and
\* no other row has a peer, unless updates overlapped or CLRs are enabled.
PeerOfMme ==
  ~clr /\ ~Excused("mme", {"overlap"}) =>
    \A s \in Site : IF row[s].mme = None THEN row[s].peer = None
                    ELSE HssKnown(row[s]) /\ row[s].peer[1] = row[s].mme

\* Answer_16777251_316 and 321, Answer_16777216_300 and 301: with nothing open
\* or on its way, every site has the MME that was told last that its update
\* was accepted, and the CSCF the subscriber is registered at, but for the
\* named causes of each.
Located ==
  Quiet => \A s \in Site :
    /\ ~Excused("mme", Cause) => row[s].mme = ueAt
    /\ ~Excused("scscf", Cause) => row[s].scscf = imsAt

\* handleGeored: with nothing open or on its way, the sites have the same
\* MME (and, with CLRs disabled, peer), and the same CSCF, unless updates of
\* that part overlapped, a copy was lost or the row of a site is frozen.
SitesAgree ==
  Quiet => \A p \in Part : ~Excused(p, {"overlap", "lost", "frozen"}) =>
    \A s, r \in Site : \A c \in Columns(p) \ (IF clr THEN {"peer"} ELSE {}) :
      row[s][c] = row[r][c]

\* Answer_16777216_301 and /push/clr: a deregistration by one CSCF, or a
\* cancellation at one MME, clears the row of no other, unless another
\* update came between the look and the commit.
ClearsOwn ==
  [][\A t \in Thread :
       /\ job[t].kind \in {"sar_dereg", "push_clr"}
       /\ job[t].at = "commit" /\ job'[t].at # "commit"
       /\ ~Excused(job[t].part, {"overlap"})
       => row[SiteOf[t]][job[t].part] = job[t].by]_vars

\* CancelLocationRequest_Enabled (config.yaml): with CLRs enabled, an MME
\* that holds a subscriber who is now at another has been sent a CLR.
OldMmeCancelled ==
  clr /\ Quiet /\ cause = {} => held \subseteq {ueAt}

=============================================================================
