----------------------------- MODULE ServingApn -----------------------------
(***************************************************************************)
(* The PDN connections of a subscriber as the PCRF knows them: the rows of *)
(* SERVING_APN, at every site.  A CCR-I of Gx stores one, a CCR-T removes  *)
(* it (Update_Serving_APN of database.py, many short transactions and no   *)
(* lock), georedService.py sends each on to the API of the other sites,    *)
(* and the operator's /oam/deregister removes them all.                    *)
(*                                                                         *)
(* One subscriber: the rows of two meet only where their PDN connections   *)
(* share an address, as those of two APNs do.  The PGWs, which number      *)
(* their sessions 1, 2, ... here, and the operator are external.           *)
(***************************************************************************)
EXTENDS Naturals, Sequences, FiniteSets, FiniteSetsExt

CONSTANTS
  Site,         \* HSS sites
  Worker,       \* the HSS workers (hssService.py)
  Api,          \* the threads of the API (apiService.py)
  SiteOf,       \* [Worker \cup Api -> Site]
  Apn,          \* the APNs that PGWs ask for
  Listed,       \* those of the subscriber's apn_list ...
  LastListed,   \* ... and the last of that list
  Ip,           \* addresses for the UE
  None,
  MaxRequests,  \* bound: requests made
  MaxFaults     \* bound: copies or answers lost, workers or updates that fail

Thread == Worker \cup Api

ASSUME ServingAssumption ==
  /\ Worker \cap Api = {}
  /\ SiteOf \in [Thread -> Site]
  /\ Listed \subseteq Apn
  /\ LastListed \in Listed
  /\ None \notin Site \cup Apn \cup Nat
  /\ MaxRequests \in Nat
  /\ MaxFaults \in Nat

Session == Nat \ {0}

\* A PDN connection at its PGW: begun, its CCR-I sent, accepted, gone.
Pdn == [apn : Apn, ip : Ip, at : {"new", "asked", "up", "over"}]

\* A row of SERVING_APN; its address is that of its session.
Row == [id : Nat, apn : Listed, s : Session]

\* A handler: what it does with the rows, for which session and APN, the
\* site it got a copy from, the rows still to remove as duplicates, the row
\* it has found, the APNs still to deregister.
Job == [at : {"idle", "scan", "prune", "check", "find", "update", "undo",
              "read", "create", "reread", "delete", "copy", "accept",
              "respond"},
        kind : {"set", "clear", "deregister"}, s : Session \cup {None},
        apn : Apn, from : Site \cup {None}, todo : SUBSET Nat, row : Nat,
        more : SUBSET Listed]

Copy == [kind : {"set", "clear", "deregister"}, s : Session \cup {None},
         apn : Apn]

\* What can have set the rows and the PGWs apart.
Cause == {"overlap",    \* two handlers at work on one APN or address
          "lost",       \* a copy did not arrive, a worker died with its
                        \* request, the database failed
          "unlisted",   \* a PGW asked for an APN the subscriber has not
          "deregister"} \* the operator removed rows

VARIABLES
  pdn,      \* external: the sessions of the PGWs
  current,  \* external: the session of an APN that was accepted last, unless
            \* it has ended or another APN has its address
  rows,     \* [Site -> SUBSET Row]
  job,      \* [Thread -> Job]
  mail,     \* [Site -> [Site -> Seq(Copy)]]: the queue geored, by destination
  cause,    \* history
  requests, \* how many requests have been made
  faults    \* how many things have gone wrong

vars == <<pdn, current, rows, job, mail, cause, requests, faults>>

Handler(at, kind, s, apn, from) ==
  [at |-> at, kind |-> kind, s |-> s, apn |-> apn, from |-> from,
   todo |-> {}, row |-> 0, more |-> {}]

Idle == Handler("idle", "set", None, LastListed, None)

Init ==
  /\ pdn = << >>
  /\ current = [a \in Listed |-> None]
  /\ rows = [h \in Site |-> {}]
  /\ job = [t \in Thread |-> Idle]
  /\ mail = [h \in Site |-> [g \in Site |-> << >>]]
  /\ cause = {}
  /\ requests = 0
  /\ faults = 0

-----------------------------------------------------------------------------
Fault == faults < MaxFaults /\ faults' = faults + 1
Busy(t) == job[t].at # "idle"

\* The APN whose row an APN gets: the loop over the list ends at the match,
\* or at the end of the list.
RowApn(apn) == IF apn \in Listed THEN apn ELSE LastListed

RowsOf(h, apn) == {x \in rows[h] : x.apn = apn}
HasRow(h, id) == \E x \in rows[h] : x.id = id
Without(h, id) == [rows EXCEPT ![h] = {x \in @ : x.id # id}]

\* What a handler or a copy may touch: APNs, and addresses (those of the
\* rows it replaces too, which another may take from it).
Apns(j) == IF j.kind = "deregister" THEN Listed ELSE {RowApn(j.apn)}
Ips(j) == (IF j.s = None THEN {} ELSE {pdn[j.s].ip})
          \cup {pdn[x.s].ip :
                  x \in UNION {RowsOf(h, a) : h \in Site, a \in Apns(j)}}

Conflict(j, k) == Apns(j) \cap Apns(k) # {} \/ Ips(j) \cap Ips(k) # {}

\* Does j, which t begins now, overlap with another?
Overlaps(t, j) ==
  \/ \E u \in Thread \ {t} :
       /\ Busy(u)
       /\ SiteOf[u] = SiteOf[t] \/ (j.from = None /\ job[u].from = None)
       /\ Conflict(j, job[u])
  \/ /\ j.from = None
     /\ \E h \in Site \ {SiteOf[t]}, g \in Site :
          \E i \in 1 .. Len(mail[h][g]) : Conflict(j, mail[h][g][i])

Begin(t, j, why) ==
  /\ ~Busy(t)
  /\ job' = [job EXCEPT ![t] = j]
  /\ cause' = cause \cup why \cup (IF Overlaps(t, j) THEN {"overlap"} ELSE {})

Request(t, j, why) ==
  /\ requests < MaxRequests
  /\ requests' = requests + 1
  /\ Begin(t, j, why)
  /\ UNCHANGED <<rows, mail, faults>>

\* The address is not that of another APN's connection.
Free(ip, apn) ==
  \A i \in 1 .. Len(pdn) :
    pdn[i].at # "over" /\ pdn[i].ip = ip => pdn[i].apn = apn

\* The UE connects to an APN, perhaps once more; a PGW gives it an address.
Attach ==
  /\ Len(pdn) < MaxRequests
  /\ \A i \in 1 .. Len(pdn) : pdn[i].at # "new"
  /\ \E apn \in Apn, ip \in Ip :
       /\ Free(ip, apn)
       /\ pdn' = Append(pdn, [apn |-> apn, ip |-> ip, at |-> "new"])
  /\ UNCHANGED <<current, rows, job, mail, cause, requests, faults>>

\* The UE is gone, and no PGW tells.
Detach ==
  /\ \E s \in 1 .. Len(pdn) :
       pdn[s].at = "up" /\ pdn' = [pdn EXCEPT ![s].at = "over"]
  /\ UNCHANGED <<current, rows, job, mail, cause, requests, faults>>

\* CCR-I of Gx (a CCR-U changes no row).
CcrI(t) ==
  \E s \in 1 .. Len(pdn) :
    /\ pdn[s].at = "new"
    /\ Request(t, Handler("scan", "set", s, pdn[s].apn, None),
               IF pdn[s].apn \in Listed THEN {} ELSE {"unlisted"})
    /\ pdn' = [pdn EXCEPT ![s].at = "asked"]
    /\ UNCHANGED current

\* Mutant: whatever session the row is of, it is removed.
TerminateUnchecked(s, apn, from) == Handler("find", "clear", s, apn, from)

\* A termination: it is checked first whose row there is.
Terminate(s, apn, from) == Handler("check", "clear", s, apn, from)

\* CCR-T of Gx: the PGW has ended the session.
CcrT(t) ==
  \E s \in 1 .. Len(pdn) :
    /\ pdn[s].at = "up"
    /\ Request(t, Terminate(s, pdn[s].apn, None), {})
    /\ pdn' = [pdn EXCEPT ![s].at = "over"]
    /\ current' = [a \in Listed |-> IF current[a] = s THEN None
                                    ELSE current[a]]

\* The loop over the APNs of the list takes one after the other.
NextApn(apns) == CHOOSE a \in apns : TRUE

\* GET /oam/deregister: the rows of all APNs.  No CCR-T goes to a PGW: the
\* name of the PGW is never put into the variable that is tested.
Deregister(t) ==
  /\ LET a == NextApn(Listed)
     IN  Request(t, [Handler("find", "deregister", None, a, None)
                       EXCEPT !.more = Listed \ {a}], {"deregister"})
  /\ UNCHANGED <<pdn, current>>

-----------------------------------------------------------------------------
Goes(t, at) == job' = [job EXCEPT ![t].at = at]
Found(t, at, id) == job' = [job EXCEPT ![t].at = at, ![t].row = id]
Reads == UNCHANGED <<pdn, current, rows, mail, cause, requests, faults>>
Writes == UNCHANGED <<pdn, current, mail, cause, requests, faults>>

\* Get_Serving_APN: the first row of the APN, 0 if there is none.
FirstRow(h, apn) ==
  IF RowsOf(h, apn) = {} THEN 0 ELSE Min({x.id : x \in RowsOf(h, apn)})

\* A handler has nothing left to do, or has failed: a copy is answered.
Over(j) == IF j.from = None THEN Idle
           ELSE [Idle EXCEPT !.at = "respond", !.from = j.from]
Ends(t) == job' = [job EXCEPT ![t] = Over(@)]

\* Whose row is it?  Somebody else's, or none (which raises): nothing is done.
Check(t) ==
  /\ job[t].at = "check"
  /\ LET h    == SiteOf[t]
         mine == /\ job[t].apn \in Listed
                 /\ \E x \in rows[h] : /\ x.id = FirstRow(h, job[t].apn)
                                       /\ x.s = job[t].s
     IN  IF mine THEN Goes(t, "find") ELSE Ends(t)
  /\ Reads

\* Mutant: the rows of other APNs are not looked at.
DuplicatesOfApn(h, j) ==
  {x \in RowsOf(h, RowApn(j.apn)) : pdn[x.s].ip = pdn[j.s].ip}

\* A UE has one address for each connection, and an address one UE: rows with
\* the address are left over from UEs that were not reported gone.
Duplicates(h, j) == {x \in rows[h] : pdn[x.s].ip = pdn[j.s].ip}

Scan(t) ==
  /\ job[t].at = "scan"
  /\ job' = [job EXCEPT ![t].at = "prune",
               ![t].todo = {x.id : x \in Duplicates(SiteOf[t], job[t])}]
  /\ Reads

\* DeleteObj, one after the other; a row that is gone already ends it.
Prune(t) ==
  /\ job[t].at = "prune"
  /\ job[t].todo # {}
  /\ LET h  == SiteOf[t]
         id == Min(job[t].todo)
     IN  /\ rows' = Without(h, id)
         /\ IF HasRow(h, id)
            THEN job' = [job EXCEPT ![t].todo = @ \ {id}]
            ELSE job' = [job EXCEPT ![t].todo = {}]
  /\ Writes

\* Is there a row of the APN to replace, or to remove?
Find(t) ==
  /\ job[t].at = "find" \/ (job[t].at = "prune" /\ job[t].todo = {})
  /\ LET id == FirstRow(SiteOf[t], RowApn(job[t].apn))
     IN  IF job[t].kind = "set"
         THEN Found(t, IF id = 0 THEN "create" ELSE "update", id)
         ELSE Found(t, IF id = 0 THEN "copy" ELSE "delete", id)
  /\ Reads

\* Mutant: the row gets the APN asked for, listed or not.
NewAsAsked(j, id) == [id |-> id, apn |-> j.apn, s |-> j.s]

New(j, id) == [id |-> id, apn |-> RowApn(j.apn), s |-> j.s]

\* UpdateObj; where the row is gone by now one is created.
UpdateRow(t) ==
  /\ job[t].at = "update"
  /\ LET h  == SiteOf[t]
         id == job[t].row
     IN  IF HasRow(h, id)
         THEN /\ rows' = [Without(h, id) EXCEPT
                            ![h] = @ \cup {New(job[t], id)}]
              /\ Goes(t, "read")
         ELSE UNCHANGED rows /\ Goes(t, "create")
  /\ Writes

\* The update has failed: the row is removed.
Undo(t) ==
  /\ job[t].at = "undo"
  /\ rows' = Without(SiteOf[t], job[t].row)
  /\ Goes(t, IF HasRow(SiteOf[t], job[t].row) THEN "copy" ELSE "create")
  /\ Writes

\* The row is read back for the webhook; if it is gone one is created.
Read(t) ==
  /\ job[t].at = "read"
  /\ Goes(t, IF HasRow(SiteOf[t], job[t].row) THEN "copy" ELSE "create")
  /\ Reads

\* CreateObj: the database takes the number after the greatest there is.
Create(t) ==
  /\ job[t].at = "create"
  /\ LET h  == SiteOf[t]
         id == 1 + Max({0} \cup {x.id : x \in rows[h]})
     IN  rows' = [rows EXCEPT ![h] = @ \cup {New(job[t], id)}]
  /\ Goes(t, "reread")
  /\ Writes

\* The new row is looked up; without it the handler fails.
Reread(t) ==
  /\ job[t].at = "reread"
  /\ IF RowsOf(SiteOf[t], RowApn(job[t].apn)) = {}
     THEN Ends(t) ELSE Goes(t, "copy")
  /\ Reads

\* DeleteObj of the row found; that it is gone already is of no concern.
Delete(t) ==
  /\ job[t].at = "delete"
  /\ rows' = Without(SiteOf[t], job[t].row)
  /\ Goes(t, "copy")
  /\ Writes

\* After the copy: the answer, the next APN, or the end.
Copied(j) ==
  CASE j.kind = "set" /\ j.from = None -> [j EXCEPT !.at = "accept", !.row = 0]
    [] j.kind = "deregister" /\ j.more # {} ->
         LET a == NextApn(j.more)
         IN  [j EXCEPT !.at = "find", !.apn = a, !.more = @ \ {a}, !.row = 0]
    [] OTHER -> Over(j)

\* Mutant: only what is stored is copied, not what is removed.
QueueSets(h, j) ==
  mail' = IF j.from # None \/ j.kind # "set" THEN mail
          ELSE [mail EXCEPT ![h] = [g \in Site |->
             IF g = h THEN @[g]
             ELSE Append(@[g], [kind |-> j.kind, s |-> j.s, apn |-> j.apn])]]

\* handleGeored; a copy that came from another site goes no further.
Queue(h, j) ==
  mail' = IF j.from # None THEN mail
          ELSE [mail EXCEPT ![h] = [g \in Site |->
             IF g = h THEN @[g]
             ELSE Append(@[g], [kind |-> j.kind, s |-> j.s, apn |-> j.apn])]]

QueueCopy(t) ==
  /\ job[t].at = "copy"
  /\ Queue(SiteOf[t], job[t])
  /\ job' = [job EXCEPT ![t] = Copied(@)]
  /\ UNCHANGED <<pdn, current, rows, cause, requests, faults>>

\* CCA: the PGW has a session, and the address is no other's.
Accept(t) ==
  /\ job[t].at = "accept"
  /\ LET s  == job[t].s
         ip == pdn[s].ip
     IN  /\ pdn' = [pdn EXCEPT ![s].at = "up"]
         /\ current' = [a \in Listed |->
                          IF a = pdn[s].apn THEN s
                          ELSE IF current[a] # None /\ pdn[current[a]].ip = ip
                               THEN None ELSE current[a]]
  /\ Ends(t)
  /\ UNCHANGED <<rows, mail, cause, requests, faults>>

-----------------------------------------------------------------------------
\* The database fails.  An error in the search for duplicates is passed over,
\* one in the update undoes it, one in the deletion is passed over, ...
AfterFailure == [scan |-> "find", prune |-> "find", update |-> "undo",
                 undo |-> "create", delete |-> "copy"]

Fails(t) ==
  /\ job[t].at \in DOMAIN AfterFailure
  /\ Fault
  /\ job' = [job EXCEPT ![t].at = AfterFailure[@], ![t].todo = {}]
  /\ cause' = cause \cup {"lost"}
  /\ UNCHANGED <<pdn, current, rows, mail, requests>>

\* ... and one in the insertion, or in the look for whose row it is, ends the
\* handler, as does one in clearing the CSCFs before the row of the IMS APN.
\* A worker that dies ends it too.
Dies(t) ==
  /\ Busy(t)
  /\ job[t].from = None
  /\ Fault
  /\ job' = [job EXCEPT ![t] = Idle]
  /\ pdn' = IF job[t].kind = "set" THEN [pdn EXCEPT ![job[t].s].at = "over"]
            ELSE pdn
  /\ cause' = cause \cup {"lost"}
  /\ UNCHANGED <<current, rows, mail, requests>>

InHand(h, g) == \E t \in Api : SiteOf[t] = g /\ Busy(t) /\ job[t].from = h

\* PATCH /geored/: a deregistration names no session, and is like a
\* termination of a session there is not.
Received(c, h) ==
  IF c.kind = "set" THEN Handler("scan", "set", c.s, c.apn, h)
  ELSE Terminate(c.s, c.apn, h)

Deliver(t, h) ==
  LET g == SiteOf[t] IN
  /\ mail[h][g] # << >>
  /\ ~InHand(h, g)
  /\ Begin(t, Received(Head(mail[h][g]), h), {})
  /\ UNCHANGED <<pdn, current, rows, mail, requests, faults>>

Pop(h, g) == mail' = [mail EXCEPT ![h][g] = Tail(@)]

\* The site answers; without its answer the copy is sent once more.
Respond(t) ==
  /\ job[t].at = "respond"
  /\ job' = [job EXCEPT ![t] = Idle]
  /\ \/ Pop(job[t].from, SiteOf[t]) /\ UNCHANGED faults
     \/ Fault /\ UNCHANGED mail
  /\ UNCHANGED <<pdn, current, rows, cause, requests>>

\* sendGeored gives up after its third try, or the queue has expired.
GiveUp(h, g) ==
  /\ mail[h][g] # << >>
  /\ ~InHand(h, g)
  /\ Fault
  /\ Pop(h, g)
  /\ cause' = cause \cup {"lost"}
  /\ UNCHANGED <<pdn, current, rows, job, requests>>

Store(t) ==
  \/ Check(t) \/ Scan(t) \/ Prune(t) \/ Find(t) \/ UpdateRow(t) \/ Undo(t)
  \/ Read(t) \/ Create(t) \/ Reread(t) \/ Delete(t) \/ QueueCopy(t) \/ Fails(t)

Next ==
  \/ Attach \/ Detach
  \/ \E t \in Worker : CcrI(t) \/ CcrT(t) \/ Store(t) \/ Accept(t) \/ Dies(t)
  \/ \E t \in Api : \/ Deregister(t) \/ Store(t) \/ Dies(t) \/ Respond(t)
                    \/ \E h \in Site : Deliver(t, h)
  \/ \E h, g \in Site : GiveUp(h, g)

Spec == Init /\ [][Next]_vars

-----------------------------------------------------------------------------
(***************************************************************************)
(* Properties                                                              *)
(***************************************************************************)

Quiet ==
  /\ \A t \in Thread : ~Busy(t)
  /\ \A h, g \in Site : mail[h][g] = << >>

\* Type invariant.
TypeOK ==
  /\ pdn \in Seq(Pdn)
  /\ current \in [Listed -> Session \cup {None}]
  /\ rows \in [Site -> SUBSET Row]
  /\ job \in [Thread -> Job]
  /\ mail \in [Site -> [Site -> Seq(Copy)]]
  /\ cause \subseteq Cause
  /\ requests \in Nat
  /\ faults \in Nat

\* Update_Serving_APN (its docstring): a UE has one address for each PDN
\* connection, and duplicates are kept out of the database: no site has two
\* rows of one APN, or two with one address, unless handlers overlapped or
\* the database failed.
NoDuplicates ==
  cause \cap {"overlap", "lost"} = {} =>
    \A h \in Site : \A x, y \in rows[h] :
      x.apn = y.apn \/ pdn[x.s].ip = pdn[y.s].ip => x = y

\* Answer_16777238_272 and handleGeored: with nothing open or on its way,
\* every site has a row for just the sessions that PGWs were told last that
\* they are accepted, but for the named causes.
RowsFollow ==
  Quiet /\ cause = {} =>
    \A h \in Site : \A a \in Listed :
      {x.s : x \in RowsOf(h, a)} = {current[a]} \ {None}

\* Answer_16777238_272, and PATCH /geored/: a CCR-T that comes late, or its
\* copy, removes the row of no other session, unless another handler came
\* between the look and the deletion.
ClearsOwn ==
  [][\A t \in Thread :
       /\ job[t].kind = "clear" /\ job[t].at = "delete"
       /\ "overlap" \notin cause
       => \A x \in rows[SiteOf[t]] :
            x \in rows'[SiteOf[t]] \/ x.s = job[t].s
               \/ job'[t].at = "delete"]_vars

=============================================================================
