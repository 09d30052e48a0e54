----------------------------- MODULE Emergency -----------------------------
(***************************************************************************)
(* Emergency subscribers: UEs that the HSS does not know and that connect  *)
(* to the APN sos.  The CCR-I of Gx stores a row for the UE, its CCR-T     *)
(* removes it; an AAR of Rx finds the row by the UE's address, notes the   *)
(* call in it and has the PGW install a bearer, and the STR finds the row  *)
(* by the call.  After every answer a worker sweeps out the rows that have *)
(* expired.  Each change is sent on to the other sites (diameter.py,       *)
(* Update_ and Delete_Emergency_Subscriber of database.py).                *)
(*                                                                         *)
(* A UE has its own IMSI: one that sends none makes the handler fail.  Its *)
(* call does not come from a subscriber with IMS.  PGWs (which number the  *)
(* sessions 1, 2, ... here), P-CSCF, the network and the clock are         *)
(* external; how a worker waits for a RAA is in module RxCalls, here it    *)
(* comes or not.                                                           *)
(***************************************************************************)
EXTENDS Naturals, Sequences, FiniteSets, FiniteSetsExt

CONSTANTS
  Ue,           \* UEs, by their IMSI
  Ip,           \* addresses of the APN sos
  Call,         \* Rx sessions
  Site,         \* HSS sites
  Worker,       \* the HSS workers
  Api,          \* the threads of the API
  SiteOf,       \* [Worker \cup Api -> Site]
  None,
  MaxClock,     \* bound: the time, in lifetimes of a row
  MaxRequests,  \* bound: requests made, and UEs gone without one
  MaxFaults     \* bound: copies lost, workers, database calls or RARs that
                \* fail

Thread == Worker \cup Api

ASSUME EmergencyAssumption ==
  /\ Worker \cap Api = {}
  /\ SiteOf \in [Thread -> Site]
  /\ None \notin Ue \cup Ip \cup Call \cup Site \cup Nat
  /\ MaxClock \in Nat
  /\ MaxRequests \in Nat
  /\ MaxFaults \in Nat

Session == Nat \ {0}

\* A session at its PGW: its CCR-I sent, accepted, gone.
Pdn == [ue : Ue, ip : Ip, at : {"asked", "up", "over"}]

\* At the PGW of a session, for a call: a bearer, one that was installed late,
\* or a RAR that nobody waits for any more, to install or remove the bearer.
Bearer == Session \X Call \X {"up", "late", "install", "remove"}

\* The columns of EMERGENCY_SUBSCRIBER: imsi, serving_pgw (the Gx session),
\* ip, serving_pgw_timestamp, serving_pcscf (the Rx session).
Columns == [ue : Ue \cup {None}, s : Session \cup {None}, ip : Ip \cup {None},
            stamp : Nat, rx : Call \cup {None}]

Row == [id : Nat, cols : Columns]

\* A handler: what it is to store or remove, for which call, the site it got
\* a copy from, the row it has loaded, the rows to sweep, its result.
Job == [at : {"idle", "get", "find", "commit", "delete", "copy", "send",
              "answer", "list", "sweep", "respond"},
        kind : {"set", "clear", "call", "str", "sweep"},
        cols : Columns, c : Call \cup {None}, from : Site \cup {None},
        old : Row, todo : SUBSET Row, ok : BOOLEAN]

Copy == [kind : {"set", "clear"}, cols : Columns]

\* Why rows, PGWs and calls may be apart.
Cause == {"overlap",  \* two handlers at work on one UE or address
          "lost",     \* a copy was lost, a worker died, the database failed
          "late",     \* a CCR-T came after the UE had a newer session
          "reused",   \* a UE has the address of a row of another
          "expired",  \* a row was swept while its session was in use
          "second",   \* a second call of one UE
          "anew"}     \* a UE connected anew during its call

VARIABLES
  pdn,      \* external: the sessions of the PGWs
  current,  \* external: [Ue -> the session accepted last, till its CCR-T]
  call,     \* external: [Call -> its session and what the P-CSCF thinks]
  bearers,  \* external: the bearers at the PGWs, and RARs they may yet get
  clock,    \* external: the time
  rows,     \* [Site -> SUBSET Row]
  job,      \* [Thread -> Job]
  mail,     \* [Site -> [Site -> Seq(Copy)]]: the queue geored, by destination
  cause,    \* history
  requests, \* how many requests have been made, and UEs gone without one
  faults    \* how many things have gone wrong

outside == <<pdn, current, call, bearers>>
vars == <<outside, clock, rows, job, mail, cause, requests, faults>>

Nothing == [ue |-> None, s |-> None, ip |-> None, stamp |-> 0, rx |-> None]
NoRow == [id |-> 0, cols |-> Nothing]

Handler(at, kind, cols, c, from) ==
  [at |-> at, kind |-> kind, cols |-> cols, c |-> c, from |-> from,
   old |-> NoRow, todo |-> {}, ok |-> TRUE]

Idle == Handler("idle", "set", Nothing, None, None)

Init ==
  /\ pdn = << >>
  /\ current = [u \in Ue |-> None]
  /\ call = [c \in Call |-> [s |-> None, at |-> "new"]]
  /\ bearers = {}
  /\ clock = 0
  /\ rows = [h \in Site |-> {}]
  /\ job = [t \in Thread |-> Idle]
  /\ mail = [h \in Site |-> [g \in Site |-> << >>]]
  /\ cause = {}
  /\ requests = 0
  /\ faults = 0

-----------------------------------------------------------------------------
Fault == faults < MaxFaults /\ faults' = faults + 1
Busy(t) == job[t].at # "idle"

\* The columns that a CCR-I fills in.
Filled(s, u, ip) ==
  [ue |-> u, s |-> s, ip |-> ip, stamp |-> clock, rx |-> None]

\* What a request on a session is about.
About(s) == Filled(s, pdn[s].ue, pdn[s].ip)

\* The UEs and addresses that a handler is about; a sweep, those of its rows.
Keys(j) == {<<k.ue, k.ip>> :
              k \in {j.cols} \cup {x.cols : x \in j.todo \cup {j.old}}}

Conflict(K, L) == \E k \in K, l \in L : \/ k[1] = l[1] /\ k[1] # None
                                        \/ k[2] = l[2] /\ k[2] # None

\* Is t, now at work on K, at odds with another thread, or with a copy that
\* is not yet stored everywhere?
Overlaps(t, K, from) ==
  \/ \E u \in Thread \ {t} :
       /\ Busy(u)
       /\ SiteOf[u] = SiteOf[t] \/ (from = None /\ job[u].from = None)
       /\ Conflict(K, Keys(job[u]))
  \/ /\ from = None
     /\ \E h \in Site \ {SiteOf[t]}, g \in Site :
          \E i \in 1 .. Len(mail[h][g]) :
            LET c == mail[h][g][i].cols IN Conflict(K, {<<c.ue, c.ip>>})

Blame(why) == cause' = cause \cup why
OverlapOf(t, K, from) == IF Overlaps(t, K, from) THEN {"overlap"} ELSE {}

Begin(t, j, why) ==
  /\ ~Busy(t)
  /\ job' = [job EXCEPT ![t] = j]
  /\ Blame(why \cup OverlapOf(t, Keys(j), j.from))

Request(t, j, why) ==
  /\ requests < MaxRequests
  /\ requests' = requests + 1
  /\ Begin(t, j, why)
  /\ UNCHANGED <<clock, rows, mail, faults>>

\* The address is no other UE's.
Free(ip, u) == \A i \in 1 .. Len(pdn) :
                 pdn[i].at # "over" /\ pdn[i].ip = ip => pdn[i].ue = u

\* The calls of a UE that are on.
Calls(u) == {c \in Call : /\ call[c].at \notin {"new", "over"}
                          /\ pdn[call[c].s].ue = u}

Ended(s) == /\ pdn' = [pdn EXCEPT ![s].at = "over"]
            /\ bearers' = {b \in bearers : b[1] # s}

\* The UE is gone, and no PGW tells.
Detach ==
  /\ requests < MaxRequests
  /\ requests' = requests + 1
  /\ \E s \in 1 .. Len(pdn) : pdn[s].at = "up" /\ Ended(s)
  /\ UNCHANGED <<current, call, clock, rows, job, mail, cause, faults>>

Tick ==
  /\ clock < MaxClock
  /\ clock' = clock + 1
  /\ UNCHANGED <<outside, rows, job, mail, cause, requests, faults>>

\* CCR-I for the APN sos, of an IMSI that is not a subscriber's: a UE
\* connects, perhaps anew, and a PGW gives it an address.
CcrI(t) ==
  \E u \in Ue, ip \in Ip :
    LET s == Len(pdn) + 1 IN
    /\ Free(ip, u)
    /\ Request(t, Handler("find", "set", Filled(s, u, ip), None, None),
               (IF \E h \in Site : \E x \in rows[h] :
                     x.cols.ip = ip /\ x.cols.ue # u
                THEN {"reused"} ELSE {})
               \cup (IF Calls(u) # {} THEN {"anew"} ELSE {}))
    /\ pdn' = Append(pdn, [ue |-> u, ip |-> ip, at |-> "asked"])
    /\ UNCHANGED <<current, call, bearers>>

\* CCR-T: whose row it is, is known by the IMSI.
CcrT(t) ==
  \E s \in 1 .. Len(pdn) :
    /\ pdn[s].at = "up"
    /\ LET u == pdn[s].ue IN
         /\ Request(t, Handler("find", "clear", About(s), None, None),
                    IF current[u] \in {s, None} THEN {} ELSE {"late"})
         /\ current' = [current EXCEPT ![u] = IF @ = s THEN None ELSE @]
    /\ Ended(s)
    /\ UNCHANGED call

\* AAR: a call of a UE begins, or changes.
Aar(t) ==
  \E u \in Ue, c \in Call :
    LET s == current[u] IN
    /\ s # None
    /\ pdn[s].at = "up"
    /\ call[c] \in {[s |-> None, at |-> "new"], [s |-> s, at |-> "up"]}
    /\ Request(t, Handler("get", "call", About(s), c, None),
               IF Calls(u) \ {c} # {} THEN {"second"} ELSE {})
    /\ call' = [call EXCEPT ![c] = [s |-> s, at |-> "asked"]]
    /\ UNCHANGED <<pdn, current, bearers>>

\* STR: a call is over.
Str(t) ==
  \E c \in Call :
    /\ call[c].at \in {"asked", "up", "refused"}
    /\ Request(t, Handler("get", "str", About(call[c].s), c, None), {})
    /\ call' = [call EXCEPT ![c].at = "ending"]
    /\ UNCHANGED <<pdn, current, bearers>>

-----------------------------------------------------------------------------
Becomes(t, j) == job' = [job EXCEPT ![t] = j]
Goes(t, at) == job' = [job EXCEPT ![t].at = at]
Reads == UNCHANGED <<outside, clock, rows, mail, cause, requests, faults>>

\* With the row that it loads a handler may come to be at odds with others.
Loads(t, j) ==
  /\ Becomes(t, j)
  /\ Blame(OverlapOf(t, Keys(j), j.from))
  /\ UNCHANGED <<outside, clock, rows, mail, requests, faults>>

Writes == UNCHANGED <<outside, clock, mail, cause, requests, faults>>

\* The first of some rows.
First(X) == IF X = {} THEN NoRow
            ELSE CHOOSE x \in X : \A y \in X : x.id <= y.id

ById(h, id) == {x \in rows[h] : x.id = id}

\* Where a handler goes when the database is done with.
After(j) == IF j.from # None THEN "respond"
            ELSE CASE j.kind = "call" -> "send"
                   [] j.kind = "sweep" -> "sweep"
                   [] OTHER -> "answer"

\* Mutant: the first row there is.
CallerAny(h, j) == rows[h]

\* Get_Emergency_Subscriber: a call is known by the address it comes from,
\* and, when it ends, by the call the row names.
Caller(h, j) == {x \in rows[h] : IF j.kind = "call" THEN x.cols.ip = j.cols.ip
                                 ELSE x.cols.rx = j.c}

\* What the row holds is kept for the RAR, and an AAR stores it again.
Get(t) ==
  /\ job[t].at = "get"
  /\ LET j == job[t]
         x == First(Caller(SiteOf[t], j))
     IN  Loads(t, IF x = NoRow
                  THEN [j EXCEPT !.at = "answer", !.ok = j.kind = "str"]
                  ELSE IF j.kind = "call"
                  THEN [j EXCEPT !.at = "find",
                                 !.cols = [x.cols EXCEPT !.rx = j.c]]
                  ELSE [j EXCEPT !.at = "send", !.cols = x.cols])

\* Mutant: a row is looked for by its address whether there is an IMSI or not.
SoughtByIp(h, j) == {x \in rows[h] : x.cols.ip = j.cols.ip}

\* With an IMSI a row is looked for by the IMSI, and by that only; the AAR
\* has none and looks by address.
Sought(h, j) ==
  IF j.kind = "call" THEN {x \in rows[h] : x.cols.ip = j.cols.ip}
  ELSE {x \in rows[h] : x.cols.ue = j.cols.ue}

\* The search for rows with the same address never succeeds: it asks a query
\* for its length, which raises, and that is passed over.
Find(t) ==
  /\ job[t].at = "find"
  /\ LET j == job[t]
         x == First(Sought(SiteOf[t], j))
     IN  Loads(t, [j EXCEPT !.old = x,
                     !.at = IF j.kind # "clear" THEN "commit"
                            ELSE IF x = NoRow THEN After(j) ELSE "delete"])

\* Only the columns that have changed since they were loaded are written.
Merged(cols, old, new) ==
  [f \in DOMAIN cols |-> IF new[f] = old[f] THEN cols[f] ELSE new[f]]

\* Update_Emergency_Subscriber: the row is written, or a new one is if none
\* was found; if it is gone by now that raises, and is passed over.
Commit(t) ==
  /\ job[t].at = "commit"
  /\ LET h == SiteOf[t]
         j == job[t]
         stored == IF j.from = None THEN "copy" ELSE "respond"
         id == 1 + Max({0} \cup {x.id : x \in rows[h]})
     IN  IF j.old = NoRow
         THEN /\ rows' = [rows EXCEPT ![h] =
                            @ \cup {[id |-> id, cols |-> j.cols]}]
              /\ Becomes(t, [j EXCEPT !.old.id = id, !.at = stored])
         ELSE IF ById(h, j.old.id) = {}
         THEN Goes(t, After(j)) /\ UNCHANGED rows
         ELSE /\ rows' = [rows EXCEPT ![h] =
                            {IF x.id # j.old.id THEN x
                             ELSE [x EXCEPT !.cols =
                                     Merged(@, j.old.cols, j.cols)] : x \in @}]
              /\ Goes(t, stored)
  /\ Writes

\* Delete_Emergency_Subscriber; that the row is gone is of no concern.
Delete(t) ==
  /\ job[t].at = "delete"
  /\ rows' = [rows EXCEPT ![SiteOf[t]] = {x \in @ : x.id # job[t].old.id}]
  /\ Goes(t, IF job[t].from = None THEN "copy" ELSE "respond")
  /\ Writes

\* Mutant: a copy says what made the change, not what it is.
CopyOfKind(h, j) == <<[kind |-> j.kind, cols |-> j.cols]>>

\* The copy: of a removal, the IMSI and address of the row; of a change, what
\* was to be stored, if the row can be read back for its number.
CopyOf(h, j) ==
  CASE j.kind \in {"clear", "sweep"} ->
         <<[kind |-> "clear", cols |-> j.old.cols]>>
    [] j.kind \in {"set", "call"} /\ ById(h, j.old.id) = {} -> << >>
    [] OTHER -> <<[kind |-> "set", cols |-> j.cols]>>

\* handleGeored.
QueueCopy(t) ==
  /\ job[t].at = "copy"
  /\ LET h == SiteOf[t] IN
       mail' = [mail EXCEPT ![h] = [g \in Site |->
                  IF g = h THEN @[g] ELSE @[g] \o CopyOf(h, job[t])]]
  /\ Goes(t, After(job[t]))
  /\ UNCHANGED <<outside, clock, rows, cause, requests, faults>>

\* Mutant: the rule of a call that ends is not removed.
BearerAsked(j) == IF pdn[j.cols.s].at # "up" THEN bearers
                  ELSE bearers \cup {<<j.cols.s, j.c, "up">>}

\* A RAR on the Gx session that the row names: the PGW installs the bearer
\* of the call or removes it, if it has the session.
BearerAfter(j) ==
  CASE j.kind = "str" ->
         bearers \ {<<j.cols.s, j.c, "up">>, <<j.cols.s, j.c, "late">>}
    [] j.kind = "call" /\ pdn[j.cols.s].at = "up" ->
         bearers \cup {<<j.cols.s, j.c, "up">>}
    [] OTHER -> bearers

Answered(j, ok) == [j EXCEPT !.at = "answer", !.ok = ok]

Send(t) ==
  /\ job[t].at = "send"
  /\ bearers' = BearerAfter(job[t])
  /\ Becomes(t, Answered(job[t], pdn[job[t].cols.s].at = "up"))
  /\ UNCHANGED <<pdn, current, call, clock, rows, mail, cause, requests,
                 faults>>

\* A RAR on its way for which nobody waits.  One to install a bearer does so
\* if the PGW has the session; one to remove it, if there is or will be one.
OnItsWay(j) ==
  LET s == j.cols.s
  IN  IF j.kind = "call"
      THEN {r \in {<<s, j.c, "install">>} : pdn[s].at = "up"}
      ELSE {r \in {<<s, j.c, "remove">>} :
              \E b \in bearers : b[1] = s /\ b[2] = j.c}

\* The PGW refuses the bearer; or there is no answer within 120 ms, since the
\* PGW is not connected, or the RAR or its answer is lost or late.  Without an
\* answer (the empty one fails an assertion) the AAR or STR is a success, and
\* the PGW gets the RAR at any time, or never.
SendFails(t) ==
  /\ job[t].at = "send"
  /\ Fault
  /\ \/ /\ job[t].kind = "call"
        /\ Becomes(t, Answered(job[t], FALSE))
        /\ UNCHANGED bearers
     \/ /\ Becomes(t, Answered(job[t], TRUE))
        /\ bearers' = bearers \cup OnItsWay(job[t])
  /\ UNCHANGED <<pdn, current, call, clock, rows, mail, cause, requests>>

\* The PGW gets such a RAR.
Arrive ==
  /\ \E b \in bearers :
       LET at(x) == <<b[1], b[2], x>>
       IN  \/ /\ b[3] = "install"
              /\ bearers' = (bearers \ {b}) \cup {at("late")}
           \/ /\ b[3] = "remove"
              /\ bearers' = bearers \ {b, at("up"), at("late")}
  /\ UNCHANGED <<pdn, current, call, clock, rows, job, mail, cause, requests,
                 faults>>

\* The lifetime of a row counts from its CCR-I.
Expired(x) == clock > x.cols.stamp

\* A worker that has answered sweeps: it is done if there is nothing to sweep.
Sweeper(t) == IF \E x \in rows[SiteOf[t]] : Expired(x)
              THEN Handler("list", "sweep", Nothing, None, None) ELSE Idle

\* The CCA, AAA or STA.  The CCR-I is a success whether the row is stored or
\* not, the STR whatever the PGW has said.
Answer(t) ==
  /\ job[t].at = "answer"
  /\ LET j == job[t]
         s == j.cols.s
     IN  /\ pdn' = IF j.kind # "set" THEN pdn
                   ELSE [pdn EXCEPT ![s].at = IF j.ok THEN "up" ELSE "over"]
         /\ current' = IF j.kind # "set" \/ ~j.ok THEN current
                       ELSE [current EXCEPT ![j.cols.ue] = s]
         /\ call' = CASE j.kind = "str" -> [call EXCEPT ![j.c].at = "over"]
                      [] j.kind = "call" /\ call[j.c].at = "asked" ->
                           [call EXCEPT ![j.c].at =
                              IF j.ok THEN "up" ELSE "refused"]
                      [] OTHER -> call
  /\ Becomes(t, Sweeper(t))
  /\ UNCHANGED <<bearers, clock, rows, mail, cause, requests, faults>>

\* A worker has answered some other request.
Another(t) ==
  /\ ~Busy(t)
  /\ Sweeper(t) # Idle
  /\ Becomes(t, Sweeper(t))
  /\ Reads

\* clear_expired_emergency_subscribers: all rows are read, ...
List(t) ==
  /\ job[t].at = "list"
  /\ LET X == {x \in rows[SiteOf[t]] : Expired(x)}
     IN  /\ Becomes(t, IF X = {} THEN Idle
                       ELSE [job[t] EXCEPT !.at = "sweep", !.todo = X])
         /\ Blame((IF \E x \in X : pdn[x.cols.s].at # "over"
                   THEN {"expired"} ELSE {})
                  \cup OverlapOf(t, {<<x.cols.ue, x.cols.ip>> : x \in X},
                                 None))
  /\ UNCHANGED <<outside, clock, rows, mail, requests, faults>>

\* ... and the expired ones are looked up once more and removed.
Sweep(t) ==
  /\ job[t].at = "sweep"
  /\ LET j == job[t]
         x == First(j.todo)
         y == First(ById(SiteOf[t], x.id))
     IN  Becomes(t, IF j.todo = {} THEN Idle
                    ELSE [j EXCEPT !.todo = @ \ {x}, !.old = y,
                                   !.at = IF y = NoRow THEN @ ELSE "delete"])
  /\ Reads

-----------------------------------------------------------------------------
\* The database fails.  What is not found makes an AAR be refused; an error
\* in the search makes a CCR fail, and an AAR a success without a RAR; one in
\* the write is passed over, and no copy is sent.  A copy whose search fails
\* is sent once more.
DbFails(t) ==
  /\ job[t].at \in {"get", "find", "commit", "delete", "list"}
  /\ Fault
  /\ LET j == job[t]
         again == j.at = "list" \/ (j.at = "find" /\ j.from # None)
     IN  /\ Becomes(t, CASE again -> Idle
                         [] j.at = "get" -> [j EXCEPT !.at = "answer",
                                                      !.ok = j.kind = "str"]
                         [] j.at = "find" /\ ~again ->
                              [j EXCEPT !.at = "answer",
                                        !.ok = j.kind = "call"]
                         [] OTHER -> [j EXCEPT !.at = After(j)])
         /\ Blame(IF again THEN {} ELSE {"lost"})
  /\ UNCHANGED <<outside, clock, rows, mail, requests>>

\* A worker dies with its request.
Dies(t) ==
  /\ Busy(t)
  /\ Fault
  /\ Becomes(t, Idle)
  /\ pdn' = IF job[t].kind # "set" THEN pdn
            ELSE [pdn EXCEPT ![job[t].cols.s].at = "over"]
  /\ Blame({"lost"})
  /\ UNCHANGED <<current, call, bearers, clock, rows, mail, requests>>

InHand(h, g) == \E t \in Api : SiteOf[t] = g /\ Busy(t) /\ job[t].from = h

\* PATCH /geored/.
Deliver(t, h) ==
  LET g == SiteOf[t]
      m == Head(mail[h][g])
  IN
  /\ mail[h][g] # << >>
  /\ ~InHand(h, g)
  /\ Begin(t, Handler("find", m.kind, m.cols, None, h), {})
  /\ UNCHANGED <<outside, clock, rows, mail, requests, faults>>

Pop(h, g) == mail' = [mail EXCEPT ![h][g] = Tail(@)]

\* The site answers; without its answer the copy is sent once more.
Respond(t) ==
  /\ job[t].at = "respond"
  /\ Becomes(t, Idle)
  /\ \/ Pop(job[t].from, SiteOf[t]) /\ UNCHANGED faults
     \/ Fault /\ UNCHANGED mail
  /\ UNCHANGED <<outside, clock, rows, cause, requests>>

\* sendGeored gives up after its third try, or the queue has expired.
GiveUp(h, g) ==
  /\ mail[h][g] # << >>
  /\ ~InHand(h, g)
  /\ Fault
  /\ Pop(h, g)
  /\ Blame({"lost"})
  /\ UNCHANGED <<outside, clock, rows, job, requests>>

Store(t) == Find(t) \/ Commit(t) \/ Delete(t)

Next ==
  \/ Detach \/ Tick \/ Arrive
  \/ \E t \in Worker :
       \/ CcrI(t) \/ CcrT(t) \/ Aar(t) \/ Str(t)
       \/ Get(t) \/ Store(t) \/ QueueCopy(t) \/ Send(t) \/ SendFails(t)
       \/ Answer(t) \/ Another(t) \/ List(t) \/ Sweep(t) \/ Dies(t)
       \/ DbFails(t)
  \/ \E t \in Api : \/ Store(t) \/ DbFails(t) \/ Respond(t)
                    \/ \E h \in Site : Deliver(t, h)
  \/ \E h, g \in Site : GiveUp(h, g)

Spec == Init /\ [][Next]_vars

-----------------------------------------------------------------------------
(***************************************************************************)
(* Properties                                                              *)
(***************************************************************************)

Quiet ==
  /\ \A t \in Thread : ~Busy(t)
  /\ \A h, g \in Site : mail[h][g] = << >>

\* Type invariant.
TypeOK ==
  /\ pdn \in Seq(Pdn)
  /\ current \in [Ue -> Session \cup {None}]
  /\ call \in [Call -> [s : Session \cup {None},
                        at : {"new", "asked", "up", "refused", "ending",
                              "over"}]]
  /\ bearers \subseteq Bearer
  /\ clock \in Nat
  /\ rows \in [Site -> SUBSET Row]
  /\ job \in [Thread -> Job]
  /\ mail \in [Site -> [Site -> Seq(Copy)]]
  /\ cause \subseteq Cause
  /\ requests \in Nat
  /\ faults \in Nat

Stored(h) == {x.cols : x \in rows[h]}

\* Answer_16777238_272, Update_Emergency_Subscriber (its docstring) and
\* handleGeored: with nothing open or on its way, every site has the same
\* rows, one for each emergency UE that has an accepted session, naming that
\* session and its address, and others only for UEs that left unreported, but
\* for the named causes.
Known ==
  Quiet /\ cause = {} =>
    \A h \in Site :
      /\ \A g \in Site : Stored(g) = Stored(h)
      /\ \A k \in Stored(h) : k.s = current[k.ue] /\ k.ip = pdn[k.s].ip
      /\ \A u \in Ue :
           current[u] # None /\ pdn[current[u]].at = "up" =>
             Cardinality({x \in rows[h] : x.cols.ue = u}) = 1

\* Answer_16777236_265: the bearer of an emergency call is asked of a session
\* of the UE that calls, whatever is lost, has expired or comes late, and even
\* if its address is in the row of another UE, and of the session it calls
\* from if nothing is lost; unless handlers overlapped.
CallsHome ==
  "overlap" \notin cause =>
    \A b \in bearers :
      LET s == call[b[2]].s IN
        pdn[b[1]].ue = pdn[s].ue /\ ("lost" \notin cause => b[1] = s)

\* Answer_16777236_275: an emergency call that is over has no bearer, but for
\* the named causes, unless the PGW did not answer in time when the HSS asked
\* it to install the bearer, or to remove it.
Ceased ==
  cause = {} =>
    \A b \in bearers :
      b[3] = "up" /\ call[b[2]].at = "over"
        => <<b[1], b[2], "remove">> \in bearers

=============================================================================
