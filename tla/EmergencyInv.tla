---------------------------- MODULE EmergencyInv ----------------------------
(***************************************************************************)
(* The inductive invariant of Emergency, in six layers, each of which      *)
(* needs the ones before it to be kept: TypeInv, what is where; RowsInv,   *)
(* which rows a handler is at work on, as long as none overlaps; HomeInv,  *)
(* which UE's session a bearer is asked of; FreshInv, that what a site     *)
(* stores and sends on is of a UE's latest session, as long as nothing is  *)
(* lost; SyncInv, that all sites will have the same rows once they have    *)
(* stored what is on its way; RightInv, which UEs that is a row of, and    *)
(* which call each bearer is of, as long as there is no cause for them to  *)
(* be apart.  EmergencyProofs proves it; what its lemmas say a step keeps  *)
(* or changes is defined here too.                                         *)
(***************************************************************************)
EXTENDS Emergency

-----------------------------------------------------------------------------
(***************************************************************************)
(* What is where.                                                          *)
(***************************************************************************)

\* Columns that name a UE, one of the sessions p, and an address; and those
\* whose UE and address are the session's.
Real(k, p) == k.ue \in Ue /\ k.s \in 1 .. Len(p) /\ k.ip \in Ip
Exact(k, p) == Real(k, p) /\ k.ue = p[k.s].ue /\ k.ip = p[k.s].ip

\* The rows of a site, when there are the sessions p: each has a number of
\* its own, greater than 0.
RowsOK(R, p) ==
  /\ R \subseteq Row
  /\ \A x \in R : Real(x.cols, p) /\ x.id # 0
  /\ \A x, y \in R : x.id = y.id => x = y
  /\ \E m \in Nat : \A x \in R : x.id <= m

\* Which handlers get where.
PlaceOK(j) ==
  /\ j.at = "idle" => j.kind = "set" /\ j.from = None
  /\ j.at \in {"get", "send"} => j.kind \in {"call", "str"}
  /\ j.at = "find" => j.kind \in {"set", "clear", "call"}
  /\ j.at = "commit" => j.kind \in {"set", "call"}
  /\ j.at = "delete" => j.kind \in {"clear", "sweep"}
  /\ j.at = "answer" => j.kind # "sweep"
  /\ j.at \in {"list", "sweep"} => j.kind = "sweep"
  /\ j.at = "copy" => j.kind # "str"
  /\ j.at = "respond" => j.from # None
  /\ j.kind \in {"call", "str"} => j.c \in Call
  /\ j.from # None => /\ j.kind \in {"set", "clear"}
                      /\ j.at \in {"find", "commit", "delete", "respond"}

\* What a handler of thread t carries.
JobOK(t, j, p) ==
  /\ j \in Job
  /\ PlaceOK(j)
  /\ j.from # None => t \in Api /\ j.from # SiteOf[t]
  /\ j.at # "idle" /\ j.kind # "sweep" => Real(j.cols, p)
  /\ j.at # "idle" /\ j.kind = "set" /\ j.from = None => Exact(j.cols, p)
  /\ j.at = "commit" /\ j.old # NoRow => Real(j.old.cols, p)
  /\ \/ j.at = "delete"
     \/ j.at = "copy" /\ j.kind \in {"clear", "sweep"}
     => Real(j.old.cols, p)

MailOK(m, p) == \A i \in 1 .. Len(m) : Real(m[i].cols, p)

CurrentInv ==
  \A u \in Ue : current[u] # None => /\ current[u] \in 1 .. Len(pdn)
                                     /\ pdn[current[u]].ue = u

\* Calls that were made; the handlers and bearers there are, are of such.
CallInv ==
  /\ \A c \in Call : /\ call[c].at = "new" <=> call[c].s = None
                     /\ call[c].s # None => call[c].s \in 1 .. Len(pdn)
  /\ \A t \in Thread : job[t].kind \in {"call", "str"} =>
                         call[job[t].c].at # "new"
  /\ \A b \in bearers : b[1] \in 1 .. Len(pdn) /\ call[b[2]].at # "new"

\* The API works on the head of a queue, and one thread on each.
HandInv ==
  \A t \in Thread :
    job[t].from # None =>
      LET m == mail[job[t].from][SiteOf[t]] IN
      /\ m # << >>
      /\ Head(m) = [kind |-> job[t].kind, cols |-> job[t].cols]
      /\ \A u \in Thread :
           job[u].from = job[t].from /\ SiteOf[u] = SiteOf[t] => u = t

TypeInv ==
  /\ TypeOK
  /\ \A h \in Site : RowsOK(rows[h], pdn)
  /\ \A t \in Thread : JobOK(t, job[t], pdn)
  /\ \A h, g \in Site : MailOK(mail[h][g], pdn)
  /\ \A h \in Site : mail[h][h] = << >>
  /\ CurrentInv /\ CallInv /\ HandInv

-----------------------------------------------------------------------------
(***************************************************************************)
(* The rows a handler is at work on, as long as none overlaps.             *)
(***************************************************************************)

Apart == "overlap" \notin cause

\* Handlers of one site, and those of requests wherever they are, are at work
\* on different UEs and addresses; of what a request is about, no copy is on
\* its way from another site.
ApartInv ==
  Apart =>
    \A t, u \in Thread :
      /\ t # u /\ Busy(t) /\ Busy(u)
      /\ SiteOf[t] = SiteOf[u] \/ (job[t].from = None /\ job[u].from = None)
      => ~Conflict(Keys(job[t]), Keys(job[u]))

MailInv ==
  Apart =>
    \A t \in Thread, h, g \in Site :
      Busy(t) /\ job[t].from = None /\ h # SiteOf[t] =>
        \A i \in 1 .. Len(mail[h][g]) :
          LET c == mail[h][g][i].cols
          IN  ~Conflict(Keys(job[t]), {<<c.ue, c.ip>>})

\* What is stored, and sent on to be stored, is of one session.
ExactJob(j, p) ==
  j.at # "idle" /\ j.kind \in {"set", "call"} => Exact(j.cols, p)

ExactInv ==
  Apart =>
    /\ \A h \in Site : \A x \in rows[h] : Exact(x.cols, pdn)
    /\ \A t \in Thread : ExactJob(job[t], pdn)
    /\ \A h, g \in Site : \A i \in 1 .. Len(mail[h][g]) :
         mail[h][g][i].kind = "set" => Exact(mail[h][g][i].cols, pdn)

\* One row of a UE.
Unique(R) == \A x, y \in R : x.cols.ue = y.cols.ue => x = y

UniqueInv == Apart => \A h \in Site : Unique(rows[h])

\* A handler finds the rows R as it left them.
Own(R, j) ==
  /\ j.at = "find" /\ j.kind = "call" =>
       \E x \in R : /\ x = First({y \in R : y.cols.ip = j.cols.ip})
                    /\ j.cols = [x.cols EXCEPT !.rx = j.c]
  /\ j.at = "commit" /\ j.old = NoRow =>
       j.kind = "set" /\ \A x \in R : x.cols.ue # j.cols.ue
  /\ j.at = "commit" /\ j.old # NoRow =>
       /\ j.old \in R
       /\ j.kind = "set" => j.old.cols.ue = j.cols.ue
       /\ j.kind = "call" => j.cols = [j.old.cols EXCEPT !.rx = j.c]
  /\ j.at = "delete" =>
       /\ j.old \in R
       /\ j.kind = "clear" => j.old.cols.ue = j.cols.ue
       /\ j.kind = "sweep" => j.old \notin j.todo
  /\ j.at = "copy" /\ j.kind \in {"set", "call"} =>
       \E x \in R : x.id = j.old.id /\ x.cols = j.cols
  /\ j.at = "list" => j.cols = Nothing /\ j.old = NoRow /\ j.todo = {}
  /\ j.kind = "sweep" => j.cols = Nothing /\ j.todo \subseteq R

OwnInv == Apart => \A t \in Thread : Own(rows[SiteOf[t]], job[t])

RowsInv == ApartInv /\ MailInv /\ ExactInv /\ UniqueInv /\ OwnInv

-----------------------------------------------------------------------------
(***************************************************************************)
(* Whose bearer it is, as long as no handlers overlap.                     *)
(***************************************************************************)

\* A CCR-I at work.
Asks(j) == j.at # "idle" /\ j.kind = "set" /\ j.from = None

AskedInv ==
  Apart => \A t \in Thread : Asks(job[t]) => pdn[job[t].cols.s].at = "asked"

\* The open sessions p that have one address are one UE's.
AddressOK(p) ==
  \A r, s \in 1 .. Len(p) :
    p[r].at # "over" /\ p[s].at # "over" /\ p[r].ip = p[s].ip =>
      p[r].ue = p[s].ue

AddressInv == Apart => AddressOK(pdn)

\* The handler j of an AAR works for the UE that calls, with the sessions p
\* and the calls k.
Serves(j, p, k) ==
  /\ j.at = "get" =>
       \A s \in 1 .. Len(p) : p[s].at # "over" /\ p[s].ip = j.cols.ip =>
                                p[s].ue = p[k[j.c].s].ue
  /\ j.at \in {"find", "commit", "copy", "send"} /\ p[j.cols.s].at # "over" =>
       p[j.cols.s].ue = p[k[j.c].s].ue

AtHome(b, p, k) == p[b[1]].ue = p[k[b[2]].s].ue

ServesInv ==
  Apart => /\ \A t \in Thread : job[t].kind = "call" =>
                                  Serves(job[t], pdn, call)
           /\ \A b \in bearers : AtHome(b, pdn, call)

HomeInv == AskedInv /\ AddressInv /\ ServesInv

-----------------------------------------------------------------------------
(***************************************************************************)
(* What is stored and sent on is of a UE's latest session, as long as no   *)
(* handlers overlap and nothing is lost.  The operators are of sessions p, *)
(* jobs J, queues M, rows and calls k, now or after a step.                *)
(***************************************************************************)

Sound == "overlap" \notin cause /\ "lost" \notin cause

\* Of the sessions p, s is the last that its UE has asked for.
Latest(p, s) == \A i \in s + 1 .. Len(p) : p[i].ue # p[s].ue

\* A CCR-I of the UE u that is not stored and queued yet.
Settles(j, u) == /\ j.at \in {"find", "commit", "copy"} /\ j.kind = "set"
                 /\ j.from = None /\ j.cols.ue = u
Settling(J, u) == \E t \in Thread : Settles(J[t], u)

\* A copy about u is on its way to g; a queue holds none after the i-th.
Pending(M, u, g) ==
  \E h \in Site : \E i \in 1 .. Len(M[h][g]) : M[h][g][i].cols.ue = u
LastOf(m, i) == \A k \in i + 1 .. Len(m) : m[k].cols.ue # m[i].cols.ue

Fine(cols, J, p) == Settling(J, cols.ue) \/ Latest(p, cols.s)

\* The last copy about a UE, if it sets a row, is of the latest session.
MailFresh(M, J, p) ==
  \A h, g \in Site : \A i \in 1 .. Len(M[h][g]) :
    M[h][g][i].kind = "set" /\ LastOf(M[h][g], i) => Fine(M[h][g][i].cols, J, p)

RowsFresh(R, M, J, p) ==
  \A g \in Site : \A x \in R[g] :
    Fine(x.cols, J, p) \/ Pending(M, x.cols.ue, g)

CurrentFresh ==
  \A u \in Ue : current[u] # None =>
    \/ Latest(pdn, current[u])
    \/ \E t \in Thread : Asks(job[t]) /\ job[t].cols.ue = u

\* The handler j at a site with the rows R: a CCR-I is for the latest session
\* and succeeds; an AAR works with the latest session of the UE that calls; a
\* copy that is worked off has settled the rows of its UE.
JobFresh(j, R, p, k) ==
  /\ Asks(j) => j.ok /\ Latest(p, j.cols.s)
  /\ j.kind = "call" /\ j.at \in {"get", "find", "commit", "copy"} =>
       Latest(p, j.cols.s)
  /\ j.kind = "call" /\ j.at = "get" => j.cols.s = k[j.c].s
  /\ /\ j.kind = "call" /\ j.at \in {"find", "commit", "copy", "send"}
     /\ p[j.cols.s].at # "over"
     => j.cols.s = k[j.c].s
  /\ j.at = "respond" =>
       \A x \in R : x.cols.ue = j.cols.ue =>
                      j.kind = "set" /\ x.cols.s = j.cols.s

JobsFresh ==
  \A t \in Thread : JobFresh(job[t], rows[SiteOf[t]], pdn, call)

BearersFresh == \A b \in bearers : b[1] = call[b[2]].s

FreshInv ==
  Sound => /\ MailFresh(mail, job, pdn) /\ RowsFresh(rows, mail, job, pdn)
           /\ CurrentFresh /\ JobsFresh /\ BearersFresh

-----------------------------------------------------------------------------
(***************************************************************************)
(* What each site will have, as long as no handlers overlap and nothing is *)
(* lost.                                                                   *)
(***************************************************************************)

\* With the rows R and queues M, the site g will have a row with the columns
\* k once it has stored what is on its way: the last copy about the UE says
\* so, or there is none and g has such a row.
Sets(c, k) == c.kind = "set" /\ c.cols = k
SaidBy(q, k) == \E i \in 1 .. Len(q) : Sets(q[i], k) /\ LastOf(q, i)
Announced(M, g, k) == \E h \in Site : SaidBy(M[h][g], k)
Has(R, g, k) == \E x \in R[g] : x.cols = k
Will(R, M, g, k) ==
  Announced(M, g, k) \/ (~Pending(M, k.ue, g) /\ Has(R, g, k))

\* The UE whose row a handler writes or removes.
Changed(j) == IF j.kind \in {"clear", "sweep"} THEN j.old.cols.ue
              ELSE j.cols.ue

\* A change for the UE u has been stored at one site and not yet sent on.
Copying(J, u) == \E t \in Thread : J[t].at = "copy" /\ Changed(J[t]) = u

\* All copies about a UE come from one site.
SourceOK(M) ==
  \A h, f, g, e \in Site : \A i \in 1 .. Len(M[h][g]), k \in 1 .. Len(M[f][e]) :
    M[h][g][i].cols.ue = M[f][e][k].cols.ue => h = f

\* What a handler has removed is gone, and the copy it has worked off stored.
Staged(j, R) ==
  /\ j.at = "copy" /\ j.kind \in {"clear", "sweep"} =>
       \A x \in R : x.cols.ue # Changed(j)
  /\ j.at = "respond" =>
       IF j.kind = "set" THEN \E x \in R : x.cols = j.cols
       ELSE \A x \in R : x.cols.ue # j.cols.ue

\* Until its change is sent on, a handler is at work on all there will be.
CopyingOK(R, M, J) ==
  \A t \in Thread : J[t].at = "copy" =>
    \A g \in Site : \A k :
      Will(R, M, g, k) /\ k.ue = Changed(J[t]) => <<k.ue, k.ip>> \in Keys(J[t])

\* The sites will have the same rows.
Agreed(R, M, J) ==
  \A k : Copying(J, k.ue) \/ \A g, h \in Site : Will(R, M, g, k) => Will(R, M, h, k)

SyncInv ==
  Sound => /\ SourceOK(mail)
           /\ \A t \in Thread : Staged(job[t], rows[SiteOf[t]])
           /\ CopyingOK(rows, mail, job)
           /\ Agreed(rows, mail, job)

-----------------------------------------------------------------------------
(***************************************************************************)
(* Which UEs the sites will have a row of, and which calls a bearer, as    *)
(* long as there is no cause for them to be apart.  The operators are of   *)
(* rows R, queues M, sessions p, current sessions n, calls k and bearers   *)
(* B.                                                                      *)
(***************************************************************************)

Clean == cause = {}

Up(p, n, u) == n[u] # None /\ p[n[u]].at = "up"
OnCalls(p, k, u) == {c \in Call : /\ k[c].at \notin {"new", "over"}
                                  /\ p[k[c].s].ue = u}

\* A handler that explains a row of a UE without a session, and one that has
\* had the UE's row stored and is about to accept its session.
Leaves(j, u) ==
  /\ j.at # "idle" /\ j.from = None /\ j.cols.ue = u
  /\ \/ j.kind = "set"
     \/ j.kind = "clear" /\ j.at \in {"find", "delete", "copy"}
Accepts(j, u) == Asks(j) /\ j.at = "answer" /\ j.cols.ue = u

\* A row is of a UE that has a session, or is getting or losing one; the call
\* it names is of that UE.
Accounted(u) ==
  \A g \in Site : \A l : Will(rows, mail, g, l) /\ l.ue = u =>
    /\ current[u] # None \/ \E t \in Thread : Leaves(job[t], u)
    /\ l.rx # None => call[l.rx].at # "new" /\ pdn[call[l.rx].s].ue = u

\* A UE with an open session has a row everywhere.
Provided(u) ==
  Up(pdn, current, u) \/ (\E t \in Thread : Accepts(job[t], u)) =>
    \A g \in Site : \E l : l.ue = u /\ Will(rows, mail, g, l)

\* The bearers the PGW has answered for: not installed late, and no RAR to
\* remove them is on its way.
Sure == {b \in bearers : /\ b[3] = "up"
                         /\ <<b[1], b[2], "remove">> \notin bearers}

\* The bearer of a call is of the UE's session, and the row names both.
Borne(u) ==
  \A b \in Sure : pdn[b[1]].ue = u =>
    /\ call[b[2]].at # "over" /\ pdn[b[1]].at = "up" /\ current[u] = b[1]
    /\ \A g \in Site :
         \E l : Will(rows, mail, g, l) /\ l.s = b[1] /\ l.rx = b[2]

\* The address in a row is no other UE's.
IpRight ==
  \A g \in Site : \A l : Will(rows, mail, g, l) =>
    \A s \in 1 .. Len(pdn) :
      pdn[s].at # "over" /\ pdn[s].ip = l.ip => pdn[s].ue = l.ue

\* What removes a row works on UEs without an open session.
ClearRight(j, p, n) ==
  j.at # "idle" /\ j.from = None /\ j.kind \in {"clear", "sweep"} =>
    /\ \A i \in Keys(j) : i[1] # None => ~Up(p, n, i[1])
    /\ j.kind = "clear" /\ j.at = "copy" => j.old.cols.ue = j.cols.ue

\* A UE has no call when it connects.
AskRight(j, p, k) ==
  Asks(j) => OnCalls(p, k, j.cols.ue) = {} /\ j.cols.rx = None

\* An AAR works for the only call of the UE, on the UE's row.
CallRight(j, R, M, p, n, k) ==
  j.kind = "call" =>
    LET s == k[j.c].s
        u == p[s].ue
    IN  /\ k[j.c].at \notin {"new", "ending", "over"}
        /\ n[u] = s /\ j.cols.ue = u
        /\ OnCalls(p, k, u) \subseteq {j.c}
        /\ j.at = "get" => \A g \in Site : \A l :
             Will(R, M, g, l) /\ l.ip = j.cols.ip => l.ue = u
        /\ j.at \in {"find", "commit", "copy", "send"} => j.cols.rx = j.c
        /\ j.at = "send" /\ p[j.cols.s].at = "up" =>
             \A g \in Site : Will(R, M, g, j.cols)

\* An STR finds the session that has the bearer, and leaves none.
StrRight(j, p, k, B) ==
  j.kind = "str" =>
    /\ j.cols.ue = p[k[j.c].s].ue
    /\ j.at = "send" => \A b \in B : b[2] = j.c => b[1] = j.cols.s
    /\ j.at = "answer" => \A b \in B : b[2] # j.c

JobRight(j, R, M, p, n, k, B) ==
  /\ ClearRight(j, p, n) /\ AskRight(j, p, k)
  /\ CallRight(j, R, M, p, n, k) /\ StrRight(j, p, k, B)

RightNow(t) == JobRight(job[t], rows, mail, pdn, current, call, Sure)

RightInv ==
  Clean => /\ IpRight
           /\ \A u \in Ue : Accounted(u) /\ Provided(u) /\ Borne(u)
           /\ \A t \in Thread : RightNow(t)

-----------------------------------------------------------------------------
(***************************************************************************)
(* What the proofs say of a step.                                          *)
(***************************************************************************)

\* The RAR of a call, whatever comes of it.
Sent(t) == Send(t) \/ SendFails(t)

Ids(R) == {x.id : x \in R}

\* More sessions, with the UEs and addresses they have.
Grows(p, q) == /\ Len(p) <= Len(q)
               /\ \A i \in 1 .. Len(p) : q[i].ue = p[i].ue /\ q[i].ip = p[i].ip

\* How a job goes on.
Places == {"idle", "get", "find", "commit", "delete", "copy", "send",
           "answer", "list", "sweep", "respond"}

LoadsRow(o, x, at) == [o EXCEPT !.old = x, !.at = at]
Sweeps(o, x, y, at) == [o EXCEPT !.todo = @ \ {x}, !.old = y, !.at = at]
GoesTo(o, at) == [o EXCEPT !.at = at]

SameWork(j, o) == /\ j.kind = o.kind /\ j.c = o.c /\ j.from = o.from
                  /\ j.cols = o.cols

CallType == [s : Session \cup {None},
             at : {"new", "asked", "up", "refused", "ending", "over"}]

OutsideTyped ==
  /\ pdn \in Seq(Pdn)
  /\ current \in [Ue -> Session \cup {None}]
  /\ call \in [Call -> CallType]
  /\ bearers \subseteq Bearer
  /\ CurrentInv

MailTyped ==
  /\ mail \in [Site -> [Site -> Seq(Copy)]]
  /\ \A h, g \in Site : MailOK(mail[h][g], pdn)
  /\ \A h \in Site : mail[h][h] = << >>

Counted == /\ clock \in Nat /\ cause \subseteq Cause
           /\ requests \in Nat /\ faults \in Nat

Others(t) == \A h \in Site \ {SiteOf[t]} : rows'[h] = rows[h]

\* What Commit leaves: a new row, the row as it was, or the row rewritten.
Fresh(t) == [id |-> 1 + Max({0} \cup Ids(rows[SiteOf[t]])),
             cols |-> job[t].cols]

Rewritten(t, x) ==
  IF x.id # job[t].old.id THEN x
  ELSE [x EXCEPT !.cols = Merged(@, job[t].old.cols, job[t].cols)]

\* What t does to rows it is at work on does not disturb another.
Touched(R, Q, K) ==
  \A x \in (R \ Q) \cup (Q \ R) : <<x.cols.ue, x.cols.ip>> \in K

\* The keys t has next are some of those it had, or nobody else's.
KeysKept(t, j) ==
  \/ j.at = "idle"
  \/ /\ Busy(t) /\ j.from = job[t].from
     /\ \A k \in Keys(j) : k \in Keys(job[t]) \/ (k[1] = None /\ k[2] = None)
  \/ ~Overlaps(t, Keys(j), j.from)

\* A copy that was there, or that t sends on.
CopyKept(t, c, h, g) ==
  \/ \E i \in 1 .. Len(mail[h][g]) : c = mail[h][g][i]
  \/ /\ h = SiteOf[t] /\ Busy(t) /\ job[t].from = None
     /\ <<c.cols.ue, c.cols.ip>> \in Keys(job[t])

MailGoesOn(t) ==
  \A h, g \in Site : \A i \in 1 .. Len(mail'[h][g]) :
    CopyKept(t, mail'[h][g][i], h, g)

CopyExact(c, p) == c.kind = "set" => Exact(c.cols, p)

\* What a step of t, which goes on as j, has to do to keep RowsInv.
Rightly(t, j) ==
  LET R == rows[SiteOf[t]]
      Q == rows'[SiteOf[t]]
  IN  /\ KeysKept(t, j)
      /\ Q # R => Busy(t) /\ Touched(R, Q, Keys(job[t]))
      /\ Unique(Q)
      /\ Own(Q, j)
      /\ \A x \in Q : Exact(x.cols, pdn')
      /\ ExactJob(j, pdn')
      /\ \A h, g \in Site : \A i \in 1 .. Len(mail'[h][g]) :
           CopyExact(mail'[h][g][i], pdn')

\* Sessions that end, or are answered.
SessionsGoOn ==
  \A i \in 1 .. Len(pdn) :
    \/ pdn'[i].at = pdn[i].at
    \/ pdn[i].at = "up" /\ pdn'[i].at = "over"
    \/ \E u \in Thread : /\ Asks(job[u]) /\ job[u].cols.s = i
                         /\ ~Asks(job'[u])

\* How handlers go on: t, as j, with what it has at hand.
Onward(t, j) ==
  /\ Busy(t) /\ SameWork(j, job[t]) /\ j.at \notin {"idle", "get", "find"}
  /\ j.at \in {"commit", "copy", "send"} =>
       job[t].at \in {"find", "commit", "copy"}

Within(t, j) == /\ job' = [job EXCEPT ![t] = j]
                /\ UNCHANGED outside
                /\ cause \subseteq cause'

\* How a step may change them.
Newer ==
  \A s \in 1 .. Len(pdn) :
    Latest(pdn, s) =>
      \/ Latest(pdn', s)
      \/ \E v \in Thread : /\ job[v].at = "idle"
                           /\ Settles(job'[v], pdn[s].ue)

SettlingKept ==
  \A v \in Thread : \A u : Settles(job[v], u) => Settles(job'[v], u)

CallsGoOn == \A c \in Call : call[c].at # "new" => call'[c].s = call[c].s

CurrentGoesOn ==
  \A u \in Ue : current'[u] # None =>
    \/ Latest(pdn', current'[u])
    \/ /\ current'[u] = current[u]
       /\ \A t \in Thread :
            Asks(job[t]) /\ job[t].cols.ue = u =>
              Asks(job'[t]) /\ job'[t].cols.ue = u

JobsGoOn ==
  \A u \in Thread :
    \/ JobFresh(job'[u], rows'[SiteOf[u]], pdn', call')
    \/ /\ job'[u] = job[u]
       /\ job[u].at = "respond" =>
            \A x \in rows'[SiteOf[u]] :
              x.cols.ue = job[u].cols.ue => x \in rows[SiteOf[u]]

BearersGoOn == \A b \in bearers' : b \in bearers \/ b[1] = call'[b[2]].s

\* What t does with the CCR-I it is at work on.
Minds(o, j) ==
  /\ \A u : Settles(o, u) => Settles(j, u)
  /\ Asks(o) => Asks(j) /\ j.cols.ue = o.cols.ue

\* Nobody else is at work on a request about the UE, and no copy about it is
\* on its way from another site.
Alone(J, M, t) ==
  /\ \A v \in Thread \ {t} : J[v].at # "idle" /\ J[v].from = None =>
                               J[v].cols.ue # J[t].cols.ue
  /\ \A h, g \in Site : h # SiteOf[t] =>
       \A i \in 1 .. Len(M[h][g]) : M[h][g][i].cols.ue # J[t].cols.ue

SameView == \A g \in Site : \A k :
              Will(rows', mail', g, k) <=> Will(rows, mail, g, k)

\* A handler of a request, or a sweep, at work on the UE u.
AtWork(j, u) == j.at # "idle" /\ j.from = None /\ \E k \in Keys(j) : k[1] = u

\* A copy c is put behind the queues from the site a, when there is none about
\* its UE from elsewhere.
Queues(M, N, a, c) ==
  /\ \A h, g \in Site :
       /\ Len(M[h][g]) \in Nat
       /\ IF h = a /\ g # a
          THEN /\ Len(N[h][g]) = Len(M[h][g]) + 1
               /\ \A i \in 1 .. Len(M[h][g]) : N[h][g][i] = M[h][g][i]
               /\ N[h][g][Len(N[h][g])] = c
          ELSE N[h][g] = M[h][g]
  /\ \A h, g \in Site : h # a =>
       \A i \in 1 .. Len(M[h][g]) : M[h][g][i].cols.ue # c.cols.ue

\* The head c of the queue from f to e goes; the site e has stored it.
Pops(M, N, f, e, c) ==
  /\ Len(M[f][e]) \in Nat /\ 1 \in 1 .. Len(M[f][e]) /\ M[f][e][1] = c
  /\ Len(N[f][e]) = Len(M[f][e]) - 1
  /\ \A i \in 1 .. Len(N[f][e]) : N[f][e][i] = M[f][e][i + 1]
  /\ \A h, g \in Site : ~(h = f /\ g = e) => N[h][g] = M[h][g]

StoredAt(R, e, c) ==
  /\ c.kind \in {"set", "clear"}
  /\ c.kind = "set" => Has(R, e, c.cols)
  /\ c.kind = "clear" => \A x \in R[e] : x.cols.ue # c.cols.ue
  /\ \A x, y \in R[e] : x.cols.ue = y.cols.ue => x = y

\* What a handler that goes on as j does when it writes or removes a row.
Wrote(t, j) ==
  LET R == rows[SiteOf[t]]
      Q == rows'[SiteOf[t]]
      o == job[t]
      u == Changed(j)
  IN  /\ job' = [job EXCEPT ![t] = j] /\ j \in Job /\ Others(t)
      /\ UNCHANGED <<outside, mail, cause>>
      /\ Busy(t) /\ o.at \in {"commit", "delete"}
      /\ SameWork(j, o) /\ Keys(j) = Keys(o)
      /\ j.at = IF o.from = None THEN "copy" ELSE "respond"
      /\ u \in Ue /\ (\E k \in Keys(o) : k[1] = u)
      /\ o.from # None => u = o.cols.ue
      /\ \A x : ~(x \in R <=> x \in Q) => x.cols.ue = u
      /\ \A x \in R : x.cols.ue = u => <<x.cols.ue, x.cols.ip>> \in Keys(o)
      /\ j.kind \in {"set", "call"} =>
           o.at = "commit" /\ \E x \in Q : x.cols = j.cols
      /\ j.kind \in {"clear", "sweep"} =>
           o.at = "delete" /\ \A x \in Q : x.cols.ue # u
      /\ j.kind \in {"set", "call", "clear", "sweep"}

RightThen(t) ==
  JobRight(job'[t], rows', mail', pdn', current', call', Sure')

\* A step that concerns the UE u, or none: what it may do.
Moves(u) ==
  /\ Grows(pdn, pdn')
  /\ \A v \in Ue : v # u => current'[v] = current[v]
  /\ \A s \in 1 .. Len(pdn) :
       \/ pdn'[s].at = pdn[s].at \/ pdn[s].ue = u
       \/ pdn'[s].at = "over" /\ \A b \in Sure' : b[1] # s
  /\ \A c \in Call :
       \/ call'[c] = call[c]
       \/ /\ call[c].at = "new" \/ pdn[call[c].s].ue = u
          /\ call'[c].at # "new" /\ pdn'[call'[c].s].ue = u
  /\ \A b \in Sure' : b \in Sure \/ pdn'[b[1]].ue = u
  /\ \A g \in Site : \A l : l.ue # u \/ u = None =>
       (Will(rows', mail', g, l) <=> Will(rows, mail, g, l))
  /\ \A g \in Site : \A l : Will(rows', mail', g, l) /\ l.ue = u =>
       \/ \E h \in Site : Will(rows, mail, h, l)
       \/ \E t \in Thread :
            AtWork(job[t], u) /\ <<l.ue, l.ip>> \in Keys(job[t])

Bystander(t, u) == job'[t] = job[t] /\ (u # None => ~AtWork(job[t], u))

JobsMove(u) ==
  \A t \in Thread :
    \/ Bystander(t, u)
    \/ /\ RightThen(t)
       /\ \A v \in Ue : v # u =>
            /\ Leaves(job[t], v) => Leaves(job'[t], v)
            /\ Accepts(job'[t], v) => Accepts(job[t], v)

\* A step of t, which goes on as j, that leaves what will be where it is.
Moved(t, j, u) ==
  /\ job' = [job EXCEPT ![t] = j] /\ cause \subseteq cause'
  /\ u # None => AtWork(job[t], u) \/ AtWork(j, u)

\* Nobody but t is at work on the UE u, and its site waits for no copy about it.
Lone(t, u) == /\ ~Pending(mail, u, SiteOf[t])
              /\ \A v \in Thread \ {t} : ~AtWork(job[v], u)

\* A CCR-I of a UE without a call, whose address is in no other UE's row.
Connects(t, u, ip) ==
  /\ ~Busy(t)
  /\ job' = [job EXCEPT ![t] = Handler("find", "set",
                                       Filled(Len(pdn) + 1, u, ip), None, None)]
  /\ pdn' = Append(pdn, [ue |-> u, ip |-> ip, at |-> "asked"])
  /\ UNCHANGED <<current, call, bearers, clock, rows, mail>>
  /\ cause \subseteq cause' /\ Calls(u) = {}
  /\ \A h \in Site : \A x \in rows[h] : x.cols.ip = ip => x.cols.ue = u

\* A CCR-T of the session that the UE has, if it has one.
Disconnects(t, s) ==
  /\ ~Busy(t)
  /\ job' = [job EXCEPT ![t] = Handler("find", "clear", About(s), None, None)]
  /\ pdn[s].at = "up" /\ Ended(s) /\ current[pdn[s].ue] \in {s, None}
  /\ current' = [current EXCEPT ![pdn[s].ue] = IF @ = s THEN None ELSE @]
  /\ UNCHANGED <<call, rows, mail>> /\ cause \subseteq cause'

\* An AAR of the only call of the UE.
Calling(t, u, c) ==
  LET s == current[u] IN
  /\ ~Busy(t) /\ s # None /\ pdn[s].at = "up" /\ Calls(u) \subseteq {c}
  /\ call[c] \in {[s |-> None, at |-> "new"], [s |-> s, at |-> "up"]}
  /\ job' = [job EXCEPT ![t] = Handler("get", "call", About(s), c, None)]
  /\ call' = [call EXCEPT ![c] = [s |-> s, at |-> "asked"]]
  /\ UNCHANGED <<pdn, current, bearers, rows, mail>> /\ cause \subseteq cause'

=============================================================================
