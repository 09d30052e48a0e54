-------------------------- MODULE ServingApnProofs --------------------------
(***************************************************************************)
(* Theorems about ServingApn: the types, that no site has two rows where   *)
(* one should be, that a termination removes only its own session's row,   *)
(* and that, with nothing open or on its way, every site has just the rows *)
(* of the sessions the PGWs were told last that they are accepted.         *)
(*                                                                         *)
(* The proof goes in three layers, each an invariant on top of the former: *)
(* TypeInv, what is where; RowsInv, which rows a handler is at work on and *)
(* what it has done with them so far, as long as none overlaps; SyncInv,   *)
(* what the sites will have once the queues are empty and the handlers at  *)
(* their ends.                                                             *)
(***************************************************************************)
EXTENDS ServingApn, SequencesExt, SequenceTheorems, FiniteSetTheorems,
        WellFoundedInduction, TLAPS

-----------------------------------------------------------------------------
(***************************************************************************)
(* The inductive invariants.                                               *)
(***************************************************************************)

\* The rows of a site, when there are n sessions: each is of one of them, and
\* has a number of its own, greater than 0.
RowsOK(R, n) ==
  /\ R \subseteq Row
  /\ \A x \in R : x.s \in 1 .. n /\ x.id # 0
  /\ \A x, y \in R : x.id = y.id => x = y
  /\ \E m \in Nat : \A x \in R : x.id <= m

\* The places of a handler that stores a row.
Sets == {"scan", "prune", "update", "undo", "read", "create", "reread",
         "accept"}

\* What a handler of thread t carries.
JobOK(t, j, n) ==
  /\ j \in Job
  /\ j.s # None => j.s \in 1 .. n
  /\ j.kind # "deregister" /\ j.at \notin {"idle", "respond"} => j.s # None
         \/ (j.kind = "clear" /\ j.at = "check")
  /\ j.kind = "deregister" => j.from = None /\ j.apn \in Listed
  /\ j.at \in Sets => j.kind = "set"
  /\ j.at = "check" => j.kind = "clear"
  /\ j.at = "delete" => j.kind # "set"
  /\ j.at = "respond" => j.from # None
  /\ j.at \in {"idle", "accept"} => j.from = None
  /\ j.kind = "clear" /\ j.at # "check" => j.apn \in Listed
  /\ j.from # None => t \in Api /\ j.from # SiteOf[t]

CopyOK(c, n) ==
  /\ c.s # None => c.s \in 1 .. n
  /\ c.kind # "deregister" => c.s # None

MailOK(m, n) == \A i \in 1 .. Len(m) : CopyOK(m[i], n)

\* The API works on the head of a queue, and one thread on each.
HandInv ==
  \A t \in Thread :
    job[t].from # None =>
      /\ mail[job[t].from][SiteOf[t]] # << >>
      /\ \A u \in Thread :
           job[u].from = job[t].from /\ SiteOf[u] = SiteOf[t] => u = t

TypeInv ==
  /\ TypeOK
  /\ \A a \in Listed : current[a] # None => current[a] \in 1 .. Len(pdn)
  /\ \A h \in Site : RowsOK(rows[h], Len(pdn))
  /\ \A t \in Thread : JobOK(t, job[t], Len(pdn))
  /\ \A h, g \in Site : MailOK(mail[h][g], Len(pdn))
  /\ \A h \in Site : mail[h][h] = << >>
  /\ HandInv

\* At work on the rows.
AtWork(j) == j.at \notin {"idle", "respond"}

\* The addresses of a session and of the rows R that a handler or a copy may
\* touch; the rows of its APN; those with its address.
IpsIn(p, R, j) == (IF j.s = None THEN {} ELSE {p[j.s].ip})
                  \cup {p[x.s].ip : x \in {y \in R : y.apn \in Apns(j)}}
Mine(R, j) == {x \in R : x.apn = RowApn(j.apn)}
Dups(p, R, j) == {x \in R : p[x.s].ip = p[j.s].ip}

Ids(R) == {x.id : x \in R}
FirstOf(R) == IF R = {} THEN 0 ELSE Min(Ids(R))

Apart(p, R, j, k) == /\ Apns(j) \cap Apns(k) = {}
                     /\ IpsIn(p, R, j) \cap IpsIn(p, R, k) = {}

\* The rows a handler is about to remove or replace are those it has found.
Own(M, D, j) ==
  /\ j.at = "prune" => j.todo \subseteq Ids(D)
  /\ j.at \in {"update", "undo", "delete"} => j.row \in Ids(M)
  /\ j.kind = "clear" /\ j.at = "find" =>
       \E x \in M : x.id = FirstOf(M) /\ x.s = j.s
  /\ j.kind = "clear" /\ j.at = "delete" =>
       \E x \in M : x.id = j.row /\ x.s = j.s

\* Without overlap, handlers of one site are at work on different APNs and
\* addresses, and on rows of their own.
MutexInv ==
  "overlap" \notin cause =>
    \A t, u \in Thread :
      t # u /\ SiteOf[t] = SiteOf[u] /\ AtWork(job[t]) /\ AtWork(job[u]) =>
        Apart(pdn, rows[SiteOf[t]], job[t], job[u])

OwnInv ==
  "overlap" \notin cause =>
    \A t \in Thread :
      AtWork(job[t]) => Own(Mine(rows[SiteOf[t]], job[t]),
                            Dups(pdn, rows[SiteOf[t]], job[t]), job[t])

Sound == cause \cap {"overlap", "lost"} = {}

\* What is done with the rows before a handler gets to a place.
Stage(M, D, j) ==
  /\ j.at = "prune" => Ids(D) \subseteq j.todo
  /\ j.at \in {"update", "create"} => D = {}
  /\ j.at = "create" => M = {}
  /\ j.at = "read" => j.row \in Ids(M)
  /\ \/ j.at \in {"read", "reread", "accept"}
     \/ j.at = "copy" /\ j.kind = "set"
     => \E x \in M : x.s = j.s
  /\ j.at = "copy" /\ j.kind # "set" => M = {}
  /\ j.at # "undo"
  /\ j.at = "find" => j.kind # "set"

StageInv ==
  Sound =>
    /\ NoDuplicates
    /\ \A t \in Thread :
         AtWork(job[t]) => Stage(Mine(rows[SiteOf[t]], job[t]),
                                 Dups(pdn, rows[SiteOf[t]], job[t]), job[t])

-----------------------------------------------------------------------------
(***************************************************************************)
(* Numbers, rows and jobs.                                                 *)
(***************************************************************************)

LEMMA LeastOf ==
  ASSUME NEW S \in SUBSET Nat, S # {}
  PROVE  Min(S) \in S /\ \A y \in S : Min(S) <= y
<1> DEFINE T == {0 .. k : k \in S}
<1>1. T \subseteq FiniteSubsetsOf(Nat) /\ T # {}
  <2>1. ASSUME NEW k \in S
        PROVE  0 .. k \in FiniteSubsetsOf(Nat)
    <3>1. IsFiniteSet(0 .. k)
      BY FS_Interval
    <3> QED
      BY <3>1 DEF FiniteSubsetsOf
  <2> QED
    BY <2>1
<1>2. PICK X \in T : \A Y \in T : ~(<<Y, X>> \in StrictSubsetOrdering(Nat))
  <2> HIDE DEF T
  <2> QED
    BY <1>1, FS_StrictSubsetOrderingWellFounded, WFMin
<1>3. PICK x \in S : X = 0 .. x
  OBVIOUS
<1>4. ASSUME NEW y \in S
      PROVE  x <= y
  <2>1. ~(<<0 .. y, 0 .. x>> \in StrictSubsetOrdering(Nat))
    BY <1>2, <1>3
  <2>2. 0 .. y = 0 .. x \/ ~(0 .. y \subseteq 0 .. x)
    BY <2>1 DEF StrictSubsetOrdering
  <2>3. x \in 0 .. x /\ x \in Nat /\ y \in Nat
    OBVIOUS
  <2> QED
    BY <2>2, <2>3
<1> QED
  BY <1>4 DEF Min

LEMMA GreatestOf ==
  ASSUME NEW S \in SUBSET Nat, S # {}, NEW m \in Nat, \A x \in S : x <= m
  PROVE  Max(S) \in S /\ \A y \in S : y <= Max(S)
<1> DEFINE U == {k \in Nat : \A x \in S : x <= k}
<1>1. U \in SUBSET Nat /\ U # {}
  OBVIOUS
<1>2. PICK k \in U : \A y \in U : k <= y
  <2> HIDE DEF U
  <2> QED
    BY <1>1, LeastOf
<1>3. k \in S
  <2> SUFFICES ASSUME k \notin S
               PROVE  FALSE
    OBVIOUS
  <2>1. \A x \in S : x <= k - 1
    BY <1>2
  <2>2. k - 1 \in Nat
    <3>1. PICK x \in S : TRUE
      OBVIOUS
    <3>2. x \in Nat /\ x <= k - 1
      BY <2>1
    <3> QED
      BY <1>2, <3>2
  <2>3. k - 1 \in U
    BY <2>1, <2>2
  <2> QED
    BY <1>2, <2>3
<1>4. \A y \in S : k >= y
  BY <1>2
<1> QED
  BY <1>3, <1>4 DEF Max

\* The number of a new row.
LEMMA NewNumber ==
  ASSUME NEW n, NEW R, RowsOK(R, n), NEW id,
         id = 1 + Max({0} \cup Ids(R))
  PROVE  /\ id \in Nat \ {0}
         /\ \A x \in R : x.id < id
<1>1. PICK m \in Nat : \A x \in R : x.id <= m
  BY DEF RowsOK
<1>2. {0} \cup Ids(R) \in SUBSET Nat
  BY DEF RowsOK, Row, Ids
<1>3. \A k \in {0} \cup Ids(R) : k <= m
  BY <1>1 DEF Ids
<1>4. /\ Max({0} \cup Ids(R)) \in {0} \cup Ids(R)
      /\ \A k \in {0} \cup Ids(R) : k <= Max({0} \cup Ids(R))
  <2>1. {0} \cup Ids(R) # {}
    OBVIOUS
  <2> QED
    BY <1>1, <1>2, <1>3, <2>1, GreatestOf
<1>5. \A x \in R : x.id \in Ids(R) /\ x.id \in Nat
  BY DEF Ids, RowsOK, Row
<1> QED
  BY <1>2, <1>4, <1>5

\* The row that is looked at is one of the APN's, if there is any.
LEMMA FirstFound ==
  ASSUME NEW h \in Site, NEW a, rows[h] \subseteq Row,
         \A x \in rows[h] : x.id # 0
  PROVE  /\ FirstRow(h, a) \in Nat
         /\ RowsOf(h, a) = {} => FirstRow(h, a) = 0
         /\ RowsOf(h, a) # {} =>
              /\ FirstRow(h, a) # 0
              /\ \E x \in RowsOf(h, a) : x.id = FirstRow(h, a)
<1>1. CASE RowsOf(h, a) = {}
  BY <1>1 DEF FirstRow
<1>2. CASE RowsOf(h, a) # {}
  <2>1. Ids(RowsOf(h, a)) \in SUBSET Nat /\ Ids(RowsOf(h, a)) # {}
    BY <1>2 DEF Ids, RowsOf, Row
  <2>2. Min(Ids(RowsOf(h, a))) \in Ids(RowsOf(h, a))
    BY <2>1, LeastOf
  <2>3. FirstRow(h, a) = Min(Ids(RowsOf(h, a)))
    BY <1>2 DEF FirstRow, Ids
  <2>4. PICK x \in RowsOf(h, a) : x.id = FirstRow(h, a)
    BY <2>2, <2>3 DEF Ids
  <2> QED
    BY <1>2, <2>1, <2>4 DEF RowsOf, Row
<1> QED
  BY <1>1, <1>2

\* Fewer rows, more sessions, a row replaced, a row added.
LEMMA FewerRows ==
  ASSUME NEW n \in Nat, NEW k \in Nat, n <= k, NEW R, RowsOK(R, n),
         NEW Q \in SUBSET R
  PROVE  RowsOK(Q, k)
BY DEF RowsOK

LEMMA OneMoreRow ==
  ASSUME NEW n \in Nat, NEW R, RowsOK(R, n), NEW y \in Row, y.s \in 1 .. n,
         y.id # 0, \A x \in R : x.id # y.id
  PROVE  RowsOK(R \cup {y}, n)
<1>1. PICK m \in Nat : \A x \in R : x.id <= m
  BY DEF RowsOK
<1>2. y.id \in Nat
  BY DEF Row
<1>3. \E k \in Nat : k >= m /\ k >= y.id
  BY <1>2
<1>4. PICK k \in Nat : k >= m /\ k >= y.id
  BY <1>3
<1>5. \A x \in R : x.id \in Nat
  BY DEF RowsOK, Row
<1>6. \A x \in R \cup {y} : x.id <= k
  BY <1>1, <1>2, <1>4, <1>5
<1> QED
  BY <1>6 DEF RowsOK

LEMMA JobFields ==
  ASSUME NEW j \in Job
  PROVE  /\ j = [at |-> j.at, kind |-> j.kind, s |-> j.s, apn |-> j.apn,
                 from |-> j.from, todo |-> j.todo, row |-> j.row,
                 more |-> j.more]
         /\ j.s \in Session \cup {None} /\ j.apn \in Apn
         /\ j.from \in Site \cup {None} /\ j.todo \subseteq Nat
         /\ j.row \in Nat /\ j.more \subseteq Listed
         /\ j.kind \in {"set", "clear", "deregister"}
BY DEF Job

LEMMA HandlerIsJob ==
  ASSUME NEW at \in {"idle", "scan", "prune", "check", "find", "update",
                     "undo", "read", "create", "reread", "delete", "copy",
                     "accept", "respond"},
         NEW kind \in {"set", "clear", "deregister"},
         NEW s \in Session \cup {None}, NEW apn \in Apn,
         NEW from \in Site \cup {None}
  PROVE  Handler(at, kind, s, apn, from) \in Job
BY DEF Handler, Job

LEMMA IdleOK ==
  ASSUME NEW t \in Thread, NEW n \in Nat
  PROVE  /\ JobOK(t, Idle, n) /\ Idle.from = None /\ Idle.at = "idle"
         /\ \A h \in Site : h # SiteOf[t] /\ t \in Api =>
              JobOK(t, [Idle EXCEPT !.at = "respond", !.from = h], n)
<1>1. LastListed \in Apn
  BY ServingAssumption
<1>2. Idle \in Job
  BY <1>1, HandlerIsJob DEF Idle
<1>3. /\ Idle.s = None /\ Idle.at = "idle" /\ Idle.from = None
      /\ Idle.kind = "set"
  BY DEF Idle, Handler
<1>4. \A h \in Site : [Idle EXCEPT !.at = "respond", !.from = h] \in Job
  BY <1>2 DEF Job
<1>5. ASSUME NEW h \in Site, h # SiteOf[t], t \in Api
      PROVE  JobOK(t, [Idle EXCEPT !.at = "respond", !.from = h], n)
  <2>1. h # None
    BY ServingAssumption
  <2> QED
    BY <1>2, <1>3, <1>4, <1>5, <2>1 DEF JobOK, Sets, Job
<1> QED
  BY <1>2, <1>3, <1>5 DEF JobOK, Sets

LEMMA OverOK ==
  ASSUME NEW t \in Thread, NEW n \in Nat, NEW j, JobOK(t, j, n)
  PROVE  /\ JobOK(t, Over(j), n)
         /\ Over(j).from = j.from
         /\ Over(j).at = IF j.from = None THEN "idle" ELSE "respond"
<1>1. j.from # None => j.from \in Site /\ t \in Api /\ j.from # SiteOf[t]
  BY DEF JobOK, Job
<1>2. CASE j.from = None
  BY <1>2, IdleOK DEF Over
<1>3. CASE j.from # None
  BY <1>1, <1>3, IdleOK DEF Over, Idle, Handler
<1> QED
  BY <1>2, <1>3

\* A handler goes on to another place.
LEMMA GoesOK ==
  ASSUME NEW t \in Thread, NEW n \in Nat, NEW j, JobOK(t, j, n),
         NEW at \in {"scan", "prune", "check", "find", "update", "undo",
                     "read", "create", "reread", "delete", "copy", "accept"},
         j.at \notin {"idle", "respond"},
         at \in Sets => j.kind = "set",
         at = "check" => FALSE,
         at = "delete" => j.kind # "set",
         at = "accept" => j.from = None,
         j.at = "check" => j.apn \in Listed /\ j.s # None,
         NEW todo \in SUBSET Nat, NEW row \in Nat
  PROVE  JobOK(t, [j EXCEPT !.at = at, !.todo = todo, !.row = row], n)
<1>1. [j EXCEPT !.at = at, !.todo = todo, !.row = row] \in Job
  BY DEF JobOK, Job
<1> QED
  BY <1>1, JobFields DEF JobOK, Sets

\* Nobody but t changes what it is at.
LEMMA OneJob ==
  ASSUME TypeInv, NEW t \in Thread, NEW j, job' = [job EXCEPT ![t] = j],
         NEW n \in Nat, JobOK(t, j, n),
         \A u \in Thread : JobOK(u, job[u], n)
  PROVE  /\ job' \in [Thread -> Job]
         /\ \A u \in Thread : JobOK(u, job'[u], n)
         /\ job'[t] = j
         /\ \A u \in Thread \ {t} : job'[u] = job[u]
BY DEF TypeInv, TypeOK, JobOK

\* One thread on each queue, whose head stays.
LEMMA HandKept ==
  ASSUME TypeInv, NEW t \in Thread, NEW j, job' = [job EXCEPT ![t] = j],
         j.from \in {job[t].from, None},
         \A h, g \in Site : mail[h][g] # << >> => mail'[h][g] # << >>
  PROVE  HandInv'
<1>1. job'[t] = j /\ \A u \in Thread \ {t} : job'[u] = job[u]
  BY DEF TypeInv, TypeOK
<1>2. SUFFICES ASSUME NEW u \in Thread, job'[u].from # None
      PROVE  /\ mail'[job'[u].from][SiteOf[u]] # << >>
             /\ \A v \in Thread :
                  job'[v].from = job'[u].from /\ SiteOf[v] = SiteOf[u] => v = u
  BY DEF HandInv
<1>3. job'[u].from = job[u].from
  BY <1>1, <1>2
<1>4. job[u].from \in Site /\ SiteOf[u] \in Site
  BY <1>2, <1>3, ServingAssumption DEF TypeInv, TypeOK, Job
<1>5. mail'[job'[u].from][SiteOf[u]] # << >>
  BY <1>2, <1>3, <1>4 DEF TypeInv, HandInv
<1>6. ASSUME NEW v \in Thread, job'[v].from = job'[u].from,
             SiteOf[v] = SiteOf[u]
      PROVE  v = u
  <2>1. job[v].from = job[u].from
    BY <1>1, <1>2, <1>3, <1>6
  <2> QED
    BY <1>2, <1>3, <1>6, <2>1 DEF TypeInv, HandInv
<1> QED
  BY <1>5, <1>6

-----------------------------------------------------------------------------
(***************************************************************************)
(* The steps of a handler.                                                 *)
(***************************************************************************)

LEMMA Typed ==
  ASSUME TypeInv, NEW t \in Thread
  PROVE  /\ job[t] \in Job /\ job[t].row \in Nat /\ SiteOf[t] \in Site
         /\ JobOK(t, job[t], Len(pdn)) /\ Len(pdn) \in Nat
         /\ rows[SiteOf[t]] \subseteq Row /\ RowsOK(rows[SiteOf[t]], Len(pdn))
<1>1. job[t] \in Job /\ SiteOf[t] \in Site
  BY ServingAssumption DEF TypeInv, TypeOK
<1>2. job[t].row \in Nat
  BY <1>1 DEF Job
<1> QED
  BY <1>1, <1>2 DEF TypeInv, TypeOK

Others(t) == \A h \in Site \ {SiteOf[t]} : rows'[h] = rows[h]

\* What a step does to the rows of its site.
LEMMA WithoutRow ==
  ASSUME TypeInv, NEW t \in Thread, NEW id, rows' = Without(SiteOf[t], id)
  PROVE  /\ rows' \in [Site -> SUBSET Row]
         /\ Others(t)
         /\ rows'[SiteOf[t]] = {x \in rows[SiteOf[t]] : x.id # id}
BY ServingAssumption DEF TypeInv, TypeOK, Without, Others

LEMMA PruneRows ==
  ASSUME TypeInv, NEW t \in Thread, Prune(t)
  PROVE  LET id == Min(job[t].todo)
         IN  /\ rows' \in [Site -> SUBSET Row]
             /\ Others(t)
             /\ rows'[SiteOf[t]] = {x \in rows[SiteOf[t]] : x.id # id}
             /\ id \in job[t].todo
<1>1. job[t].todo \in SUBSET Nat /\ job[t].todo # {}
  BY DEF TypeInv, TypeOK, Job, Prune
<1> QED
  BY <1>1, LeastOf, WithoutRow DEF Prune

LEMMA NewRow ==
  ASSUME NEW t \in Thread, NEW n \in Nat, NEW j, JobOK(t, j, n),
         j.at \in {"update", "create"}, NEW id \in Nat
  PROVE  /\ New(j, id) \in Row /\ New(j, id).s = j.s /\ New(j, id).id = id
         /\ New(j, id).apn = RowApn(j.apn) /\ j.s \in 1 .. n
         /\ RowApn(j.apn) \in Listed
<1>1. RowApn(j.apn) \in Listed
  BY ServingAssumption DEF RowApn
<1>2. j.kind = "set" /\ j.s # None
  BY DEF JobOK, Sets
<1>3. j.s \in 1 .. n /\ j.s \in Session
  BY <1>2 DEF JobOK, Job
<1> QED
  BY <1>1, <1>3 DEF New, Row

LEMMA UpdateRows ==
  ASSUME TypeInv, NEW t \in Thread, UpdateRow(t)
  PROVE  LET h == SiteOf[t]
             j == job[t]
         IN  IF HasRow(h, j.row)
             THEN /\ rows' \in [Site -> SUBSET Row]
                  /\ Others(t)
                  /\ rows'[h] = {x \in rows[h] : x.id # j.row}
                                \cup {New(j, j.row)}
                  /\ job' = [job EXCEPT ![t].at = "read"]
             ELSE /\ UNCHANGED rows
                  /\ job' = [job EXCEPT ![t].at = "create"]
<1>1. CASE HasRow(SiteOf[t], job[t].row)
  <2>1. New(job[t], job[t].row) \in Row
    BY Typed, NewRow DEF UpdateRow
  <2>2. /\ Without(SiteOf[t], job[t].row) \in [Site -> SUBSET Row]
        /\ \A h \in Site \ {SiteOf[t]} :
             Without(SiteOf[t], job[t].row)[h] = rows[h]
        /\ Without(SiteOf[t], job[t].row)[SiteOf[t]]
             = {x \in rows[SiteOf[t]] : x.id # job[t].row}
    BY ServingAssumption DEF TypeInv, TypeOK, Without
  <2>3. rows' = [Without(SiteOf[t], job[t].row) EXCEPT
                   ![SiteOf[t]] = @ \cup {New(job[t], job[t].row)}]
    BY <1>1 DEF UpdateRow
  <2>4. SiteOf[t] \in Site
    BY ServingAssumption
  <2> QED
    BY <1>1, <2>1, <2>2, <2>3, <2>4 DEF UpdateRow, Goes, Others
<1>2. CASE ~HasRow(SiteOf[t], job[t].row)
  BY <1>2 DEF UpdateRow, Goes
<1> QED
  BY <1>1, <1>2

NewId(h) == 1 + Max({0} \cup Ids(rows[h]))

LEMMA CreateRows ==
  ASSUME TypeInv, NEW t \in Thread, Create(t)
  PROVE  LET h == SiteOf[t]
             j == job[t]
         IN  /\ rows' \in [Site -> SUBSET Row]
             /\ Others(t)
             /\ rows'[h] = rows[h] \cup {New(j, NewId(h))}
             /\ NewId(h) \in Nat \ {0}
             /\ \A x \in rows[h] : x.id < NewId(h)
             /\ New(j, NewId(h)) \in Row
<1>1. SiteOf[t] \in Site
  BY ServingAssumption
<1>2. /\ NewId(SiteOf[t]) \in Nat \ {0}
      /\ \A x \in rows[SiteOf[t]] : x.id < NewId(SiteOf[t])
  BY <1>1, NewNumber DEF NewId, TypeInv
<1>3. New(job[t], NewId(SiteOf[t])) \in Row
  BY <1>2, NewRow DEF Create, TypeInv, TypeOK
<1>4. rows' = [rows EXCEPT ![SiteOf[t]] =
                 @ \cup {New(job[t], NewId(SiteOf[t]))}]
  BY DEF Create, NewId, Ids
<1> QED
  BY <1>1, <1>2, <1>3, <1>4 DEF TypeInv, TypeOK, Others

LEMMA RowsTyped ==
  ASSUME TypeInv, NEW t \in Thread, Store(t)
  PROVE  /\ rows' \in [Site -> SUBSET Row]
         /\ Others(t)
         /\ \A h \in Site : RowsOK(rows'[h], Len(pdn))
<1>1. /\ \A h \in Site : RowsOK(rows[h], Len(pdn))
      /\ SiteOf[t] \in Site /\ Len(pdn) \in Nat
      /\ rows \in [Site -> SUBSET Row]
  BY ServingAssumption DEF TypeInv, TypeOK
<1>2. CASE UNCHANGED rows
  BY <1>1, <1>2 DEF Others
<1>3. ASSUME NEW id, rows' \in [Site -> SUBSET Row], Others(t),
             rows'[SiteOf[t]] = {x \in rows[SiteOf[t]] : x.id # id}
      PROVE  \A h \in Site : RowsOK(rows'[h], Len(pdn))
  BY <1>1, <1>3, FewerRows DEF Others
<1>4. CASE Prune(t)
  BY <1>3, <1>4, PruneRows
<1>5. CASE Undo(t) \/ Delete(t)
  <2>1. rows' = Without(SiteOf[t], job[t].row)
    BY <1>5 DEF Undo, Delete
  <2>2. /\ rows' \in [Site -> SUBSET Row] /\ Others(t)
        /\ rows'[SiteOf[t]] = {x \in rows[SiteOf[t]] : x.id # job[t].row}
    BY <2>1, WithoutRow
  <2>3. \A h \in Site : RowsOK(rows'[h], Len(pdn))
    BY <1>3, <2>2
  <2> QED
    BY <2>2, <2>3
<1>6. CASE UpdateRow(t)
  <2>1. CASE HasRow(SiteOf[t], job[t].row)
    <3>1. /\ New(job[t], job[t].row) \in Row
          /\ New(job[t], job[t].row).s \in 1 .. Len(pdn)
          /\ New(job[t], job[t].row).id = job[t].row
      BY <1>6, Typed, NewRow DEF UpdateRow
    <3>2. job[t].row # 0
      BY <1>1, <2>1 DEF HasRow, RowsOK
    <3>3. RowsOK({x \in rows[SiteOf[t]] : x.id # job[t].row}, Len(pdn))
      BY <1>1, FewerRows
    <3>4. RowsOK(rows'[SiteOf[t]], Len(pdn))
      BY <1>1, <1>6, <2>1, <3>1, <3>2, <3>3, UpdateRows, OneMoreRow
    <3> QED
      BY <1>1, <1>6, <2>1, <3>4, UpdateRows DEF Others
  <2> QED
    BY <1>2, <1>6, <2>1, UpdateRows
<1>7. CASE Create(t)
  <2>1. /\ New(job[t], NewId(SiteOf[t])) \in Row
        /\ New(job[t], NewId(SiteOf[t])).s \in 1 .. Len(pdn)
        /\ New(job[t], NewId(SiteOf[t])).id = NewId(SiteOf[t])
    <3>1. NewId(SiteOf[t]) \in Nat /\ job[t].at = "create"
      BY <1>7, CreateRows DEF Create
    <3> QED
      BY <3>1, Typed, NewRow
  <2>2. RowsOK(rows'[SiteOf[t]], Len(pdn))
    <3>1. \A x \in rows[SiteOf[t]] : x.id # NewId(SiteOf[t])
      <4>1. \A x \in rows[SiteOf[t]] : x.id < NewId(SiteOf[t]) /\ x.id \in Nat
        BY <1>1, <1>7, CreateRows DEF RowsOK, Row
      <4>2. NewId(SiteOf[t]) \in Nat
        BY <1>7, CreateRows
      <4> QED
        BY <4>1, <4>2
    <3>2. RowsOK(rows[SiteOf[t]] \cup {New(job[t], NewId(SiteOf[t]))},
                 Len(pdn))
      <4> DEFINE y == New(job[t], NewId(SiteOf[t]))
      <4>1. y \in Row /\ y.s \in 1 .. Len(pdn) /\ y.id = NewId(SiteOf[t])
        BY <2>1
      <4>2. y.id # 0 /\ \A x \in rows[SiteOf[t]] : x.id # y.id
        BY <1>7, <3>1, <4>1, CreateRows
      <4> HIDE DEF y
      <4>3. RowsOK(rows[SiteOf[t]] \cup {y}, Len(pdn))
        BY <1>1, <4>1, <4>2, OneMoreRow
      <4> QED
        BY <4>3 DEF y
    <3> QED
      BY <1>7, <3>2, CreateRows
  <2> QED
    BY <1>1, <1>7, <2>2, CreateRows DEF Others
<1> QED
  BY <1>2, <1>3, <1>4, <1>5, <1>6, <1>7, PruneRows, WithoutRow
     DEF Store, Check, Scan, Find, Read, Reread, QueueCopy, Fails, Reads,
         Undo, Delete

LEMMA CopiedOK ==
  ASSUME NEW t \in Thread, NEW n \in Nat, NEW j, JobOK(t, j, n),
         j.at = "copy"
  PROVE  JobOK(t, Copied(j), n) /\ Copied(j).from = j.from
<1>1. CASE j.kind = "set" /\ j.from = None
  <2>1. Copied(j) = [j EXCEPT !.at = "accept", !.todo = j.todo, !.row = 0]
    BY <1>1 DEF Copied, JobOK, Job
  <2>2. j.todo \in SUBSET Nat
    BY DEF JobOK, Job
  <2>3. JobOK(t, [j EXCEPT !.at = "accept", !.todo = j.todo, !.row = 0], n)
    BY <1>1, <2>2, GoesOK DEF Sets
  <2>4. Copied(j).from = j.from
    BY <2>1 DEF JobOK, Job
  <2> QED
    BY <2>1, <2>3, <2>4
<1>2. CASE j.kind = "deregister" /\ j.more # {}
  <2> DEFINE a == NextApn(j.more)
             k == [j EXCEPT !.at = "find", !.apn = a, !.more = @ \ {a},
                            !.row = 0]
  <2>1. a \in j.more /\ j.more \subseteq Listed /\ Listed \subseteq Apn
    BY <1>2, ServingAssumption DEF NextApn, JobOK, Job
  <2>2. Copied(j) = k
    BY <1>2 DEF Copied
  <2>3. k \in Job /\ k.from = j.from /\ k.kind = "deregister" /\ k.apn = a
        /\ k.at = "find" /\ k.s = j.s
    BY <1>2, <2>1 DEF JobOK, Job
  <2> HIDE DEF k
  <2> QED
    BY <1>2, <2>1, <2>2, <2>3 DEF JobOK, Sets
<1>3. CASE ~(j.kind = "set" /\ j.from = None)
           /\ ~(j.kind = "deregister" /\ j.more # {})
  <2>1. Copied(j) = Over(j)
    BY <1>3 DEF Copied
  <2> QED
    BY <2>1, OverOK
<1> QED
  BY <1>1, <1>2, <1>3

\* What a handler that goes on is at.
LEMMA StoreJob ==
  ASSUME TypeInv, NEW t \in Thread, Store(t)
  PROVE  \E j : /\ job' = [job EXCEPT ![t] = j]
                /\ JobOK(t, j, Len(pdn)) /\ j.from = job[t].from
<1>1. /\ job[t] \in Job /\ job[t].row \in Nat /\ JobOK(t, job[t], Len(pdn))
      /\ Len(pdn) \in Nat /\ job[t].todo \in SUBSET Nat
      /\ job \in [Thread -> Job]
  BY Typed DEF TypeInv, TypeOK, Job
<1>2. ASSUME NEW at \in {"scan", "prune", "check", "find", "update", "undo",
                         "read", "create", "reread", "delete", "copy",
                         "accept"},
             job[t].at \notin {"idle", "respond"},
             at \in Sets => job[t].kind = "set",
             at # "check",
             at = "delete" => job[t].kind # "set",
             at = "accept" => job[t].from = None,
             job[t].at = "check" => job[t].apn \in Listed /\ job[t].s # None,
             NEW todo \in SUBSET Nat, NEW row \in Nat,
             job' = [job EXCEPT ![t] = [job[t] EXCEPT !.at = at, !.todo = todo,
                                                      !.row = row]]
      PROVE  \E j : /\ job' = [job EXCEPT ![t] = j]
                    /\ JobOK(t, j, Len(pdn)) /\ j.from = job[t].from
  <2> DEFINE k == [job[t] EXCEPT !.at = at, !.todo = todo, !.row = row]
  <2>1. JobOK(t, k, Len(pdn))
    BY <1>1, <1>2, GoesOK
  <2>2. k.from = job[t].from
    BY <1>1 DEF Job
  <2> HIDE DEF k
  <2>3. job' = [job EXCEPT ![t] = k]
    BY <1>2 DEF k
  <2> QED
    BY <2>1, <2>2, <2>3
<1>3. ASSUME NEW at, Goes(t, at)
      PROVE  job' = [job EXCEPT ![t] = [job[t] EXCEPT !.at = at,
                                          !.todo = job[t].todo,
                                          !.row = job[t].row]]
  <2>1. [job[t] EXCEPT !.at = at, !.todo = job[t].todo, !.row = job[t].row]
          = [job[t] EXCEPT !.at = at]
    BY <1>1 DEF Job
  <2> QED
    BY <1>1, <1>3, <2>1 DEF Goes
<1>4. ASSUME NEW at \in {"find", "copy", "read", "create", "reread", "undo"},
             Goes(t, at), job[t].at \notin {"idle", "respond"},
             at \in Sets => job[t].kind = "set",
             job[t].at = "check" => job[t].apn \in Listed /\ job[t].s # None
      PROVE  \E j : /\ job' = [job EXCEPT ![t] = j]
                    /\ JobOK(t, j, Len(pdn)) /\ j.from = job[t].from
  <2>1. job' = [job EXCEPT ![t] = [job[t] EXCEPT !.at = at,
                                     !.todo = job[t].todo,
                                     !.row = job[t].row]]
    BY <1>3, <1>4
  <2>2. at # "check" /\ at # "delete" /\ at # "accept"
    BY <1>4
  <2>3. at \in {"scan", "prune", "check", "find", "update", "undo", "read",
                "create", "reread", "delete", "copy", "accept"}
    BY <1>4
  <2> QED
    BY <1>1, <1>2, <1>4, <2>1, <2>2, <2>3
<1>5. ASSUME Ends(t)
      PROVE  \E j : /\ job' = [job EXCEPT ![t] = j]
                    /\ JobOK(t, j, Len(pdn)) /\ j.from = job[t].from
  <2>1. job' = [job EXCEPT ![t] = Over(job[t])]
    BY <1>1, <1>5 DEF Ends
  <2> QED
    BY <1>1, <2>1, OverOK
<1>6. CASE Check(t)
  <2>1. CASE Ends(t)
    BY <1>5, <2>1
  <2>2. CASE ~Ends(t)
    <3>1. /\ Goes(t, "find") /\ job[t].apn \in Listed /\ job[t].at = "check"
          /\ \E x \in rows[SiteOf[t]] : x.s = job[t].s
      BY <1>6, <2>2 DEF Check
    <3>2. job[t].s # None
      BY <3>1, Typed, ServingAssumption DEF Row, Session
    <3> QED
      BY <1>4, <3>1, <3>2 DEF Sets
  <2> QED
    BY <2>1, <2>2
<1>7. CASE Scan(t)
  <2> DEFINE todo == {x.id : x \in Duplicates(SiteOf[t], job[t])}
  <2>1. todo \in SUBSET Nat
    BY Typed DEF Duplicates, Row
  <2>2. job[t].at = "scan" /\ job[t].kind = "set"
    BY <1>1, <1>7 DEF Scan, JobOK, Sets
  <2>3. job' = [job EXCEPT ![t] = [job[t] EXCEPT !.at = "prune",
                                     !.todo = todo, !.row = job[t].row]]
    <3>1. [job[t] EXCEPT !.at = "prune", !.todo = todo, !.row = job[t].row]
            = [job[t] EXCEPT !.at = "prune", !.todo = todo]
      BY <1>1 DEF Job
    <3> QED
      BY <1>1, <1>7, <3>1 DEF Scan
  <2> QED
    BY <1>1, <1>2, <2>1, <2>2, <2>3
<1>8. CASE Prune(t)
  <2>1. job[t].at = "prune" /\ job[t].kind = "set"
    BY <1>1, <1>8 DEF Prune, JobOK, Sets
  <2>2. \E todo \in SUBSET Nat :
          job' = [job EXCEPT ![t] = [job[t] EXCEPT !.at = "prune",
                                       !.todo = todo, !.row = job[t].row]]
    <3>1. \A todo : [job[t] EXCEPT !.at = "prune", !.todo = todo,
                                   !.row = job[t].row]
                      = [job[t] EXCEPT !.todo = todo]
      BY <1>1, <2>1 DEF Job
    <3>2. \E todo \in SUBSET Nat :
            job' = [job EXCEPT ![t] = [job[t] EXCEPT !.todo = todo]]
      BY <1>1, <1>8 DEF Prune
    <3> QED
      BY <3>1, <3>2
  <2> QED
    BY <1>1, <1>2, <2>1, <2>2
<1>9. CASE Find(t)
  <2> DEFINE id == FirstRow(SiteOf[t], RowApn(job[t].apn))
  <2>1. id \in Nat
    BY Typed, FirstFound DEF RowsOK
  <2>2. PICK at : /\ Found(t, at, id)
                  /\ IF job[t].kind = "set" THEN at \in {"create", "update"}
                     ELSE at \in {"copy", "delete"}
    BY <1>9 DEF Find
  <2>3. job' = [job EXCEPT ![t] = [job[t] EXCEPT !.at = at,
                                     !.todo = job[t].todo, !.row = id]]
    <3>1. [job[t] EXCEPT !.at = at, !.todo = job[t].todo, !.row = id]
            = [job[t] EXCEPT !.at = at, !.row = id]
      BY <1>1 DEF Job
    <3> QED
      BY <1>1, <2>2, <3>1 DEF Found
  <2>4. job[t].at \in {"find", "prune"}
    BY <1>9 DEF Find
  <2> HIDE DEF id
  <2> QED
    BY <1>1, <1>2, <2>1, <2>2, <2>3, <2>4 DEF Sets
<1>10. CASE UpdateRow(t)
  <2>1. job[t].at = "update" /\ job[t].kind = "set"
    BY <1>1, <1>10 DEF UpdateRow, JobOK, Sets
  <2>2. Goes(t, "read") \/ Goes(t, "create")
    BY <1>10 DEF UpdateRow
  <2> QED
    BY <1>4, <2>1, <2>2
<1>11. CASE Undo(t) \/ Read(t)
  <2>1. job[t].at \in {"undo", "read"} /\ job[t].kind = "set"
    BY <1>1, <1>11 DEF Undo, Read, JobOK, Sets
  <2>2. Goes(t, "copy") \/ Goes(t, "create")
    BY <1>11 DEF Undo, Read
  <2> QED
    BY <1>4, <2>1, <2>2 DEF Sets
<1>12. CASE Create(t)
  <2>1. job[t].at = "create" /\ job[t].kind = "set" /\ Goes(t, "reread")
    BY <1>1, <1>12 DEF Create, JobOK, Sets
  <2> QED
    BY <1>4, <2>1
<1>13. CASE Reread(t)
  <2>1. job[t].at = "reread" /\ (Ends(t) \/ Goes(t, "copy"))
    BY <1>13 DEF Reread
  <2> QED
    BY <1>4, <1>5, <2>1 DEF Sets
<1>14. CASE Delete(t)
  <2>1. job[t].at = "delete" /\ Goes(t, "copy")
    BY <1>14 DEF Delete
  <2> QED
    BY <1>4, <2>1 DEF Sets
<1>15. CASE QueueCopy(t)
  <2>1. job[t].at = "copy" /\ job' = [job EXCEPT ![t] = Copied(job[t])]
    BY <1>1, <1>15 DEF QueueCopy
  <2> QED
    BY <1>1, <2>1, CopiedOK
<1>16. CASE Fails(t)
  <2>1. PICK at : /\ at = AfterFailure[job[t].at]
                  /\ job' = [job EXCEPT ![t].at = at, ![t].todo = {}]
    BY <1>1, <1>16 DEF Fails
  <2>2. /\ job[t].at \in {"scan", "prune", "update", "undo", "delete"}
        /\ at \in {"find", "undo", "create", "copy"}
        /\ at \in Sets => job[t].kind = "set"
    BY <1>1, <1>16, <2>1 DEF Fails, AfterFailure, JobOK, Sets
  <2>3. job' = [job EXCEPT ![t] = [job[t] EXCEPT !.at = at, !.todo = {},
                                                 !.row = job[t].row]]
    <3>1. [job[t] EXCEPT !.at = at, !.todo = {}, !.row = job[t].row]
            = [job[t] EXCEPT !.at = at, !.todo = {}]
      BY <1>1 DEF Job
    <3> QED
      BY <1>1, <2>1, <3>1
  <2> QED
    BY <1>1, <1>2, <2>2, <2>3
<1> QED
  BY <1>6, <1>7, <1>8, <1>9, <1>10, <1>11, <1>12, <1>13, <1>14, <1>15, <1>16
     DEF Store

-----------------------------------------------------------------------------
(***************************************************************************)
(* Type correctness.                                                       *)
(***************************************************************************)

\* Queues of copies.
LEMMA QueueEnds ==
  ASSUME NEW m \in Seq(Copy), NEW n, MailOK(m, n), NEW c \in Copy, CopyOK(c, n)
  PROVE  Append(m, c) \in Seq(Copy) /\ MailOK(Append(m, c), n)
BY AppendProperties DEF MailOK

LEMMA QueueBegins ==
  ASSUME NEW m \in Seq(Copy), NEW n, MailOK(m, n), m # << >>
  PROVE  /\ Tail(m) \in Seq(Copy) /\ MailOK(Tail(m), n)
         /\ Head(m) \in Copy /\ CopyOK(Head(m), n)
<1>1. /\ Tail(m) \in Seq(Copy) /\ Len(Tail(m)) = Len(m) - 1
      /\ \A i \in 1 .. Len(Tail(m)) : Tail(m)[i] = m[i + 1]
      /\ Head(m) = m[1] /\ 1 \in 1 .. Len(m) /\ Len(m) \in Nat
  BY HeadTailProperties, EmptySeq
<1>2. \A i \in 1 .. Len(Tail(m)) : i + 1 \in 1 .. Len(m)
  BY <1>1
<1> QED
  BY <1>1, <1>2, ElementOfSeq DEF MailOK

\* More sessions.
LEMMA MoreSessions ==
  ASSUME NEW n \in Nat
  PROVE  /\ \A t, j : JobOK(t, j, n) => JobOK(t, j, n + 1)
         /\ \A R : RowsOK(R, n) => RowsOK(R, n + 1)
         /\ \A m : MailOK(m, n) => MailOK(m, n + 1)
<1>1. 1 .. n \subseteq 1 .. (n + 1)
  OBVIOUS
<1>2. \A t, j : JobOK(t, j, n) => JobOK(t, j, n + 1)
  BY <1>1 DEF JobOK
<1>3. \A R : RowsOK(R, n) => RowsOK(R, n + 1)
  BY <1>1 DEF RowsOK
<1>4. \A m : MailOK(m, n) => MailOK(m, n + 1)
  BY <1>1 DEF MailOK, CopyOK
<1> QED
  BY <1>2, <1>3, <1>4

\* A session changes.
LEMMA PdnChanged ==
  ASSUME pdn \in Seq(Pdn), NEW s \in 1 .. Len(pdn),
         NEW at \in {"new", "asked", "up", "over"},
         pdn' = [pdn EXCEPT ![s].at = at]
  PROVE  /\ pdn' \in Seq(Pdn) /\ Len(pdn') = Len(pdn)
         /\ \A i \in 1 .. Len(pdn) :
              /\ pdn'[i].apn = pdn[i].apn /\ pdn'[i].ip = pdn[i].ip
              /\ pdn'[i].at = IF i = s THEN at ELSE pdn[i].at
<1>1. pdn[s] \in Pdn /\ \A i \in 1 .. Len(pdn) : pdn[i] \in Pdn
  BY ElementOfSeq
<1>2. [pdn[s] EXCEPT !.at = at] \in Pdn
  BY <1>1 DEF Pdn
<1>3. pdn' = [pdn EXCEPT ![s] = [pdn[s] EXCEPT !.at = at]]
  OBVIOUS
<1>4. pdn' \in Seq(Pdn) /\ Len(pdn') = Len(pdn)
  BY <1>2, <1>3, ExceptSeq
<1>5. \A i \in 1 .. Len(pdn) :
        pdn'[i] = IF i = s THEN [pdn[s] EXCEPT !.at = at] ELSE pdn[i]
  BY <1>3
<1> QED
  BY <1>1, <1>4, <1>5 DEF Pdn

\* A handler begins, or ends.
LEMMA JobsTyped ==
  ASSUME TypeInv, NEW t \in Thread, NEW j, job' = [job EXCEPT ![t] = j],
         JobOK(t, j, Len(pdn)), Len(pdn') = Len(pdn)
  PROVE  /\ job' \in [Thread -> Job]
         /\ \A u \in Thread : JobOK(u, job'[u], Len(pdn'))
<1>1. Len(pdn) \in Nat /\ \A u \in Thread : JobOK(u, job[u], Len(pdn))
  BY DEF TypeInv, TypeOK
<1> QED
  BY <1>1, OneJob

CurrentOK(n) ==
  /\ current \in [Listed -> Session \cup {None}]
  /\ \A a \in Listed : current[a] # None => current[a] \in 1 .. n

MailTyped ==
  /\ mail \in [Site -> [Site -> Seq(Copy)]]
  /\ \A h, g \in Site : MailOK(mail[h][g], Len(pdn))
  /\ \A h \in Site : mail[h][h] = << >>

Counted == cause \subseteq Cause /\ requests \in Nat /\ faults \in Nat

LEMMA TypeParts ==
  TypeInv <=> /\ pdn \in Seq(Pdn)
              /\ CurrentOK(Len(pdn))
              /\ rows \in [Site -> SUBSET Row]
              /\ \A h \in Site : RowsOK(rows[h], Len(pdn))
              /\ job \in [Thread -> Job]
              /\ \A t \in Thread : JobOK(t, job[t], Len(pdn))
              /\ MailTyped /\ HandInv /\ Counted
BY DEF TypeInv, TypeOK, CurrentOK, MailTyped, Counted

LEMMA InitTypeInv == Init => TypeInv
<1> SUFFICES ASSUME Init
             PROVE  TypeInv
  OBVIOUS
<1>1. pdn \in Seq(Pdn) /\ Len(pdn) = 0
  BY EmptySeq DEF Init
<1>2. CurrentOK(Len(pdn)) /\ Counted
  BY ServingAssumption DEF Init, CurrentOK, Counted
<1>3. /\ rows \in [Site -> SUBSET Row]
      /\ \A h \in Site : RowsOK(rows[h], Len(pdn))
  BY DEF Init, RowsOK
<1>4. /\ \A t \in Thread : job[t] = Idle /\ JobOK(t, Idle, 0) /\ Idle \in Job
      /\ job \in [Thread -> Job]
  BY IdleOK DEF Init, JobOK
<1>5. MailTyped
  BY EmptySeq DEF Init, MailTyped, MailOK
<1>6. HandInv
  BY <1>4, IdleOK DEF HandInv
<1> QED
  BY <1>1, <1>2, <1>3, <1>4, <1>5, <1>6, TypeParts

LEMMA AttachTypes ==
  ASSUME TypeInv, Attach
  PROVE  TypeInv'
<1>1. PICK apn \in Apn, ip \in Ip :
        pdn' = Append(pdn, [apn |-> apn, ip |-> ip, at |-> "new"])
  BY DEF Attach
<1>2. [apn |-> apn, ip |-> ip, at |-> "new"] \in Pdn
  BY DEF Pdn
<1>3. pdn' \in Seq(Pdn) /\ Len(pdn') = Len(pdn) + 1 /\ Len(pdn) \in Nat
  BY <1>1, <1>2, AppendProperties DEF TypeInv, TypeOK
<1>4. 1 .. Len(pdn) \subseteq 1 .. Len(pdn')
  BY <1>3
<1>5. UNCHANGED <<current, rows, job, mail, cause, requests, faults>>
  BY DEF Attach
<1>6. CurrentOK(Len(pdn))' /\ Counted' /\ HandInv'
  BY <1>4, <1>5 DEF TypeInv, TypeOK, CurrentOK, Counted, HandInv
<1>7. /\ \A h \in Site : RowsOK(rows'[h], Len(pdn'))
      /\ \A t \in Thread : JobOK(t, job'[t], Len(pdn'))
      /\ \A h, g \in Site : MailOK(mail'[h][g], Len(pdn'))
  BY <1>3, <1>5, MoreSessions DEF TypeInv
<1>8. MailTyped'
  BY <1>5, <1>7 DEF TypeInv, TypeOK, MailTyped
<1>9. rows' \in [Site -> SUBSET Row] /\ job' \in [Thread -> Job]
  BY <1>5 DEF TypeInv, TypeOK
<1> QED
  BY <1>3, <1>6, <1>7, <1>8, <1>9 DEF TypeInv, TypeOK, CurrentOK, MailTyped,
                                      Counted

LEMMA DetachTypes ==
  ASSUME TypeInv, Detach
  PROVE  TypeInv'
<1>1. pdn' \in Seq(Pdn) /\ Len(pdn') = Len(pdn)
  BY PdnChanged DEF Detach, TypeInv, TypeOK
<1>2. UNCHANGED <<current, rows, job, mail, cause, requests, faults>>
  BY DEF Detach
<1> QED
  BY <1>1, <1>2 DEF TypeInv, TypeOK, HandInv

\* The other steps end like this.
LEMMA StepTypes ==
  ASSUME TypeInv, NEW t \in Thread, NEW j, job' = [job EXCEPT ![t] = j],
         JobOK(t, j, Len(pdn)), Len(pdn') = Len(pdn), pdn' \in Seq(Pdn),
         CurrentOK(Len(pdn))', HandInv',
         \/ UNCHANGED rows
         \/ /\ rows' \in [Site -> SUBSET Row]
            /\ \A h \in Site : RowsOK(rows'[h], Len(pdn)),
         UNCHANGED mail \/ MailTyped', Counted'
  PROVE  TypeInv'
<1>1. /\ job' \in [Thread -> Job]
      /\ \A u \in Thread : JobOK(u, job'[u], Len(pdn'))
  BY JobsTyped
<1>2. /\ rows' \in [Site -> SUBSET Row]
      /\ \A h \in Site : RowsOK(rows'[h], Len(pdn'))
  BY DEF TypeInv, TypeOK
<1>3. MailTyped'
  BY DEF TypeInv, TypeOK, MailTyped
<1> QED
  BY <1>1, <1>2, <1>3 DEF TypeInv, TypeOK, CurrentOK, MailTyped, Counted

LEMMA SessionOf ==
  ASSUME TypeInv, NEW s \in 1 .. Len(pdn)
  PROVE  /\ pdn \in Seq(Pdn) /\ Len(pdn) \in Nat /\ s \in Session
         /\ pdn[s] \in Pdn /\ pdn[s].apn \in Apn /\ pdn[s].ip \in Ip
<1>1. pdn \in Seq(Pdn) /\ Len(pdn) \in Nat
  BY DEF TypeInv, TypeOK
<1>2. pdn[s] \in Pdn
  BY <1>1, ElementOfSeq
<1>3. s \in Session
  BY <1>1 DEF Session
<1> QED
  BY <1>1, <1>2, <1>3 DEF Pdn

LEMMA BusyHere ==
  ASSUME TypeInv, NEW t \in Thread, ~Busy(t)
  PROVE  job[t].from = None
BY DEF TypeInv, JobOK, Busy

\* A request of a PGW or of the operator.
LEMMA BeginTypes ==
  ASSUME TypeInv, NEW t \in Thread, NEW j, NEW why \in SUBSET Cause,
         Request(t, j, why), j.from = None, JobOK(t, j, Len(pdn)),
         Len(pdn') = Len(pdn), pdn' \in Seq(Pdn), CurrentOK(Len(pdn))'
  PROVE  TypeInv'
<1>1. /\ job' = [job EXCEPT ![t] = j] /\ UNCHANGED <<rows, mail, faults>>
      /\ requests' = requests + 1
      /\ cause' = cause \cup why
                    \cup (IF Overlaps(t, j) THEN {"overlap"} ELSE {})
  BY DEF Request, Begin
<1>2. Counted'
  BY <1>1 DEF Counted, TypeInv, TypeOK, Cause
<1>3. HandInv'
  BY <1>1, HandKept
<1> QED
  BY <1>1, <1>2, <1>3, StepTypes

LEMMA CcrITypes ==
  ASSUME TypeInv, NEW t \in Worker, CcrI(t)
  PROVE  TypeInv'
<1>1. t \in Thread
  BY DEF Thread
<1>2. PICK s \in 1 .. Len(pdn) :
        /\ Request(t, Handler("scan", "set", s, pdn[s].apn, None),
                   IF pdn[s].apn \in Listed THEN {} ELSE {"unlisted"})
        /\ pdn' = [pdn EXCEPT ![s].at = "asked"]
        /\ UNCHANGED current
  BY DEF CcrI
<1> DEFINE j == Handler("scan", "set", s, pdn[s].apn, None)
           why == IF pdn[s].apn \in Listed THEN {} ELSE {"unlisted"}
<1>3. pdn \in Seq(Pdn) /\ Len(pdn) \in Nat /\ pdn[s].apn \in Apn
      /\ s \in Session
  BY SessionOf
<1>4. pdn' \in Seq(Pdn) /\ Len(pdn') = Len(pdn)
  BY <1>2, <1>3, PdnChanged
<1>5. CurrentOK(Len(pdn))'
  BY <1>2, <1>4 DEF CurrentOK, TypeInv, TypeOK
<1>6. JobOK(t, j, Len(pdn)) /\ j.from = None
  <2>1. j \in Job
    BY <1>3, HandlerIsJob
  <2> QED
    BY <1>3, <2>1, ServingAssumption DEF JobOK, Handler, Sets, Session
<1>7. why \in SUBSET Cause
  BY DEF Cause
<1> HIDE DEF j, why
<1> QED
  BY <1>1, <1>2, <1>4, <1>5, <1>6, <1>7, BeginTypes DEF j, why

LEMMA TerminateOK ==
  ASSUME NEW t \in Thread, NEW n \in Nat, NEW s \in Session \cup {None},
         s # None => s \in 1 .. n, NEW apn \in Apn,
         NEW from \in Site \cup {None},
         from # None => t \in Api /\ from # SiteOf[t]
  PROVE  JobOK(t, Terminate(s, apn, from), n)
<1>1. Terminate(s, apn, from) \in Job
  BY HandlerIsJob DEF Terminate
<1> QED
  BY <1>1 DEF JobOK, Terminate, Handler, Sets

LEMMA CcrTTypes ==
  ASSUME TypeInv, NEW t \in Worker, CcrT(t)
  PROVE  TypeInv'
<1>1. t \in Thread
  BY DEF Thread
<1>2. PICK s \in 1 .. Len(pdn) :
        /\ Request(t, Terminate(s, pdn[s].apn, None), {})
        /\ pdn' = [pdn EXCEPT ![s].at = "over"]
        /\ current' = [a \in Listed |-> IF current[a] = s THEN None
                                        ELSE current[a]]
  BY DEF CcrT
<1> DEFINE j == Terminate(s, pdn[s].apn, None)
<1>3. pdn \in Seq(Pdn) /\ Len(pdn) \in Nat /\ pdn[s].apn \in Apn
      /\ s \in Session
  BY SessionOf
<1>4. pdn' \in Seq(Pdn) /\ Len(pdn') = Len(pdn)
  BY <1>2, <1>3, PdnChanged
<1>5. CurrentOK(Len(pdn))'
  BY <1>2, <1>4 DEF CurrentOK, TypeInv, TypeOK
<1>6. JobOK(t, j, Len(pdn)) /\ j.from = None
  <2>1. JobOK(t, j, Len(pdn))
    BY <1>1, <1>3, TerminateOK
  <2> QED
    BY <2>1 DEF Terminate, Handler
<1> HIDE DEF j
<1> QED
  BY <1>1, <1>2, <1>4, <1>5, <1>6, BeginTypes DEF j

LEMMA DeregisterTypes ==
  ASSUME TypeInv, NEW t \in Api, Deregister(t)
  PROVE  TypeInv'
<1>1. t \in Thread
  BY DEF Thread
<1> DEFINE a == NextApn(Listed)
           j == [Handler("find", "deregister", None, a, None)
                   EXCEPT !.more = Listed \ {a}]
<1>2. Request(t, j, {"deregister"}) /\ UNCHANGED <<pdn, current>>
  BY DEF Deregister
<1>3. a \in Listed /\ a \in Apn
  BY ServingAssumption DEF NextApn
<1>4. JobOK(t, j, Len(pdn)) /\ j.from = None
  <2> HIDE DEF a
  <2>1. Handler("find", "deregister", None, a, None) \in Job
    BY <1>3, HandlerIsJob
  <2>2. j \in Job
    BY <2>1 DEF Job
  <2> QED
    BY <1>3, <2>1, <2>2 DEF JobOK, Handler, Sets
<1>5. CurrentOK(Len(pdn))' /\ pdn' \in Seq(Pdn) /\ Len(pdn') = Len(pdn)
  BY <1>2 DEF CurrentOK, TypeInv, TypeOK
<1> HIDE DEF j
<1> QED
  BY <1>1, <1>2, <1>4, <1>5, BeginTypes DEF Cause

\* A copy that is queued.
LEMMA QueueTypes ==
  ASSUME TypeInv, NEW t \in Thread, QueueCopy(t)
  PROVE  /\ MailTyped'
         /\ \A h, g \in Site : mail[h][g] # << >> => mail'[h][g] # << >>
<1> DEFINE h == SiteOf[t]
           c == [kind |-> job[t].kind, s |-> job[t].s, apn |-> job[t].apn]
<1>1. h \in Site /\ UNCHANGED pdn /\ job[t].at = "copy" /\ job[t] \in Job
      /\ JobOK(t, job[t], Len(pdn))
      /\ mail \in [Site -> [Site -> Seq(Copy)]]
  BY ServingAssumption DEF TypeInv, TypeOK, QueueCopy
<1>2. c \in Copy /\ CopyOK(c, Len(pdn))
  BY <1>1 DEF Job, Copy, JobOK, CopyOK
<1>3. CASE job[t].from # None
  <2>1. UNCHANGED mail
    BY <1>3 DEF QueueCopy, Queue
  <2> QED
    BY <1>1, <2>1 DEF MailTyped, TypeInv, TypeOK
<1>4. CASE job[t].from = None
  <2>1. mail' = [mail EXCEPT ![h] = [g \in Site |->
                   IF g = h THEN mail[h][g] ELSE Append(mail[h][g], c)]]
    BY <1>1, <1>4 DEF QueueCopy, Queue
  <2>2. \A g \in Site : /\ Append(mail[h][g], c) \in Seq(Copy)
                        /\ MailOK(Append(mail[h][g], c), Len(pdn))
                        /\ Append(mail[h][g], c) # << >>
    <3> SUFFICES ASSUME NEW g \in Site
                 PROVE  /\ Append(mail[h][g], c) \in Seq(Copy)
                        /\ MailOK(Append(mail[h][g], c), Len(pdn))
                        /\ Append(mail[h][g], c) # << >>
      OBVIOUS
    <3>1. mail[h][g] \in Seq(Copy) /\ MailOK(mail[h][g], Len(pdn))
      BY <1>1 DEF TypeInv
    <3> HIDE DEF c
    <3> QED
      BY <1>2, <3>1, QueueEnds, AppendProperties
  <2>3. /\ \A k \in Site \ {h} : mail'[k] = mail[k]
        /\ \A g \in Site : mail'[h][g] = IF g = h THEN mail[h][g]
                                         ELSE Append(mail[h][g], c)
        /\ mail' \in [Site -> [Site -> Seq(Copy)]]
    <3> HIDE DEF c
    <3> QED
      BY <1>1, <2>1, <2>2
  <2>4. \A k, g \in Site : MailOK(mail[k][g], Len(pdn)) /\ mail[k][k] = << >>
    BY DEF TypeInv
  <2> HIDE DEF c
  <2>5. \A k, g \in Site : MailOK(mail'[k][g], Len(pdn)) /\ mail'[k][k] = << >>
    BY <1>1, <2>2, <2>3, <2>4
  <2>6. MailTyped'
    BY <1>1, <2>3, <2>5 DEF MailTyped
  <2> QED
    BY <2>2, <2>3, <2>6
<1> QED
  BY <1>3, <1>4

LEMMA StoreTypes ==
  ASSUME TypeInv, NEW t \in Thread, Store(t)
  PROVE  TypeInv'
<1>1. PICK j : /\ job' = [job EXCEPT ![t] = j]
               /\ JobOK(t, j, Len(pdn)) /\ j.from = job[t].from
  BY StoreJob
<1>2. UNCHANGED <<pdn, current, requests>>
  BY DEF Store, Check, Scan, Find, Read, Reread, QueueCopy, Fails, Prune,
         UpdateRow, Undo, Create, Delete, Reads, Writes
<1>3. Counted'
  BY DEF Store, Check, Scan, Find, Read, Reread, QueueCopy, Fails, Prune,
         UpdateRow, Undo, Create, Delete, Reads, Writes, Counted, TypeInv,
         TypeOK, Fault, Cause
<1>4. /\ UNCHANGED mail \/ MailTyped'
      /\ \A h, g \in Site : mail[h][g] # << >> => mail'[h][g] # << >>
  BY QueueTypes
     DEF Store, Check, Scan, Find, Read, Reread, Fails, Prune,
         UpdateRow, Undo, Create, Delete, Reads, Writes
<1>5. HandInv'
  BY <1>1, <1>4, HandKept
<1>6. pdn' \in Seq(Pdn) /\ Len(pdn') = Len(pdn) /\ CurrentOK(Len(pdn))'
  BY <1>2 DEF TypeInv, TypeOK, CurrentOK
<1>7. /\ rows' \in [Site -> SUBSET Row]
      /\ \A h \in Site : RowsOK(rows'[h], Len(pdn))
  BY RowsTyped
<1> QED
  BY <1>1, <1>3, <1>4, <1>5, <1>6, <1>7, StepTypes

LEMMA AcceptTypes ==
  ASSUME TypeInv, NEW t \in Worker, Accept(t)
  PROVE  TypeInv'
<1>1. t \in Thread /\ JobOK(t, job[t], Len(pdn)) /\ job[t].at = "accept"
      /\ job \in [Thread -> Job] /\ Len(pdn) \in Nat
  BY DEF Thread, Accept, TypeInv, TypeOK
<1> DEFINE s == job[t].s
<1>2. s \in 1 .. Len(pdn)
  BY <1>1 DEF JobOK, Sets
<1>3. pdn' \in Seq(Pdn) /\ Len(pdn') = Len(pdn)
  BY <1>2, SessionOf, PdnChanged DEF Accept
<1>4. CurrentOK(Len(pdn))'
  <2>1. current' = [a \in Listed |->
                      IF a = pdn[s].apn THEN s
                      ELSE IF /\ current[a] # None
                              /\ pdn[current[a]].ip = pdn[s].ip
                           THEN None ELSE current[a]]
    BY DEF Accept
  <2>2. s \in Session
    BY <1>2, SessionOf
  <2> QED
    BY <1>2, <1>3, <2>1, <2>2 DEF CurrentOK, TypeInv, TypeOK
<1>5. /\ job' = [job EXCEPT ![t] = Over(job[t])]
      /\ JobOK(t, Over(job[t]), Len(pdn)) /\ Over(job[t]).from = job[t].from
  BY <1>1, OverOK DEF Accept, Ends
<1>6. UNCHANGED <<rows, mail>> /\ Counted' /\ HandInv'
  BY <1>1, <1>5, HandKept DEF Accept, Counted, TypeInv, TypeOK
<1> QED
  BY <1>1, <1>3, <1>4, <1>5, <1>6, StepTypes

LEMMA DiesTypes ==
  ASSUME TypeInv, NEW t \in Thread, Dies(t)
  PROVE  TypeInv'
<1>1. JobOK(t, job[t], Len(pdn)) /\ job[t].from = None /\ Busy(t)
      /\ Len(pdn) \in Nat
  BY DEF Dies, TypeInv, TypeOK
<1>2. pdn' \in Seq(Pdn) /\ Len(pdn') = Len(pdn)
  <2>1. CASE job[t].kind = "set"
    <3>1. job[t].s \in 1 .. Len(pdn)
      BY <1>1, <2>1, ServingAssumption DEF JobOK, Busy
    <3> QED
      BY <2>1, <3>1, SessionOf, PdnChanged DEF Dies
  <2>2. CASE job[t].kind # "set"
    BY <2>2 DEF Dies, TypeInv, TypeOK
  <2> QED
    BY <2>1, <2>2
<1>3. /\ job' = [job EXCEPT ![t] = Idle]
      /\ JobOK(t, Idle, Len(pdn)) /\ Idle.from = None
  BY <1>1, IdleOK DEF Dies
<1>4. UNCHANGED <<current, rows, mail>> /\ Counted'
  BY DEF Dies, Counted, TypeInv, TypeOK, Fault, Cause
<1>5. HandInv' /\ CurrentOK(Len(pdn))'
  BY <1>2, <1>3, <1>4, HandKept DEF CurrentOK, TypeInv, TypeOK
<1> QED
  BY <1>1, <1>2, <1>3, <1>4, <1>5, StepTypes

\* The head of a queue is taken off.
LEMMA PopTypes ==
  ASSUME TypeInv, NEW h \in Site, NEW g \in Site, Pop(h, g),
         mail[h][g] # << >>, UNCHANGED pdn
  PROVE  /\ MailTyped'
         /\ \A k, l \in Site : <<k, l>> # <<h, g>> => mail'[k][l] = mail[k][l]
         /\ mail'[h][g] = Tail(mail[h][g])
<1>1. /\ mail \in [Site -> [Site -> Seq(Copy)]]
      /\ \A k, l \in Site : MailOK(mail[k][l], Len(pdn)) /\ mail[k][k] = << >>
  BY DEF TypeInv, TypeOK
<1>2. /\ Tail(mail[h][g]) \in Seq(Copy)
      /\ MailOK(Tail(mail[h][g]), Len(pdn))
  BY <1>1, QueueBegins
<1>3. mail' = [mail EXCEPT ![h][g] = Tail(mail[h][g])]
  BY DEF Pop
<1>4. /\ mail' \in [Site -> [Site -> Seq(Copy)]]
      /\ \A k, l \in Site :
           mail'[k][l] = IF k = h /\ l = g THEN Tail(mail[h][g])
                         ELSE mail[k][l]
  BY <1>1, <1>2, <1>3
<1>5. \A k, l \in Site : MailOK(mail'[k][l], Len(pdn))
  BY <1>1, <1>2, <1>4
<1>6. \A k \in Site : mail'[k][k] = << >>
  BY <1>1, <1>4
<1> QED
  BY <1>4, <1>5, <1>6 DEF MailTyped

LEMMA RespondTypes ==
  ASSUME TypeInv, NEW t \in Api, Respond(t)
  PROVE  TypeInv'
<1>1. t \in Thread /\ JobOK(t, job[t], Len(pdn)) /\ job[t].at = "respond"
      /\ job \in [Thread -> Job] /\ SiteOf[t] \in Site /\ Len(pdn) \in Nat
  BY ServingAssumption DEF Thread, Respond, TypeInv, TypeOK
<1>2. job[t].from \in Site /\ mail[job[t].from][SiteOf[t]] # << >>
  BY <1>1 DEF JobOK, Job, TypeInv, HandInv
<1>3. /\ job' = [job EXCEPT ![t] = Idle]
      /\ JobOK(t, Idle, Len(pdn)) /\ Idle.from = None
      /\ UNCHANGED <<pdn, current, rows, cause, requests>>
  BY <1>1, IdleOK DEF Respond
<1>4. Counted' /\ CurrentOK(Len(pdn))' /\ pdn' \in Seq(Pdn)
      /\ Len(pdn') = Len(pdn)
  BY <1>3 DEF Respond, Counted, CurrentOK, TypeInv, TypeOK, Fault
<1>5. UNCHANGED mail \/ MailTyped'
  BY <1>1, <1>2, <1>3, PopTypes DEF Respond
<1>6. HandInv'
  <2>1. CASE UNCHANGED mail
    BY <1>1, <1>3, <2>1, HandKept
  <2>2. CASE Pop(job[t].from, SiteOf[t])
    <3>1. \A u \in Thread \ {t} :
            /\ job'[u] = job[u]
            /\ job[u].from # None =>
                 mail'[job[u].from][SiteOf[u]] = mail[job[u].from][SiteOf[u]]
      <4> SUFFICES ASSUME NEW u \in Thread \ {t}, job[u].from # None
                   PROVE  mail'[job[u].from][SiteOf[u]]
                            = mail[job[u].from][SiteOf[u]]
        BY <1>1, <1>3
      <4>1. job[u].from \in Site /\ SiteOf[u] \in Site
        BY <1>1, ServingAssumption DEF Job
      <4>2. <<job[u].from, SiteOf[u]>> # <<job[t].from, SiteOf[t]>>
        BY <1>1, <1>2, ServingAssumption DEF TypeInv, HandInv
      <4> QED
        BY <1>1, <1>2, <1>3, <2>2, <4>1, <4>2, PopTypes
    <3>2. job'[t].from = None
      BY <1>1, <1>3
    <3> QED
      BY <3>1, <3>2 DEF HandInv, TypeInv
  <2> QED
    BY <2>1, <2>2 DEF Respond
<1> QED
  BY <1>1, <1>3, <1>4, <1>5, <1>6, StepTypes

LEMMA DeliverTypes ==
  ASSUME TypeInv, NEW t \in Api, NEW h \in Site, Deliver(t, h)
  PROVE  TypeInv'
<1>1. t \in Thread /\ SiteOf[t] \in Site /\ Len(pdn) \in Nat
      /\ job \in [Thread -> Job]
      /\ mail[h][SiteOf[t]] # << >>
  BY ServingAssumption DEF Thread, Deliver, TypeInv, TypeOK
<1> DEFINE c == Head(mail[h][SiteOf[t]])
           j == Received(c, h)
<1>2. c \in Copy /\ CopyOK(c, Len(pdn)) /\ h # SiteOf[t]
  <2>1. /\ mail[h][SiteOf[t]] \in Seq(Copy)
        /\ MailOK(mail[h][SiteOf[t]], Len(pdn))
        /\ mail[h][h] = << >>
    BY <1>1 DEF TypeInv, TypeOK
  <2> QED
    BY <1>1, <2>1, QueueBegins
<1>3. /\ job' = [job EXCEPT ![t] = j] /\ ~Busy(t) /\ ~InHand(h, SiteOf[t])
      /\ UNCHANGED <<pdn, current, rows, mail, requests, faults>>
      /\ cause' = cause \cup {}
                    \cup (IF Overlaps(t, j) THEN {"overlap"} ELSE {})
  BY DEF Deliver, Begin
<1> HIDE DEF c
<1>4. c.s \in Session \cup {None} /\ c.apn \in Apn
      /\ (c.s # None => c.s \in 1 .. Len(pdn))
      /\ (c.kind # "deregister" => c.s # None)
  BY <1>2 DEF Copy, CopyOK
<1>5. JobOK(t, j, Len(pdn)) /\ j.from = h
  <2>1. CASE c.kind = "set"
    <3>1. j = Handler("scan", "set", c.s, c.apn, h)
      BY <2>1 DEF Received
    <3>2. j \in Job
      BY <1>4, <3>1, HandlerIsJob
    <3> QED
      BY <1>2, <1>4, <2>1, <3>1, <3>2 DEF JobOK, Handler, Sets
  <2>2. CASE c.kind # "set"
    <3>1. j = Terminate(c.s, c.apn, h)
      BY <2>2 DEF Received
    <3>2. JobOK(t, Terminate(c.s, c.apn, h), Len(pdn))
      BY <1>1, <1>2, <1>4, TerminateOK
    <3> QED
      BY <3>1, <3>2 DEF Terminate, Handler
  <2> QED
    BY <2>1, <2>2
<1> HIDE DEF j
<1>6. Counted' /\ CurrentOK(Len(pdn))' /\ pdn' \in Seq(Pdn)
      /\ Len(pdn') = Len(pdn)
  BY <1>3 DEF Counted, CurrentOK, TypeInv, TypeOK, Cause
<1>7. HandInv'
  <2>1. \A u \in Thread \ {t} : job'[u] = job[u]
    BY <1>1, <1>3
  <2>2. job'[t] = j
    BY <1>1, <1>3
  <2>3. \A u \in Thread \ {t} :
          SiteOf[u] = SiteOf[t] => job[u].from # h
    <3> SUFFICES ASSUME NEW u \in Thread \ {t}, SiteOf[u] = SiteOf[t],
                        job[u].from = h
                 PROVE  FALSE
      OBVIOUS
    <3>1. h # None
      BY ServingAssumption
    <3>2. u \in Api /\ Busy(u)
      BY <3>1 DEF TypeInv, JobOK, Busy
    <3> QED
      BY <1>3, <3>2 DEF InHand
  <2> QED
    BY <1>1, <1>3, <1>5, <2>1, <2>2, <2>3 DEF HandInv, TypeInv
<1> QED
  BY <1>1, <1>3, <1>5, <1>6, <1>7, StepTypes

LEMMA GiveUpTypes ==
  ASSUME TypeInv, NEW h \in Site, NEW g \in Site, GiveUp(h, g)
  PROVE  TypeInv'
<1>1. /\ mail[h][g] # << >> /\ ~InHand(h, g) /\ Pop(h, g)
      /\ UNCHANGED <<pdn, current, rows, job, requests>>
  BY DEF GiveUp
<1>2. Counted'
  BY DEF GiveUp, Counted, TypeInv, TypeOK, Fault, Cause
<1>3. /\ MailTyped'
      /\ \A k, l \in Site : <<k, l>> # <<h, g>> => mail'[k][l] = mail[k][l]
  BY <1>1, PopTypes
<1>4. HandInv'
  <2>1. ASSUME NEW u \in Thread, job[u].from # None
        PROVE  mail'[job[u].from][SiteOf[u]] = mail[job[u].from][SiteOf[u]]
    <3>1. job[u].from \in Site /\ SiteOf[u] \in Site /\ u \in Api /\ Busy(u)
      BY <2>1, ServingAssumption DEF TypeInv, TypeOK, Job, JobOK, Busy
    <3>2. <<job[u].from, SiteOf[u]>> # <<h, g>>
      BY <1>1, <3>1 DEF InHand
    <3> QED
      BY <1>3, <3>1, <3>2
  <2> QED
    BY <1>1, <2>1 DEF HandInv, TypeInv
<1> QED
  BY <1>1, <1>2, <1>3, <1>4
     DEF TypeInv, TypeOK, MailTyped, Counted

\* What a step is, of whom.
LEMMA StepKinds ==
  ASSUME Next
  PROVE  \/ Attach \/ Detach
         \/ \E t \in Worker : CcrI(t) \/ CcrT(t) \/ Accept(t)
         \/ \E t \in Thread : Store(t) \/ Dies(t)
         \/ \E t \in Api : Deregister(t) \/ Respond(t)
         \/ \E t \in Api, h \in Site : Deliver(t, h)
         \/ \E h, g \in Site : GiveUp(h, g)
BY DEF Next, Thread

LEMMA TypeKept == TypeInv /\ [Next]_vars => TypeInv'
<1> SUFFICES ASSUME TypeInv, [Next]_vars
             PROVE  TypeInv'
  OBVIOUS
<1>1. CASE UNCHANGED vars
  BY <1>1 DEF TypeInv, TypeOK, HandInv, vars
<1>2. CASE Next
  BY <1>2, StepKinds, AttachTypes, DetachTypes, CcrITypes, CcrTTypes,
     AcceptTypes, StoreTypes, DiesTypes, DeregisterTypes, RespondTypes,
     DeliverTypes, GiveUpTypes
<1> QED
  BY <1>1, <1>2

\* The first layer.
LEMMA TypeAlways == Spec => []TypeInv
BY InitTypeInv, TypeKept, PTL DEF Spec

\* The type invariant, for any sites, workers, APNs and addresses: a handler
\* of Update_Serving_APN is where its kind of request may be, and speaks of a
\* session there is.
THEOREM TypeCorrect == Spec => []TypeOK
<1>1. TypeInv => TypeOK
  BY DEF TypeInv
<1> QED
  BY <1>1, TypeAlways, PTL

-----------------------------------------------------------------------------
(***************************************************************************)
(* Handlers of one site keep apart.                                        *)
(***************************************************************************)

SameIps == \A i \in 1 .. Len(pdn) : pdn'[i].ip = pdn[i].ip

\* The session of a handler or a copy there is.
Known(j) == j.s # None => j.s \in 1 .. Len(pdn)

LEMMA SameIn ==
  ASSUME TypeInv, SameIps, NEW h \in Site, NEW j, Known(j)
  PROVE  /\ IpsIn(pdn', rows[h], j) = IpsIn(pdn, rows[h], j)
         /\ j.s # None => Dups(pdn', rows[h], j) = Dups(pdn, rows[h], j)
<1>1. \A x \in rows[h] : pdn'[x.s].ip = pdn[x.s].ip
  BY DEF TypeInv, RowsOK, SameIps
<1>2. j.s # None => pdn'[j.s].ip = pdn[j.s].ip
  BY DEF Known, SameIps
<1> QED
  BY <1>1, <1>2 DEF IpsIn, Dups

LEMMA AllKnown ==
  ASSUME TypeInv
  PROVE  /\ \A t \in Thread : Known(job[t])
         /\ \A h, g \in Site : \A i \in 1 .. Len(mail[h][g]) :
              Known(mail[h][g][i])
BY DEF TypeInv, Known, JobOK, MailOK, CopyOK

\* Where a handler looks for duplicates it has a session.
LEMMA SetHasSession ==
  ASSUME TypeInv, NEW t \in Thread, job[t].at \in Sets
  PROVE  job[t].kind = "set" /\ job[t].s # None /\ job[t].s \in 1 .. Len(pdn)
BY DEF TypeInv, JobOK, Sets

\* The rows that Own and Stage speak of.
LEMMA SameOwn ==
  ASSUME NEW M, NEW D, NEW E, NEW j, j.at \in Sets => D = E
  PROVE  /\ Own(M, D, j) = Own(M, E, j)
         /\ Stage(M, D, j) = Stage(M, E, j)
BY DEF Own, Stage, Sets

\* A site's rows, as handler j sees them, have not changed.
Undisturbed(p, R, Q, j) ==
  \A x \in R \cup Q :
    x.apn \in Apns(j) \/ p[x.s].ip \in IpsIn(p, R, j) => (x \in R <=> x \in Q)

LEMMA SeenSame ==
  ASSUME NEW p, NEW R, NEW Q, NEW j, Undisturbed(p, R, Q, j),
         j.kind = "deregister" => j.apn \in Listed
  PROVE  /\ IpsIn(p, Q, j) = IpsIn(p, R, j)
         /\ Mine(Q, j) = Mine(R, j)
         /\ j.s # None => Dups(p, Q, j) = Dups(p, R, j)
<1>1. {y \in Q : y.apn \in Apns(j)} = {y \in R : y.apn \in Apns(j)}
  BY DEF Undisturbed
<1>2. RowApn(j.apn) \in Apns(j)
  BY DEF Apns, RowApn
<1>3. j.s # None => p[j.s].ip \in IpsIn(p, R, j)
  BY DEF IpsIn
<1> QED
  BY <1>1, <1>2, <1>3 DEF Undisturbed, IpsIn, Mine, Dups

\* What handler j may do to the rows R of its site: it removes those of its
\* APNs or of its address, and adds those of its APN with its session.
Touches(p, R, Q, j) ==
  /\ \A x \in R \ Q :
       x.apn \in Apns(j) \/ (j.s # None /\ p[x.s].ip = p[j.s].ip)
  /\ \A x \in Q \ R : x.apn \in Apns(j) /\ j.s # None /\ x.s = j.s

LEMMA OthersUndisturbed ==
  ASSUME NEW p, NEW R, NEW Q, NEW j, NEW k, Touches(p, R, Q, j),
         Apart(p, R, j, k)
  PROVE  Undisturbed(p, R, Q, k)
<1>1. ASSUME NEW x \in R, x \notin Q
      PROVE  x.apn \notin Apns(k) /\ p[x.s].ip \notin IpsIn(p, R, k)
  <2>1. p[x.s].ip \in IpsIn(p, R, j)
    BY <1>1 DEF Touches, IpsIn
  <2>2. x.apn \in Apns(k) => p[x.s].ip \in IpsIn(p, R, k)
    BY DEF IpsIn
  <2> QED
    BY <2>1, <2>2 DEF Apart
<1>2. ASSUME NEW x \in Q, x \notin R
      PROVE  x.apn \notin Apns(k) /\ p[x.s].ip \notin IpsIn(p, R, k)
  <2>1. x.apn \in Apns(j) /\ p[x.s].ip \in IpsIn(p, R, j)
    BY <1>2 DEF Touches, IpsIn
  <2> QED
    BY <2>1 DEF Apart
<1> QED
  BY <1>1, <1>2 DEF Undisturbed

\* Nor has it got more addresses itself.
LEMMA SelfShrinks ==
  ASSUME NEW p, NEW R, NEW Q, NEW j, NEW k, Touches(p, R, Q, j),
         Apns(k) \subseteq Apns(j), k.s = j.s
  PROVE  IpsIn(p, Q, k) \subseteq IpsIn(p, R, j)
BY DEF Touches, IpsIn

\* The step of a handler.
LEMMA HandlerOn ==
  ASSUME TypeInv, MutexInv, "overlap" \notin cause, NEW t \in Thread,
         AtWork(job[t]), UNCHANGED pdn, Others(t),
         job' \in [Thread -> Job],
         \A u \in Thread \ {t} : job'[u] = job[u],
         AtWork(job'[t]) => /\ Apns(job'[t]) \subseteq Apns(job[t])
                            /\ job'[t].s = job[t].s,
         Touches(pdn, rows[SiteOf[t]], rows'[SiteOf[t]], job[t])
  PROVE  /\ MutexInv'
         /\ \A u \in Thread \ {t} :
              AtWork(job[u]) =>
                LET R == rows[SiteOf[u]]
                    Q == rows'[SiteOf[u]]
                IN  /\ IpsIn(pdn, Q, job[u]) = IpsIn(pdn, R, job[u])
                    /\ Mine(Q, job[u]) = Mine(R, job[u])
                    /\ job[u].s # None =>
                         Dups(pdn, Q, job[u]) = Dups(pdn, R, job[u])
<1>1. ASSUME NEW u \in Thread \ {t}, AtWork(job[u])
      PROVE  LET R == rows[SiteOf[u]]
                 Q == rows'[SiteOf[u]]
             IN  /\ IpsIn(pdn, Q, job[u]) = IpsIn(pdn, R, job[u])
                 /\ Mine(Q, job[u]) = Mine(R, job[u])
                 /\ job[u].s # None =>
                      Dups(pdn, Q, job[u]) = Dups(pdn, R, job[u])
  <2>1. CASE SiteOf[u] # SiteOf[t]
    <3>1. rows'[SiteOf[u]] = rows[SiteOf[u]]
      BY <2>1, ServingAssumption DEF Others
    <3> QED
      BY <3>1
  <2>2. CASE SiteOf[u] = SiteOf[t]
    <3>1. Apart(pdn, rows[SiteOf[t]], job[t], job[u])
      BY <1>1, <2>2 DEF MutexInv
    <3>2. Undisturbed(pdn, rows[SiteOf[t]], rows'[SiteOf[t]], job[u])
      BY <3>1, OthersUndisturbed
    <3>3. job[u].kind = "deregister" => job[u].apn \in Listed
      BY DEF TypeInv, JobOK
    <3> QED
      BY <2>2, <3>2, <3>3, SeenSame
  <2> QED
    BY <2>1, <2>2
<1>2. AtWork(job'[t]) => IpsIn(pdn, rows'[SiteOf[t]], job'[t])
                           \subseteq IpsIn(pdn, rows[SiteOf[t]], job[t])
  BY SelfShrinks
<1>3. ASSUME NEW u \in Thread, NEW v \in Thread, u # v,
             SiteOf[u] = SiteOf[v], AtWork(job'[u]), AtWork(job'[v])
      PROVE  Apart(pdn', rows'[SiteOf[u]], job'[u], job'[v])
  <2>1. ASSUME NEW w \in Thread, AtWork(job'[w])
        PROVE  /\ AtWork(job[w]) /\ Apns(job'[w]) \subseteq Apns(job[w])
               /\ IpsIn(pdn, rows'[SiteOf[w]], job'[w])
                    \subseteq IpsIn(pdn, rows[SiteOf[w]], job[w])
    <3>1. CASE w = t
      BY <1>2, <2>1, <3>1
    <3>2. CASE w # t
      <4>1. job'[w] = job[w] /\ AtWork(job[w])
        BY <2>1, <3>2
      <4> QED
        BY <1>1, <3>2, <4>1
    <3> QED
      BY <3>1, <3>2
  <2>2. Apart(pdn, rows[SiteOf[u]], job[u], job[v])
    BY <1>3, <2>1 DEF MutexInv
  <2> QED
    BY <1>3, <2>1, <2>2 DEF Apart
<1>4. MutexInv'
  BY <1>3 DEF MutexInv
<1> QED
  BY <1>1, <1>4

RowsInv == MutexInv /\ OwnInv /\ StageInv

\* Handlers that have not begun to look at the rows.
Fresh(j) == \/ j.at \in {"scan", "check"}
            \/ j.at = "find" /\ j.kind = "deregister"

LEMMA FreshOwns ==
  ASSUME NEW M, NEW D, NEW j, Fresh(j)
  PROVE  Own(M, D, j) /\ Stage(M, D, j)
BY DEF Fresh, Own, Stage

\* No row changes; a handler goes on as it was, begins, or has ended.
LEMMA RowsStand ==
  ASSUME TypeInv, RowsInv, UNCHANGED rows, SameIps, cause \subseteq cause',
         \A u \in Thread : \/ job'[u] = job[u]
                           \/ ~AtWork(job'[u])
                           \/ Fresh(job'[u]) /\ Known(job'[u]),
         "overlap" \notin cause' =>
           \A u, v \in Thread :
             /\ u # v /\ SiteOf[u] = SiteOf[v] /\ AtWork(job'[v])
             /\ job'[u] # job[u] /\ AtWork(job'[u])
             => /\ job'[v] = job[v]
                /\ Apart(pdn, rows[SiteOf[u]], job'[u], job[v])
  PROVE  RowsInv'
<1>1. ASSUME NEW u \in Thread, AtWork(job'[u])
      PROVE  /\ IpsIn(pdn', rows[SiteOf[u]], job'[u])
                  = IpsIn(pdn, rows[SiteOf[u]], job'[u])
             /\ job'[u].s # None =>
                  Dups(pdn', rows[SiteOf[u]], job'[u])
                    = Dups(pdn, rows[SiteOf[u]], job'[u])
  <2>1. Known(job'[u]) /\ SiteOf[u] \in Site
    BY <1>1, AllKnown, ServingAssumption
  <2> QED
    BY <2>1, SameIn
<1>2. MutexInv'
  <2> SUFFICES ASSUME "overlap" \notin cause',
                      NEW u \in Thread, NEW v \in Thread, u # v,
                      SiteOf[u] = SiteOf[v], AtWork(job'[u]), AtWork(job'[v])
               PROVE  Apart(pdn, rows[SiteOf[u]], job'[u], job'[v])
    BY <1>1 DEF MutexInv, Apart
  <2>1. CASE job'[u] # job[u]
    BY <2>1
  <2>2. CASE job'[v] # job[v]
    <3>1. Apart(pdn, rows[SiteOf[v]], job'[v], job[u]) /\ job'[u] = job[u]
      BY <2>2
    <3> QED
      BY <3>1 DEF Apart
  <2>3. CASE job'[u] = job[u] /\ job'[v] = job[v]
    BY <2>3 DEF RowsInv, MutexInv
  <2> QED
    BY <2>1, <2>2, <2>3
<1>3. ASSUME NEW u \in Thread, AtWork(job'[u]), job'[u] = job[u]
      PROVE  LET R == rows[SiteOf[u]]
                 j == job[u]
             IN  /\ Own(Mine(R, j), Dups(pdn', R, j), j)
                      = Own(Mine(R, j), Dups(pdn, R, j), j)
                 /\ Stage(Mine(R, j), Dups(pdn', R, j), j)
                      = Stage(Mine(R, j), Dups(pdn, R, j), j)
  <2>1. job[u].at \in Sets => job[u].s # None
    BY SetHasSession
  <2>2. job[u].at \in Sets => Dups(pdn', rows[SiteOf[u]], job[u])
                                = Dups(pdn, rows[SiteOf[u]], job[u])
    BY <1>1, <1>3, <2>1
  <2> QED
    BY <2>2, SameOwn
<1>4. OwnInv'
  <2> SUFFICES ASSUME "overlap" \notin cause', NEW u \in Thread,
                      AtWork(job'[u])
               PROVE  Own(Mine(rows[SiteOf[u]], job'[u]),
                          Dups(pdn', rows[SiteOf[u]], job'[u]), job'[u])
    BY DEF OwnInv
  <2>1. CASE job'[u] = job[u]
    BY <1>3, <2>1 DEF RowsInv, OwnInv
  <2> QED
    BY <2>1, FreshOwns
<1>5. StageInv'
  <2> SUFFICES ASSUME Sound'
               PROVE  /\ NoDuplicates'
                      /\ \A u \in Thread :
                           AtWork(job'[u]) =>
                             Stage(Mine(rows[SiteOf[u]], job'[u]),
                                   Dups(pdn', rows[SiteOf[u]], job'[u]),
                                   job'[u])
    BY DEF StageInv
  <2>1. Sound
    BY DEF Sound
  <2>2. NoDuplicates'
    <3>1. \A h \in Site : \A x \in rows[h] : pdn'[x.s].ip = pdn[x.s].ip
      BY DEF TypeInv, RowsOK, SameIps
    <3> QED
      BY <2>1, <3>1 DEF RowsInv, StageInv, NoDuplicates, Sound
  <2>3. ASSUME NEW u \in Thread, AtWork(job'[u])
        PROVE  Stage(Mine(rows[SiteOf[u]], job'[u]),
                     Dups(pdn', rows[SiteOf[u]], job'[u]), job'[u])
    <3>1. CASE job'[u] = job[u]
      BY <1>3, <2>1, <2>3, <3>1 DEF RowsInv, StageInv
    <3> QED
      BY <2>3, <3>1, FreshOwns
  <2> QED
    BY <2>2, <2>3
<1> QED
  BY <1>2, <1>4, <1>5 DEF RowsInv

\* One handler ends, or nobody does anything with the rows.
LEMMA RowsStandEnd ==
  ASSUME TypeInv, RowsInv, UNCHANGED rows, SameIps, cause \subseteq cause',
         \A u \in Thread : job'[u] = job[u] \/ ~AtWork(job'[u])
  PROVE  RowsInv'
BY RowsStand

\* One begins, overlapping with none that is at work at its site.
LEMMA RowsStandBegin ==
  ASSUME TypeInv, RowsInv, UNCHANGED rows, SameIps,
         NEW t \in Thread, NEW j, NEW why, Begin(t, j, why),
         Fresh(j), Known(j)
  PROVE  RowsInv'
<1>1. /\ ~Busy(t) /\ job' = [job EXCEPT ![t] = j] /\ job \in [Thread -> Job]
      /\ cause' = cause \cup why
                    \cup (IF Overlaps(t, j) THEN {"overlap"} ELSE {})
  BY DEF Begin, TypeInv, TypeOK
<1>2. job'[t] = j /\ \A u \in Thread \ {t} : job'[u] = job[u]
  BY <1>1
<1>3. ASSUME NEW h \in Site, NEW k
      PROVE  IpsIn(pdn, rows[h], k) \subseteq Ips(k)
  <2>1. \A x \in rows[h] : x.apn \in Apns(k) =>
          x \in UNION {RowsOf(g, a) : g \in Site, a \in Apns(k)}
    <3> SUFFICES ASSUME NEW x \in rows[h], x.apn \in Apns(k)
                 PROVE  x \in UNION {RowsOf(g, a) : g \in Site, a \in Apns(k)}
      OBVIOUS
    <3>1. x \in RowsOf(h, x.apn)
      BY DEF RowsOf
    <3> QED
      BY <3>1
  <2> QED
    BY <2>1 DEF IpsIn, Ips
<1>4. ASSUME "overlap" \notin cause', NEW v \in Thread \ {t},
             SiteOf[v] = SiteOf[t], AtWork(job[v])
      PROVE  Apart(pdn, rows[SiteOf[t]], j, job[v])
  <2>1. Busy(v)
    BY <1>4 DEF Busy, AtWork
  <2>2. ~Conflict(j, job[v])
    BY <1>1, <1>4, <2>1 DEF Overlaps
  <2>3. SiteOf[t] \in Site
    BY ServingAssumption
  <2> QED
    BY <1>3, <2>2, <2>3 DEF Conflict, Apart
<1>5. /\ cause \subseteq cause'
      /\ \A u \in Thread : \/ job'[u] = job[u]
                           \/ ~AtWork(job'[u])
                           \/ Fresh(job'[u]) /\ Known(job'[u])
  BY <1>1, <1>2
<1>6. "overlap" \notin cause' =>
        \A u, v \in Thread :
          /\ u # v /\ SiteOf[u] = SiteOf[v] /\ AtWork(job'[v])
          /\ job'[u] # job[u] /\ AtWork(job'[u])
          => /\ job'[v] = job[v]
             /\ Apart(pdn, rows[SiteOf[u]], job'[u], job[v])
  <2> SUFFICES ASSUME "overlap" \notin cause', NEW u \in Thread,
                      NEW v \in Thread, u # v, SiteOf[u] = SiteOf[v],
                      AtWork(job'[v]), job'[u] # job[u]
               PROVE  /\ job'[v] = job[v]
                      /\ Apart(pdn, rows[SiteOf[u]], job'[u], job[v])
    OBVIOUS
  <2>1. u = t /\ v \in Thread \ {t} /\ job'[v] = job[v]
    BY <1>2
  <2>2. Apart(pdn, rows[SiteOf[t]], j, job[v])
    BY <1>4, <2>1
  <2> QED
    BY <1>2, <2>1, <2>2
<1> QED
  BY <1>5, <1>6, RowsStand

\* A handler goes on with what it began.
Moves(j, k) == /\ k.kind = j.kind /\ k.s = j.s /\ k.from = j.from
               /\ j.kind # "deregister" => k.apn = j.apn

LEMMA GoesMoves ==
  ASSUME TypeInv, NEW t \in Thread, NEW at, Goes(t, at)
  PROVE  /\ Moves(job[t], job'[t]) /\ job'[t].at = at
         /\ job'[t].row = job[t].row /\ job'[t].todo = job[t].todo
         /\ job'[t].apn = job[t].apn
BY Typed DEF Goes, Moves, TypeInv, TypeOK, Job

LEMMA FoundMoves ==
  ASSUME TypeInv, NEW t \in Thread, NEW at, NEW id, Found(t, at, id)
  PROVE  /\ Moves(job[t], job'[t]) /\ job'[t].at = at /\ job'[t].row = id
         /\ job'[t].apn = job[t].apn
BY Typed DEF Found, Moves, TypeInv, TypeOK, Job

LEMMA EndsThere ==
  ASSUME TypeInv, NEW t \in Thread, Ends(t)
  PROVE  ~AtWork(job'[t])
<1>1. job'[t] = Over(job[t])
  BY DEF Ends, TypeInv, TypeOK
<1> QED
  BY <1>1, Typed, OverOK DEF AtWork

LEMMA ScanMoves ==
  ASSUME TypeInv, NEW t \in Thread, Scan(t)
  PROVE  /\ Moves(job[t], job'[t]) /\ job'[t].at = "prune"
         /\ job'[t].todo = Ids(Dups(pdn, rows[SiteOf[t]], job[t]))
         /\ job'[t].apn = job[t].apn
<1>1. job'[t] = [job[t] EXCEPT !.at = "prune",
                   !.todo = {x.id : x \in Duplicates(SiteOf[t], job[t])}]
  BY DEF Scan, TypeInv, TypeOK
<1> QED
  BY <1>1, Typed DEF Moves, Job, Ids, Dups, Duplicates

LEMMA PruneMoves ==
  ASSUME TypeInv, NEW t \in Thread, Prune(t)
  PROVE  /\ Moves(job[t], job'[t]) /\ job'[t].at = "prune"
         /\ job'[t].apn = job[t].apn
         /\ job'[t].todo = IF HasRow(SiteOf[t], Min(job[t].todo))
                           THEN job[t].todo \ {Min(job[t].todo)} ELSE {}
<1>1. job'[t] = [job[t] EXCEPT
                   !.todo = IF HasRow(SiteOf[t], Min(job[t].todo))
                            THEN job[t].todo \ {Min(job[t].todo)} ELSE {}]
  BY DEF Prune, TypeInv, TypeOK
<1> QED
  BY <1>1, Typed DEF Moves, Job, Prune

LEMMA FailsMoves ==
  ASSUME TypeInv, NEW t \in Thread, Fails(t)
  PROVE  /\ Moves(job[t], job'[t])
         /\ job'[t].at = AfterFailure[job[t].at]
         /\ job'[t].apn = job[t].apn /\ job'[t].row = job[t].row
<1>1. job'[t] = [job[t] EXCEPT !.at = AfterFailure[job[t].at], !.todo = {}]
  BY DEF Fails, TypeInv, TypeOK
<1> QED
  BY <1>1, Typed DEF Moves, Job

LEMMA CopyMoves ==
  ASSUME TypeInv, NEW t \in Thread, QueueCopy(t)
  PROVE  \/ ~AtWork(job'[t])
         \/ /\ job'[t].at = "accept" /\ job[t].kind = "set"
            /\ job[t].from = None
            /\ Moves(job[t], job'[t]) /\ job'[t].apn = job[t].apn
         \/ /\ Fresh(job'[t]) /\ job[t].kind = "deregister"
            /\ Moves(job[t], job'[t])
<1>1. job'[t] = Copied(job[t]) /\ job[t] \in Job
      /\ JobOK(t, job[t], Len(pdn)) /\ Len(pdn) \in Nat
  BY Typed DEF QueueCopy, TypeInv, TypeOK
<1>2. CASE job[t].kind = "set" /\ job[t].from = None
  <2>1. job'[t] = [job[t] EXCEPT !.at = "accept", !.row = 0]
    BY <1>1, <1>2 DEF Copied
  <2> QED
    BY <1>1, <1>2, <2>1 DEF Moves, Job
<1>3. CASE job[t].kind = "deregister" /\ job[t].more # {}
  <2>1. job'[t] = [job[t] EXCEPT !.at = "find", !.apn = NextApn(job[t].more),
                     !.more = @ \ {NextApn(job[t].more)}, !.row = 0]
    BY <1>1, <1>3 DEF Copied
  <2> QED
    BY <1>1, <1>3, <2>1 DEF Moves, Job, Fresh
<1>4. CASE /\ ~(job[t].kind = "set" /\ job[t].from = None)
           /\ ~(job[t].kind = "deregister" /\ job[t].more # {})
  <2>1. job'[t] = Over(job[t])
    BY <1>1, <1>4 DEF Copied
  <2> QED
    BY <1>1, <2>1, OverOK DEF AtWork
<1> QED
  BY <1>2, <1>3, <1>4

LEMMA StoreMoves ==
  ASSUME TypeInv, NEW t \in Thread, Store(t)
  PROVE  /\ AtWork(job[t]) /\ UNCHANGED pdn /\ cause \subseteq cause'
         /\ job' \in [Thread -> Job]
         /\ \A u \in Thread \ {t} : job'[u] = job[u]
         /\ AtWork(job'[t]) => /\ Moves(job[t], job'[t])
                               /\ Apns(job'[t]) = Apns(job[t])
<1>1. AtWork(job[t]) /\ UNCHANGED pdn /\ cause \subseteq cause'
  BY DEF Store, Check, Scan, Find, Read, Reread, QueueCopy, Fails, Prune,
         UpdateRow, Undo, Create, Delete, Reads, Writes, AtWork, AfterFailure
<1>2. /\ job' \in [Thread -> Job]
      /\ \A u \in Thread \ {t} : job'[u] = job[u]
  <2>1. PICK j : job' = [job EXCEPT ![t] = j] /\ JobOK(t, j, Len(pdn))
    BY StoreJob
  <2> QED
    BY <2>1 DEF JobOK, TypeInv, TypeOK
<1>3. ~AtWork(job'[t]) \/ Moves(job[t], job'[t])
  <2>1. CASE Check(t) \/ Reread(t)
    BY <2>1, GoesMoves, EndsThere DEF Check, Reread
  <2>2. CASE UpdateRow(t) \/ Undo(t) \/ Read(t) \/ Create(t) \/ Delete(t)
    <3>1. \E at : Goes(t, at)
      BY <2>2 DEF UpdateRow, Undo, Read, Create, Delete
    <3> QED
      BY <3>1, GoesMoves
  <2>3. CASE Find(t)
    BY <2>3, FoundMoves DEF Find
  <2> QED
    BY <2>1, <2>2, <2>3, ScanMoves, PruneMoves, FailsMoves, CopyMoves
       DEF Store
<1>4. Moves(job[t], job'[t]) => Apns(job'[t]) = Apns(job[t])
  BY DEF Moves, Apns
<1> QED
  BY <1>1, <1>2, <1>3, <1>4

LEMMA MineApn ==
  ASSUME TypeInv, NEW t \in Thread
  PROVE  /\ RowApn(job[t].apn) \in Apns(job[t])
         /\ RowApn(job[t].apn) \in Listed
         /\ RowsOf(SiteOf[t], RowApn(job[t].apn))
              = Mine(rows[SiteOf[t]], job[t])
<1>1. job[t].kind = "deregister" => job[t].apn \in Listed
  BY DEF TypeInv, JobOK
<1> QED
  BY <1>1, ServingAssumption DEF RowApn, Apns, RowsOf, Mine

\* The row of a number.
LEMMA ByNumber ==
  ASSUME TypeInv, NEW h \in Site, NEW S \in SUBSET rows[h],
         NEW x \in rows[h], x.id \in Ids(S)
  PROVE  x \in S
BY DEF TypeInv, RowsOK, Ids

\* A handler that owns what it removes touches only what is its own.
LEMMA StoreTouches ==
  ASSUME TypeInv, RowsInv, "overlap" \notin cause, NEW t \in Thread, Store(t)
  PROVE  Touches(pdn, rows[SiteOf[t]], rows'[SiteOf[t]], job[t])
<1> DEFINE h == SiteOf[t]
           j == job[t]
           M == Mine(rows[h], j)
           D == Dups(pdn, rows[h], j)
<1>1. h \in Site /\ AtWork(j) /\ Own(M, D, j) /\ M \subseteq rows[h]
      /\ D \subseteq rows[h]
  BY StoreMoves, Typed DEF RowsInv, OwnInv, Mine, Dups
<1>2. \A x \in M : x.apn \in Apns(j)
  BY MineApn DEF Mine
<1>3. CASE UNCHANGED rows
  BY <1>3 DEF Touches
<1>4. CASE Prune(t)
  <2>1. /\ rows'[h] = {x \in rows[h] : x.id # Min(j.todo)}
        /\ Min(j.todo) \in j.todo /\ j.at = "prune"
    BY <1>4, PruneRows DEF Prune
  <2>2. Min(j.todo) \in Ids(D)
    BY <1>1, <2>1 DEF Own
  <2>3. \A x \in rows[h] : x.id = Min(j.todo) => x \in D
    BY <1>1, <2>2, ByNumber
  <2>4. j.s # None
    BY <2>1, SetHasSession DEF Sets
  <2> QED
    BY <2>1, <2>3, <2>4 DEF Touches, Dups
<1>5. CASE Undo(t) \/ Delete(t)
  <2>1. j.at \in {"undo", "delete"} /\ rows' = Without(h, j.row)
    BY <1>5 DEF Undo, Delete
  <2>2. rows'[h] = {x \in rows[h] : x.id # j.row}
    BY <2>1, WithoutRow
  <2>3. j.row \in Ids(M)
    BY <1>1, <2>1 DEF Own
  <2>4. \A x \in rows[h] : x.id = j.row => x \in M
    BY <1>1, <2>3, ByNumber
  <2> QED
    BY <1>2, <2>2, <2>4 DEF Touches
<1>6. CASE UpdateRow(t) /\ HasRow(h, j.row)
  <2>1. /\ rows'[h] = {x \in rows[h] : x.id # j.row} \cup {New(j, j.row)}
        /\ j.at = "update"
    BY <1>6, UpdateRows DEF UpdateRow
  <2>2. j.row \in Ids(M)
    BY <1>1, <2>1 DEF Own
  <2>3. \A x \in rows[h] : x.id = j.row => x \in M
    BY <1>1, <2>2, ByNumber
  <2>4. New(j, j.row).apn \in Apns(j) /\ New(j, j.row).s = j.s /\ j.s # None
    BY <2>1, MineApn, SetHasSession DEF New, Sets
  <2> QED
    BY <1>2, <2>1, <2>3, <2>4 DEF Touches
<1>7. CASE Create(t)
  <2>1. /\ rows'[h] = rows[h] \cup {New(j, NewId(h))}
        /\ j.at = "create"
    BY <1>7, CreateRows DEF Create
  <2>2. New(j, NewId(h)).apn \in Apns(j) /\ New(j, NewId(h)).s = j.s
        /\ j.s # None
    BY <2>1, MineApn, SetHasSession DEF New, Sets
  <2> QED
    BY <2>1, <2>2 DEF Touches
<1>8. CASE UpdateRow(t) /\ ~HasRow(h, j.row)
  BY <1>3, <1>8 DEF UpdateRow
<1> QED
  BY <1>3, <1>4, <1>5, <1>6, <1>7, <1>8
     DEF Store, Check, Scan, Find, Read, Reread, QueueCopy, Fails, Reads

LEMMA SeenEqual ==
  ASSUME NEW p, NEW R, NEW j, NEW k, k.s = j.s, k.apn = j.apn
  PROVE  Mine(R, k) = Mine(R, j) /\ Dups(p, R, k) = Dups(p, R, j)
BY DEF Mine, Dups

\* What Find finds.
LEMMA FindFinds ==
  ASSUME TypeInv, NEW t \in Thread, Find(t)
  PROVE  LET M == Mine(rows[SiteOf[t]], job[t])
             k == job'[t]
         IN  /\ k.row = FirstOf(M)
             /\ IF job[t].kind = "set"
                THEN k.at = IF M = {} THEN "create" ELSE "update"
                ELSE k.at = IF M = {} THEN "copy" ELSE "delete"
             /\ M # {} => k.row \in Ids(M)
             /\ Moves(job[t], k) /\ k.apn = job[t].apn
<1> DEFINE M == Mine(rows[SiteOf[t]], job[t])
           id == FirstRow(SiteOf[t], RowApn(job[t].apn))
<1>1. id = FirstOf(M)
  BY MineApn DEF FirstRow, FirstOf, Ids
<1>2. M = {} <=> id = 0
  BY Typed, MineApn, FirstFound DEF RowsOK
<1>3. M # {} => id \in Ids(M)
  BY Typed, MineApn, FirstFound DEF RowsOK, Ids
<1>4. job[t].kind = "set" =>
        Found(t, IF id = 0 THEN "create" ELSE "update", id)
  BY DEF Find
<1>5. job[t].kind # "set" => Found(t, IF id = 0 THEN "copy" ELSE "delete", id)
  BY DEF Find
<1> HIDE DEF M, id
<1>6. CASE job[t].kind = "set"
  <2>1. /\ Moves(job[t], job'[t]) /\ job'[t].apn = job[t].apn
        /\ job'[t].at = (IF id = 0 THEN "create" ELSE "update")
        /\ job'[t].row = id
    BY <1>4, <1>6, FoundMoves
  <2> QED
    BY <1>1, <1>2, <1>3, <1>6, <2>1 DEF M
<1>7. CASE job[t].kind # "set"
  <2>1. /\ Moves(job[t], job'[t]) /\ job'[t].apn = job[t].apn
        /\ job'[t].at = (IF id = 0 THEN "copy" ELSE "delete")
        /\ job'[t].row = id
    BY <1>5, <1>7, FoundMoves
  <2> QED
    BY <1>1, <1>2, <1>3, <1>7, <2>1 DEF M
<1> QED
  BY <1>6, <1>7

LEMMA CheckMine ==
  ASSUME TypeInv, NEW t \in Thread, Check(t), AtWork(job'[t])
  PROVE  LET M == Mine(rows[SiteOf[t]], job[t])
         IN  /\ job'[t].at = "find" /\ job[t].kind = "clear"
             /\ Moves(job[t], job'[t]) /\ job'[t].apn = job[t].apn
             /\ job[t].apn \in Listed
             /\ \E x \in M : x.id = FirstOf(M) /\ x.s = job[t].s
<1> DEFINE h == SiteOf[t]
           M == Mine(rows[h], job[t])
<1>1. /\ Goes(t, "find") /\ job[t].apn \in Listed /\ job[t].at = "check"
      /\ \E x \in rows[h] : x.id = FirstRow(h, job[t].apn) /\ x.s = job[t].s
  BY EndsThere DEF Check
<1>2. RowApn(job[t].apn) = job[t].apn /\ RowsOf(h, job[t].apn) = M
  BY <1>1, MineApn DEF RowApn
<1>3. FirstRow(h, job[t].apn) = FirstOf(M)
  BY <1>2 DEF FirstRow, FirstOf, Ids
<1>4. PICK x \in rows[h] : x.id = FirstOf(M) /\ x.s = job[t].s
  BY <1>1, <1>3
<1>5. x \in M
  <2>1. x.id # 0 /\ h \in Site
    BY Typed DEF RowsOK
  <2>2. M # {}
    BY <1>4, <2>1 DEF FirstOf
  <2>3. FirstOf(M) \in Ids(M)
    BY <1>2, <1>3, <2>2, Typed, FirstFound DEF RowsOK, Ids
  <2>4. M \in SUBSET rows[h]
    BY DEF Mine
  <2> QED
    BY <1>4, <2>1, <2>3, <2>4, ByNumber
<1>6. job[t].kind = "clear"
  BY <1>1, Typed DEF JobOK
<1> QED
  BY <1>1, <1>4, <1>5, <1>6, GoesMoves

\* What it has found stays its own.
LEMMA StoreOwns ==
  ASSUME TypeInv, RowsInv, "overlap" \notin cause, NEW t \in Thread, Store(t),
         AtWork(job'[t])
  PROVE  Own(Mine(rows'[SiteOf[t]], job'[t]),
             Dups(pdn, rows'[SiteOf[t]], job'[t]), job'[t])
<1> DEFINE h == SiteOf[t]
           j == job[t]
           k == job'[t]
           M == Mine(rows[h], j)
           D == Dups(pdn, rows[h], j)
<1>1. h \in Site /\ AtWork(j) /\ Own(M, D, j) /\ JobOK(t, j, Len(pdn))
  BY StoreMoves, Typed DEF RowsInv, OwnInv
<1>2. CASE k.at \notin {"prune", "update", "undo", "find", "delete"}
  BY <1>2 DEF Own
<1>3. CASE Check(t)
  <2>1. /\ k.at = "find" /\ Moves(j, k) /\ k.apn = j.apn
        /\ \E x \in M : x.id = FirstOf(M) /\ x.s = j.s
    BY <1>3, CheckMine
  <2>2. rows'[h] = rows[h] /\ Mine(rows[h], k) = M /\ k.s = j.s
    BY <1>3, <2>1, SeenEqual DEF Check, Reads, Moves
  <2> QED
    BY <2>1, <2>2 DEF Own
<1>4. CASE Scan(t)
  <2>1. /\ k.at = "prune" /\ Moves(j, k) /\ k.apn = j.apn
        /\ k.todo = Ids(D)
    BY <1>4, ScanMoves
  <2>2. rows'[h] = rows[h] /\ k.s = j.s
    BY <1>4, <2>1 DEF Scan, Reads, Moves
  <2>3. Dups(pdn, rows[h], k) = D
    BY <2>1, <2>2, SeenEqual
  <2> QED
    BY <2>1, <2>2, <2>3 DEF Own
<1>5. CASE Prune(t)
  <2>1. /\ k.at = "prune" /\ Moves(j, k) /\ k.apn = j.apn /\ j.at = "prune"
        /\ k.todo \subseteq j.todo \ {Min(j.todo)}
    BY <1>5, PruneMoves DEF Prune
  <2>2. Ids(Dups(pdn, rows'[h], k)) = Ids(D) \ {Min(j.todo)}
    <3>1. /\ rows'[h] \subseteq rows[h]
          /\ \A x \in rows[h] : x \in rows'[h] <=> x.id # Min(j.todo)
          /\ k.s = j.s /\ k.apn = j.apn
      BY <1>5, <2>1, PruneRows DEF Moves
    <3> QED
      BY <3>1 DEF Dups, Ids
  <2>3. j.todo \subseteq Ids(D)
    BY <1>1, <2>1 DEF Own
  <2> QED
    BY <2>1, <2>2, <2>3 DEF Own
<1>6. CASE Find(t)
  <2>1. /\ k.row = FirstOf(M) /\ Moves(j, k) /\ k.apn = j.apn
        /\ k.at \in {"create", "update", "copy", "delete"}
        /\ k.at \in {"update", "delete"} => M # {} /\ k.row \in Ids(M)
        /\ k.at = "delete" => j.kind # "set"
    BY <1>6, FindFinds
  <2>2. rows'[h] = rows[h] /\ Mine(rows[h], k) = M /\ k.s = j.s
        /\ k.kind = j.kind
    BY <1>6, <2>1, SeenEqual DEF Find, Reads, Moves
  <2>3. j.kind = "clear" => \E x \in M : x.id = FirstOf(M) /\ x.s = j.s
    <3>1. j.kind = "clear" => j.at = "find"
      BY <1>1, <1>6 DEF Find, JobOK, Sets
    <3> QED
      BY <1>1, <3>1 DEF Own
  <2> QED
    BY <2>1, <2>2, <2>3 DEF Own
<1>7. CASE Fails(t)
  <2>1. /\ k.at = AfterFailure[j.at] /\ Moves(j, k) /\ k.apn = j.apn
        /\ k.row = j.row
        /\ j.at \in {"scan", "prune", "update", "undo", "delete"}
    BY <1>7, FailsMoves DEF Fails, AfterFailure
  <2>2. rows'[h] = rows[h] /\ Mine(rows[h], k) = M /\ k.kind = j.kind
    <3>1. rows'[h] = rows[h] /\ k.s = j.s /\ k.kind = j.kind
      BY <1>7, <2>1 DEF Fails, Moves
    <3> QED
      BY <2>1, <3>1, SeenEqual
  <2>3. /\ k.at \in {"find", "undo", "create", "copy"}
        /\ k.at = "undo" => j.at = "update"
        /\ k.at = "find" => j.kind = "set"
    BY <1>1, <2>1 DEF AfterFailure, JobOK, Sets
  <2>4. k.at = "undo" => k.row \in Ids(M)
    BY <1>1, <2>1, <2>3 DEF Own
  <2> QED
    BY <2>2, <2>3, <2>4 DEF Own
<1>8. CASE QueueCopy(t)
  <2>1. k.at = "accept" \/ Fresh(k)
    BY <1>8, CopyMoves
  <2> QED
    BY <1>2, <2>1, FreshOwns
<1>9. CASE UpdateRow(t) \/ Undo(t) \/ Read(t) \/ Create(t) \/ Reread(t)
           \/ Delete(t)
  <2>1. \E at \in {"read", "create", "copy", "reread"} : Goes(t, at)
    BY <1>9, EndsThere DEF UpdateRow, Undo, Read, Create, Reread, Delete
  <2>2. k.at \in {"read", "create", "copy", "reread"}
    BY <2>1, GoesMoves
  <2> QED
    BY <1>2, <2>2
<1> QED
  BY <1>3, <1>4, <1>5, <1>6, <1>7, <1>8, <1>9 DEF Store

\* What it has done is seen in its rows.
LEMMA StoreStages ==
  ASSUME TypeInv, RowsInv, Sound, Sound', NEW t \in Thread, Store(t),
         AtWork(job'[t])
  PROVE  Stage(Mine(rows'[SiteOf[t]], job'[t]),
               Dups(pdn, rows'[SiteOf[t]], job'[t]), job'[t])
<1> DEFINE h == SiteOf[t]
           j == job[t]
           k == job'[t]
           M == Mine(rows[h], j)
           D == Dups(pdn, rows[h], j)
<1>1. /\ h \in Site /\ AtWork(j) /\ Own(M, D, j) /\ JobOK(t, j, Len(pdn))
      /\ Stage(M, D, j) /\ NoDuplicates
  BY StoreMoves, Typed DEF RowsInv, OwnInv, StageInv, Sound
<1>2. CASE Check(t)
  <2>1. k.at = "find" /\ k.kind = "clear"
    BY <1>2, CheckMine DEF Moves
  <2> QED
    BY <2>1 DEF Stage
<1>3. CASE Scan(t)
  <2>1. /\ k.at = "prune" /\ Moves(j, k) /\ k.apn = j.apn
        /\ k.todo = Ids(D)
    BY <1>3, ScanMoves
  <2>2. rows'[h] = rows[h] /\ k.s = j.s
    BY <1>3, <2>1 DEF Scan, Reads, Moves
  <2>3. Dups(pdn, rows[h], k) = D
    BY <2>1, <2>2, SeenEqual
  <2> QED
    BY <2>1, <2>2, <2>3 DEF Stage
<1>4. CASE Prune(t)
  <2>1. /\ k.at = "prune" /\ Moves(j, k) /\ k.apn = j.apn /\ j.at = "prune"
        /\ k.todo = IF HasRow(h, Min(j.todo)) THEN j.todo \ {Min(j.todo)}
                    ELSE {}
    BY <1>4, PruneMoves DEF Prune
  <2>2. Ids(Dups(pdn, rows'[h], k)) = Ids(D) \ {Min(j.todo)}
    <3>1. /\ rows'[h] \subseteq rows[h]
          /\ \A x \in rows[h] : x \in rows'[h] <=> x.id # Min(j.todo)
          /\ k.s = j.s /\ k.apn = j.apn
      BY <1>4, <2>1, PruneRows DEF Moves
    <3> QED
      BY <3>1 DEF Dups, Ids
  <2>3. Min(j.todo) \in Ids(D)
    BY <1>1, <1>4, <2>1, PruneRows DEF Own
  <2>4. HasRow(h, Min(j.todo))
    BY <2>3 DEF HasRow, Ids, Dups
  <2>5. Ids(D) \subseteq j.todo
    BY <1>1, <2>1 DEF Stage
  <2> QED
    BY <2>1, <2>2, <2>4, <2>5 DEF Stage
<1>5. CASE Find(t)
  <2>1. /\ Moves(j, k) /\ k.apn = j.apn
        /\ IF j.kind = "set"
           THEN k.at = IF M = {} THEN "create" ELSE "update"
           ELSE k.at = IF M = {} THEN "copy" ELSE "delete"
    BY <1>5, FindFinds
  <2>2. /\ rows'[h] = rows[h] /\ Mine(rows[h], k) = M
        /\ Dups(pdn, rows[h], k) = D /\ k.kind = j.kind
    BY <1>5, <2>1, SeenEqual DEF Find, Reads, Moves
  <2>3. j.kind = "set" => D = {}
    <3>1. j.kind = "set" => j.at = "prune" /\ j.todo = {}
      BY <1>1, <1>5 DEF Find, Stage
    <3>2. Ids(D) = {} => D = {}
      BY DEF Ids
    <3> QED
      BY <1>1, <3>1, <3>2 DEF Stage
  <2>4. CASE j.kind = "set"
    BY <2>1, <2>2, <2>3, <2>4 DEF Stage
  <2>5. CASE j.kind # "set"
    BY <2>1, <2>2, <2>5 DEF Stage
  <2> QED
    BY <2>4, <2>5
<1>6. CASE UpdateRow(t)
  <2>1. j.at = "update" /\ j.row \in Ids(M)
    BY <1>1, <1>6 DEF UpdateRow, Own
  <2>2. HasRow(h, j.row)
    BY <2>1 DEF HasRow, Ids, Mine
  <2>3. /\ rows'[h] = {x \in rows[h] : x.id # j.row} \cup {New(j, j.row)}
        /\ Goes(t, "read")
    BY <1>6, <2>2, UpdateRows DEF UpdateRow
  <2>4. k.at = "read" /\ k.apn = j.apn /\ k.s = j.s /\ k.row = j.row
    BY <2>3, GoesMoves DEF Moves
  <2>5. New(j, j.row) \in Mine(rows'[h], k) /\ New(j, j.row).s = k.s
        /\ New(j, j.row).id = k.row
    BY <2>3, <2>4 DEF Mine, New
  <2> QED
    BY <2>4, <2>5 DEF Stage, Ids
<1>7. CASE Create(t)
  <2>1. rows'[h] = rows[h] \cup {New(j, NewId(h))} /\ Goes(t, "reread")
    BY <1>7, CreateRows DEF Create
  <2>2. k.at = "reread" /\ k.apn = j.apn /\ k.s = j.s
    BY <2>1, GoesMoves DEF Moves
  <2>3. New(j, NewId(h)) \in Mine(rows'[h], k) /\ New(j, NewId(h)).s = k.s
    BY <2>1, <2>2 DEF Mine, New
  <2> QED
    BY <2>2, <2>3 DEF Stage
<1>8. CASE Read(t) \/ Reread(t)
  <2>1. j.at \in {"read", "reread"} /\ j.kind = "set"
        /\ (j.at = "read" => j.row \in Ids(M))
        /\ \E x \in M : x.s = j.s
    BY <1>1, <1>8 DEF Read, Reread, Stage, JobOK, Sets
  <2>2. Goes(t, "copy")
    <3>1. j.at = "read" => HasRow(h, j.row)
      BY <2>1 DEF HasRow, Ids, Mine
    <3> QED
      BY <1>8, <2>1, <3>1, EndsThere DEF Read, Reread
  <2>3. k.at = "copy" /\ k.apn = j.apn /\ k.s = j.s /\ k.kind = "set"
    BY <2>1, <2>2, GoesMoves DEF Moves
  <2>4. rows'[h] = rows[h] /\ Mine(rows[h], k) = M
    BY <1>8, <2>3, SeenEqual DEF Read, Reread, Reads
  <2> QED
    BY <2>1, <2>3, <2>4 DEF Stage
<1>9. CASE Delete(t)
  <2>1. /\ j.at = "delete" /\ j.row \in Ids(M) /\ j.kind # "set"
        /\ Goes(t, "copy") /\ rows' = Without(h, j.row)
    BY <1>1, <1>9 DEF Delete, Own, JobOK
  <2>2. k.at = "copy" /\ k.apn = j.apn /\ k.s = j.s /\ k.kind # "set"
    BY <2>1, GoesMoves DEF Moves
  <2>3. Mine(rows'[h], k) = {x \in M : x.id # j.row}
    <3>1. /\ rows'[h] \subseteq rows[h]
          /\ \A x \in rows[h] : x \in rows'[h] <=> x.id # j.row
      BY <2>1, WithoutRow
    <3>2. k.s = j.s /\ k.apn = j.apn
      BY <2>2
    <3> HIDE DEF h, j, k
    <3>3. Mine(rows'[h], k) = {x \in Mine(rows[h], j) : x.id # j.row}
      BY <3>1, <3>2 DEF Mine
    <3> QED
      BY <3>3
  <2>4. \A x, y \in M : x = y
    BY <1>1 DEF NoDuplicates, Sound, Mine
  <2>5. Mine(rows'[h], k) = {}
    BY <2>1, <2>3, <2>4 DEF Ids
  <2> QED
    BY <2>2, <2>5 DEF Stage
<1>10. CASE QueueCopy(t)
  <2>1. CASE Fresh(k)
    BY <2>1, FreshOwns
  <2>2. CASE ~Fresh(k)
    <3>1. /\ k.at = "accept" /\ j.kind = "set" /\ k.s = j.s
          /\ k.apn = j.apn
      BY <1>10, <2>2, CopyMoves DEF Moves
    <3>2. \E x \in M : x.s = j.s
      BY <1>1, <1>10, <3>1 DEF Stage, QueueCopy
    <3>3. rows'[h] = rows[h] /\ Mine(rows[h], k) = M
      BY <1>10, <3>1, SeenEqual DEF QueueCopy
    <3> QED
      BY <3>1, <3>2, <3>3 DEF Stage
  <2> QED
    BY <2>1, <2>2
<1>11. ~Undo(t) /\ ~Fails(t)
  BY <1>1 DEF Undo, Fails, Stage, Sound
<1> QED
  BY <1>2, <1>3, <1>4, <1>5, <1>6, <1>7, <1>8, <1>9, <1>10, <1>11 DEF Store

\* No second row of an APN or of an address comes in.
LEMMA StoreOnce ==
  ASSUME TypeInv, RowsInv, Sound, Sound', NEW t \in Thread, Store(t)
  PROVE  NoDuplicates'
<1> DEFINE h == SiteOf[t]
           j == job[t]
           M == Mine(rows[h], j)
           D == Dups(pdn, rows[h], j)
<1>1. /\ h \in Site /\ Own(M, D, j) /\ JobOK(t, j, Len(pdn))
      /\ Stage(M, D, j) /\ NoDuplicates /\ UNCHANGED pdn /\ Others(t)
  BY StoreMoves, Typed, RowsTyped DEF RowsInv, OwnInv, StageInv, Sound
<1>2. SUFFICES \A x, y \in rows'[h] :
                 x.apn = y.apn \/ pdn[x.s].ip = pdn[y.s].ip => x = y
  BY <1>1 DEF NoDuplicates, Others, Sound
<1>3. \A x, y \in rows[h] :
        x.apn = y.apn \/ pdn[x.s].ip = pdn[y.s].ip => x = y
  BY <1>1 DEF NoDuplicates, Sound
<1>4. CASE rows'[h] \subseteq rows[h]
  BY <1>3, <1>4
<1>5. ASSUME NEW id, NEW Q \in SUBSET rows[h],
             \A x \in Q : x.apn # RowApn(j.apn) /\ pdn[x.s].ip # pdn[j.s].ip,
             rows'[h] = Q \cup {New(j, id)}
      PROVE  \A x, y \in rows'[h] :
               x.apn = y.apn \/ pdn[x.s].ip = pdn[y.s].ip => x = y
  <2>1. New(j, id).apn = RowApn(j.apn) /\ New(j, id).s = j.s
    BY DEF New
  <2> QED
    BY <1>3, <1>5, <2>1
<1>6. CASE Create(t)
  <2>1. M = {} /\ D = {}
    BY <1>1, <1>6 DEF Create, Stage
  <2>2. rows'[h] = rows[h] \cup {New(j, NewId(h))}
    BY <1>6, CreateRows
  <2>3. \A x \in rows[h] : x.apn # RowApn(j.apn) /\ pdn[x.s].ip # pdn[j.s].ip
    BY <2>1 DEF Mine, Dups
  <2> QED
    BY <1>5, <2>2, <2>3
<1>7. CASE UpdateRow(t)
  <2>1. j.at = "update" /\ j.row \in Ids(M) /\ D = {}
    BY <1>1, <1>7 DEF UpdateRow, Own, Stage
  <2>2. HasRow(h, j.row)
    BY <2>1 DEF HasRow, Ids, Mine
  <2> DEFINE Q == {x \in rows[h] : x.id # j.row}
  <2>3. rows'[h] = Q \cup {New(j, j.row)}
    BY <1>7, <2>2, UpdateRows
  <2>4. \A x \in Q : x.apn # RowApn(j.apn)
    BY <1>3, <2>1 DEF Ids, Mine
  <2>5. \A x \in Q : pdn[x.s].ip # pdn[j.s].ip
    BY <2>1 DEF Dups
  <2>6. Q \in SUBSET rows[h]
    OBVIOUS
  <2> HIDE DEF Q
  <2> QED
    BY <1>5, <2>3, <2>4, <2>5, <2>6
<1>8. CASE Prune(t) \/ Undo(t) \/ Delete(t)
  BY <1>4, <1>8, PruneRows, WithoutRow DEF Undo, Delete
<1> QED
  BY <1>4, <1>6, <1>7, <1>8
     DEF Store, Check, Scan, Find, Read, Reread, QueueCopy, Fails, Reads

LEMMA StoreRows ==
  ASSUME TypeInv, RowsInv, NEW t \in Thread, Store(t)
  PROVE  RowsInv'
<1>1. /\ AtWork(job[t]) /\ UNCHANGED pdn /\ cause \subseteq cause'
      /\ job' \in [Thread -> Job]
      /\ \A u \in Thread \ {t} : job'[u] = job[u]
      /\ AtWork(job'[t]) => /\ Moves(job[t], job'[t])
                            /\ Apns(job'[t]) = Apns(job[t])
      /\ Others(t)
  BY StoreMoves, RowsTyped
<1>2. ASSUME "overlap" \notin cause
      PROVE  /\ MutexInv'
             /\ \A u \in Thread \ {t} :
                  AtWork(job[u]) =>
                    LET R == rows[SiteOf[u]]
                        Q == rows'[SiteOf[u]]
                    IN  /\ IpsIn(pdn, Q, job[u]) = IpsIn(pdn, R, job[u])
                        /\ Mine(Q, job[u]) = Mine(R, job[u])
                        /\ job[u].s # None =>
                             Dups(pdn, Q, job[u]) = Dups(pdn, R, job[u])
  <2>1. Touches(pdn, rows[SiteOf[t]], rows'[SiteOf[t]], job[t])
    BY <1>2, StoreTouches
  <2>2. AtWork(job'[t]) => /\ Apns(job'[t]) \subseteq Apns(job[t])
                           /\ job'[t].s = job[t].s
    BY <1>1 DEF Moves
  <2> QED
    BY <1>1, <1>2, <2>1, <2>2, HandlerOn DEF RowsInv
<1>3. ASSUME "overlap" \notin cause, NEW u \in Thread \ {t}, AtWork(job[u])
      PROVE  LET R == rows[SiteOf[u]]
                 Q == rows'[SiteOf[u]]
                 j == job[u]
             IN  /\ Own(Mine(Q, j), Dups(pdn, Q, j), j)
                      = Own(Mine(R, j), Dups(pdn, R, j), j)
                 /\ Stage(Mine(Q, j), Dups(pdn, Q, j), j)
                      = Stage(Mine(R, j), Dups(pdn, R, j), j)
  <2>1. /\ Mine(rows'[SiteOf[u]], job[u]) = Mine(rows[SiteOf[u]], job[u])
        /\ job[u].at \in Sets => Dups(pdn, rows'[SiteOf[u]], job[u])
                                   = Dups(pdn, rows[SiteOf[u]], job[u])
    BY <1>2, <1>3, SetHasSession
  <2> QED
    BY <2>1, SameOwn
<1>4. MutexInv'
  BY <1>1, <1>2 DEF MutexInv
<1>5. OwnInv'
  <2> SUFFICES ASSUME "overlap" \notin cause', NEW u \in Thread,
                      AtWork(job'[u])
               PROVE  Own(Mine(rows'[SiteOf[u]], job'[u]),
                          Dups(pdn, rows'[SiteOf[u]], job'[u]), job'[u])
    BY <1>1 DEF OwnInv
  <2>1. "overlap" \notin cause
    BY <1>1
  <2>2. CASE u = t
    BY <2>1, <2>2, StoreOwns
  <2>3. CASE u # t
    <3>1. job'[u] = job[u] /\ AtWork(job[u])
      BY <1>1, <2>3
    <3>2. Own(Mine(rows[SiteOf[u]], job[u]),
              Dups(pdn, rows[SiteOf[u]], job[u]), job[u])
      BY <2>1, <3>1 DEF RowsInv, OwnInv
    <3> QED
      BY <1>3, <2>1, <2>3, <3>1, <3>2
  <2> QED
    BY <2>2, <2>3
<1>6. StageInv'
  <2> SUFFICES ASSUME Sound'
               PROVE  /\ NoDuplicates'
                      /\ \A u \in Thread :
                           AtWork(job'[u]) =>
                             Stage(Mine(rows'[SiteOf[u]], job'[u]),
                                   Dups(pdn, rows'[SiteOf[u]], job'[u]),
                                   job'[u])
    BY <1>1 DEF StageInv
  <2>1. Sound /\ "overlap" \notin cause
    BY <1>1 DEF Sound
  <2>2. ASSUME NEW u \in Thread, AtWork(job'[u])
        PROVE  Stage(Mine(rows'[SiteOf[u]], job'[u]),
                     Dups(pdn, rows'[SiteOf[u]], job'[u]), job'[u])
    <3>1. CASE u = t
      BY <2>1, <2>2, <3>1, StoreStages
    <3>2. CASE u # t
      <4>1. job'[u] = job[u] /\ AtWork(job[u])
        BY <1>1, <2>2, <3>2
      <4>2. Stage(Mine(rows[SiteOf[u]], job[u]),
                  Dups(pdn, rows[SiteOf[u]], job[u]), job[u])
        BY <2>1, <4>1 DEF RowsInv, StageInv
      <4> QED
        BY <1>3, <2>1, <3>2, <4>1, <4>2
    <3> QED
      BY <3>1, <3>2
  <2> QED
    BY <2>1, <2>2, StoreOnce
<1> QED
  BY <1>4, <1>5, <1>6 DEF RowsInv

\* The step of any thread that is not a handler's.
LEMMA OtherRows ==
  ASSUME TypeInv, RowsInv, Next,
         \A t \in Thread : ~Store(t)
  PROVE  RowsInv'
<1>1. \A u \in Thread : \A j :
        job' = [job EXCEPT ![u] = j] /\ ~AtWork(j) =>
        \A v \in Thread : job'[v] = job[v] \/ ~AtWork(job'[v])
  BY DEF TypeInv, TypeOK
<1>2. CASE Attach
  <2>1. PICK p : pdn' = Append(pdn, p)
    BY <1>2 DEF Attach
  <2>2. SameIps
    BY <2>1, AppendProperties DEF SameIps, TypeInv, TypeOK
  <2> QED
    BY <1>2, <2>2, RowsStandEnd DEF Attach
<1>3. CASE Detach
  <2>1. SameIps
    BY <1>3, PdnChanged DEF Detach, SameIps, TypeInv, TypeOK
  <2> QED
    BY <1>3, <2>1, RowsStandEnd DEF Detach
<1>4. ASSUME NEW t \in Worker, CcrI(t)
      PROVE  RowsInv'
  <2>1. PICK s \in 1 .. Len(pdn) :
          /\ Request(t, Handler("scan", "set", s, pdn[s].apn, None),
                     IF pdn[s].apn \in Listed THEN {} ELSE {"unlisted"})
          /\ pdn' = [pdn EXCEPT ![s].at = "asked"]
    BY <1>4 DEF CcrI
  <2>2. SameIps
    BY <2>1, PdnChanged DEF SameIps, TypeInv, TypeOK
  <2>3. LET j == Handler("scan", "set", s, pdn[s].apn, None)
        IN  Fresh(j) /\ Known(j)
    BY DEF Handler, Fresh, Known
  <2>4. t \in Thread
    BY DEF Thread
  <2> QED
    BY <2>1, <2>2, <2>3, <2>4, RowsStandBegin DEF Request
<1>5. ASSUME NEW t \in Worker, CcrT(t)
      PROVE  RowsInv'
  <2>1. PICK s \in 1 .. Len(pdn) :
          /\ Request(t, Terminate(s, pdn[s].apn, None), {})
          /\ pdn' = [pdn EXCEPT ![s].at = "over"]
    BY <1>5 DEF CcrT
  <2>2. SameIps
    BY <2>1, PdnChanged DEF SameIps, TypeInv, TypeOK
  <2>3. LET j == Terminate(s, pdn[s].apn, None)
        IN  Fresh(j) /\ Known(j)
    BY DEF Terminate, Handler, Fresh, Known
  <2>4. t \in Thread
    BY DEF Thread
  <2> QED
    BY <2>1, <2>2, <2>3, <2>4, RowsStandBegin DEF Request
<1>6. ASSUME NEW t \in Api, Deregister(t)
      PROVE  RowsInv'
  <2> DEFINE a == NextApn(Listed)
             j == [Handler("find", "deregister", None, a, None)
                     EXCEPT !.more = Listed \ {a}]
  <2>1. Request(t, j, {"deregister"}) /\ UNCHANGED pdn
    BY <1>6 DEF Deregister
  <2>2. Fresh(j) /\ Known(j)
    BY DEF Handler, Fresh, Known
  <2>3. t \in Thread /\ SameIps
    BY <2>1 DEF Thread, SameIps
  <2> HIDE DEF j
  <2> QED
    BY <2>1, <2>2, <2>3, RowsStandBegin DEF Request
<1>7. ASSUME NEW t \in Worker, Accept(t)
      PROVE  RowsInv'
  <2>1. t \in Thread /\ job[t].s \in 1 .. Len(pdn)
    BY <1>7, SetHasSession DEF Thread, Accept, Sets
  <2>2. SameIps
    BY <1>7, <2>1, PdnChanged DEF Accept, SameIps, TypeInv, TypeOK
  <2>3. /\ job' = [job EXCEPT ![t] = Over(job[t])]
        /\ ~AtWork(Over(job[t]))
    BY <1>7, <2>1, Typed, OverOK DEF Accept, Ends, AtWork
  <2> QED
    BY <1>1, <1>7, <2>1, <2>2, <2>3, RowsStandEnd DEF Accept
<1>8. ASSUME NEW t \in Thread, Dies(t)
      PROVE  RowsInv'
  <2>1. SameIps
    <3>1. CASE job[t].kind = "set"
      <4>1. job[t].s \in 1 .. Len(pdn)
        BY <1>8, <3>1, Typed, ServingAssumption DEF JobOK, Dies, Busy
      <4> QED
        BY <1>8, <3>1, <4>1, PdnChanged DEF Dies, SameIps, TypeInv, TypeOK
    <3>2. CASE job[t].kind # "set"
      BY <1>8, <3>2 DEF Dies, SameIps
    <3> QED
      BY <3>1, <3>2
  <2>2. job' = [job EXCEPT ![t] = Idle] /\ ~AtWork(Idle)
    BY <1>8 DEF Dies, Idle, Handler, AtWork
  <2> QED
    BY <1>1, <1>8, <2>1, <2>2, RowsStandEnd DEF Dies
<1>9. ASSUME NEW t \in Api, Respond(t)
      PROVE  RowsInv'
  <2>1. job' = [job EXCEPT ![t] = Idle] /\ ~AtWork(Idle) /\ t \in Thread
    BY <1>9 DEF Respond, Idle, Handler, AtWork, Thread
  <2>2. SameIps /\ UNCHANGED <<rows, cause>>
    BY <1>9 DEF SameIps, Respond
  <2> QED
    BY <1>1, <2>1, <2>2, RowsStandEnd
<1>10. ASSUME NEW t \in Api, NEW h \in Site, Deliver(t, h)
       PROVE  RowsInv'
  <2> DEFINE c == Head(mail[h][SiteOf[t]])
             j == Received(c, h)
  <2>1. Begin(t, j, {}) /\ UNCHANGED <<pdn, rows>> /\ t \in Thread
        /\ mail[h][SiteOf[t]] # << >> /\ SiteOf[t] \in Site
    BY <1>10, ServingAssumption DEF Deliver, Thread
  <2>2. CopyOK(c, Len(pdn))
    <3>1. /\ mail[h][SiteOf[t]] \in Seq(Copy)
          /\ MailOK(mail[h][SiteOf[t]], Len(pdn))
      BY <2>1 DEF TypeInv, TypeOK
    <3> QED
      BY <2>1, <3>1, QueueBegins
  <2> HIDE DEF c
  <2>3. Fresh(j) /\ Known(j)
    BY <2>2 DEF Received, Terminate, Handler, Fresh, Known, CopyOK
  <2> HIDE DEF j
  <2> QED
    BY <2>1, <2>3, RowsStandBegin DEF SameIps
<1>11. ASSUME NEW h \in Site, NEW g \in Site, GiveUp(h, g)
       PROVE  RowsInv'
  BY <1>11, RowsStandEnd DEF GiveUp, SameIps
<1> QED
  BY <1>2, <1>3, <1>4, <1>5, <1>6, <1>7, <1>8, <1>9, <1>10, <1>11, StepKinds

LEMMA InitRowsInv == Init => RowsInv
<1> SUFFICES ASSUME Init
             PROVE  RowsInv
  OBVIOUS
<1>1. \A t \in Thread : ~AtWork(job[t])
  BY DEF Init, Idle, Handler, AtWork
<1>2. NoDuplicates
  BY DEF Init, NoDuplicates
<1> QED
  BY <1>1, <1>2 DEF RowsInv, MutexInv, OwnInv, StageInv

LEMMA RowsKept == TypeInv /\ RowsInv /\ [Next]_vars => RowsInv'
<1> SUFFICES ASSUME TypeInv, RowsInv, [Next]_vars
             PROVE  RowsInv'
  OBVIOUS
<1>1. CASE UNCHANGED vars
  BY <1>1, RowsStandEnd DEF vars, SameIps
<1>2. CASE Next
  BY <1>2, StoreRows, OtherRows
<1> QED
  BY <1>1, <1>2

\* The second layer: what is true of the rows and of the handlers.
LEMMA RowsAlways == Spec => [](TypeInv /\ RowsInv)
BY TypeAlways, InitRowsInv, RowsKept, PTL DEF Spec

\* Update_Serving_APN keeps duplicates out (its docstring): as long as no
\* handlers of one APN or address have overlapped, and the database has not
\* failed, no site has two rows of one APN, or two with one address.
THEOREM OneRowEach == Spec => []NoDuplicates
<1>1. TypeInv /\ RowsInv => NoDuplicates
  BY DEF RowsInv, StageInv, Sound, NoDuplicates
<1> QED
  BY <1>1, RowsAlways, PTL

\* A termination that has looked whose row it is (Answer_16777238_272, PATCH
\* /geored/) removes the row of its own session and no other, unless handlers
\* overlapped.
THEOREM TerminatesItsOwn == Spec => ClearsOwn
<1> DEFINE A == \A t \in Thread :
                  /\ job[t].kind = "clear" /\ job[t].at = "delete"
                  /\ "overlap" \notin cause
                  => \A x \in rows[SiteOf[t]] :
                       x \in rows'[SiteOf[t]] \/ x.s = job[t].s
                          \/ job'[t].at = "delete"
<1>1. TypeInv /\ RowsInv /\ [Next]_vars => [A]_vars
  <2> SUFFICES ASSUME TypeInv, RowsInv, Next, NEW t \in Thread,
                      job[t].kind = "clear", job[t].at = "delete",
                      "overlap" \notin cause, NEW x \in rows[SiteOf[t]],
                      x \notin rows'[SiteOf[t]], x.s # job[t].s
               PROVE  job'[t].at = "delete"
    BY DEF vars
  <2>1. SiteOf[t] \in Site /\ \E y \in Mine(rows[SiteOf[t]], job[t]) :
                                y.id = job[t].row /\ y.s = job[t].s
    BY Typed DEF RowsInv, OwnInv, Own, AtWork
  <2>2. x.id # job[t].row
    BY <2>1, Typed DEF RowsOK, Mine
  <2>3. ~Delete(t)
    <3>1. SUFFICES ASSUME Delete(t)
                   PROVE  FALSE
      OBVIOUS
    <3>2. rows'[SiteOf[t]] = {y \in rows[SiteOf[t]] : y.id # job[t].row}
      BY <3>1, WithoutRow DEF Delete
    <3> QED
      BY <2>2, <3>2
  <2>4. rows' # rows
    OBVIOUS
  <2>5. PICK u \in Thread : Store(u)
    BY <2>4, StepKinds
       DEF Attach, Detach, CcrI, CcrT, Accept, Dies, Deregister, Respond,
           Deliver, GiveUp, Request
  <2>6. CASE u = t
    BY <2>3, <2>4, <2>5, <2>6
       DEF Store, Check, Scan, Find, Read, Reread, QueueCopy, Fails, Prune,
           UpdateRow, Undo, Create, Reads
  <2>7. CASE u # t
    BY <2>5, <2>7, StoreMoves
  <2> QED
    BY <2>6, <2>7
<1> HIDE DEF A
<1>2. Spec => [][A]_vars
  BY <1>1, RowsAlways, PTL DEF Spec
<1> QED
  BY <1>2 DEF A, ClearsOwn

-----------------------------------------------------------------------------
(***************************************************************************)
(* The sites follow.                                                       *)
(*                                                                         *)
(* What the sites, the handlers and the queues are to each other, as long  *)
(* as nothing has gone wrong.  p stands for pdn, R for rows, J for job, M  *)
(* for mail: a step is looked at with pdn as it was, which changes in      *)
(* nothing that is spoken of here.                                         *)
(***************************************************************************)

LocalJob(j) == j.at # "idle" /\ j.from = None
SureJob(j) == LocalJob(j) /\ j.at # "check"

\* About a session of the APN, which is listed.
Proper(p, c) == /\ c.kind \in {"set", "clear"} /\ c.s # None
                /\ c.apn \in Listed /\ p[c.s].apn = c.apn

\* c, a handler or a copy, once stored has taken from APN a the row of u; or
\* given it one.
Kills(p, c, a, u) ==
  IF c.kind = "set"
  THEN IF c.apn = a THEN c.s # u ELSE p[u].ip = p[c.s].ip
  ELSE c.apn = a /\ c.s = u
Gives(c, a, u) == c.kind = "set" /\ c.apn = a /\ c.s = u
Touch(p, c, a, u) == Kills(p, c, a, u) \/ Gives(c, a, u)

\* Two of them are about one APN or one address.
Share(p, c, d) == c.apn = d.apn \/ p[c.s].ip = p[d.s].ip

\* What is on its way from a site.
From(m) == UNION {{m[g][i] : i \in 1 .. Len(m[g])} : g \in Site}

\* A queue with nothing that takes the row; one that brings it.
Kept(p, m, a, u) == \A i \in 1 .. Len(m) : ~Kills(p, m[i], a, u)
Brings(p, m, a, u) ==
  \E k \in 1 .. Len(m) :
    /\ Gives(m[k], a, u)
    /\ \A i \in (k + 1) .. Len(m) : ~Kills(p, m[i], a, u)

Has(S, a, u) == \E x \in S : x.apn = a /\ x.s = u

\* Site r has a row of u for APN a, or gets one, and nothing that is on its
\* way takes it.
Will(p, R, M, r, a, u) ==
  \/ Has(R[r], a, u) /\ \A q \in Site : Kept(p, M[q][r], a, u)
  \/ \E q \in Site : Brings(p, M[q][r], a, u)

\* Everything is of an APN that is listed.
ListedOK(p) ==
  \A s \in 1 .. Len(p) : p[s].at # "new" => p[s].apn \in Listed
CalmOK(p, cur, J, M) ==
  /\ \A a \in Listed : cur[a] # None => p[cur[a]].apn = a
  /\ \A t \in Thread : AtWork(J[t]) => Proper(p, J[t])
  /\ \A h \in Site : \A c \in From(M[h]) : Proper(p, c)

\* A thread of the API works on the head of the queue.
HeadOK(J, M) ==
  \A t \in Thread :
    LET c == Head(M[J[t].from][SiteOf[t]])
    IN  J[t].from # None /\ AtWork(J[t]) =>
          J[t].s = c.s /\ J[t].apn = c.apn /\ J[t].kind = c.kind

\* What is about one APN or address comes from one site.
SourceOK(p, J, M) ==
  /\ \A t, u \in Thread :
       t # u /\ LocalJob(J[t]) /\ LocalJob(J[u]) => ~Share(p, J[t], J[u])
  /\ \A t \in Thread, h \in Site :
       LocalJob(J[t]) /\ h # SiteOf[t] =>
         \A c \in From(M[h]) : ~Share(p, J[t], c)
  /\ \A h, k \in Site :
       h # k => \A c \in From(M[h]), d \in From(M[k]) : ~Share(p, c, d)

\* A copy that is answered has been stored.
AppliedOK(R, J, M) ==
  \A t \in Thread :
    LET c == Head(M[J[t].from][SiteOf[t]])
    IN  J[t].at = "respond" =>
          (c.kind = "set" <=> Has(R[SiteOf[t]], c.apn, c.s))

\* A session that its PGW has ended is no APN's.
GoneOK(cur, J) ==
  \A t \in Thread : LocalJob(J[t]) /\ J[t].kind = "clear" =>
    \A a \in Listed : cur[a] # J[t].s

\* A site has to do with u at APN a what no handler is about to change.
Touched(p, J, a, u) ==
  \E t \in Thread : SureJob(J[t]) /\ Touch(p, J[t], a, u)
Going(p, J, a, u) ==
  \E t \in Thread : /\ LocalJob(J[t]) /\ J[t].at = "check"
                    /\ Kills(p, J[t], a, u)

FollowOK(p, cur, R, J, M) ==
  \A a \in Listed, u \in 1 .. Len(p) :
    ~Touched(p, J, a, u) =>
      /\ \A r, q \in Site : Will(p, R, M, r, a, u) => Will(p, R, M, q, a, u)
      /\ \A r \in Site : cur[a] = u => Will(p, R, M, r, a, u)
      /\ \A r \in Site : Will(p, R, M, r, a, u) /\ cur[a] # u =>
                           Going(p, J, a, u)

\* Of a session about to be accepted every site has heard.
SentOK(p, R, J, M) ==
  \A t \in Thread : J[t].at = "accept" =>
    \A r \in Site, a \in Listed, u \in 1 .. Len(p) :
      /\ Gives(J[t], a, u) => Will(p, R, M, r, a, u)
      /\ Kills(p, J[t], a, u) => ~Will(p, R, M, r, a, u)

SyncInv ==
  cause = {} => /\ ListedOK(pdn)
                /\ CalmOK(pdn, current, job, mail)
                /\ HeadOK(job, mail)
                /\ SourceOK(pdn, job, mail)
                /\ AppliedOK(rows, job, mail)
                /\ GoneOK(current, job)
                /\ FollowOK(pdn, current, rows, job, mail)
                /\ SentOK(pdn, rows, job, mail)

LEMMA FromIs ==
  ASSUME NEW m, NEW c
  PROVE  c \in From(m) <=>
           \E g \in Site : \E i \in 1 .. Len(m[g]) : c = m[g][i]
BY DEF From

\* A queue with one more at the end, and one less at the head.
LEMMA AtTheEnd ==
  ASSUME NEW m \in Seq(Copy), NEW c \in Copy, NEW p, NEW a, NEW u
  PROVE  /\ Kept(p, Append(m, c), a, u) <=>
              Kept(p, m, a, u) /\ ~Kills(p, c, a, u)
         /\ Brings(p, Append(m, c), a, u) <=>
              Gives(c, a, u) \/ (Brings(p, m, a, u) /\ ~Kills(p, c, a, u))
<1> DEFINE w == Append(m, c)
<1>1. /\ Len(w) = Len(m) + 1 /\ Len(m) \in Nat /\ w[Len(m) + 1] = c
      /\ \A i \in 1 .. Len(m) : w[i] = m[i]
  BY AppendProperties
<1> HIDE DEF w
<1>2. Kept(p, w, a, u) <=> Kept(p, m, a, u) /\ ~Kills(p, c, a, u)
  <2>1. 1 .. Len(w) = (1 .. Len(m)) \cup {Len(m) + 1}
    BY <1>1
  <2> QED
    BY <1>1, <2>1 DEF Kept
<1>3. ASSUME Brings(p, w, a, u), ~Gives(c, a, u)
      PROVE  Brings(p, m, a, u) /\ ~Kills(p, c, a, u)
  <2>1. PICK k \in 1 .. Len(w) :
          /\ Gives(w[k], a, u)
          /\ \A i \in (k + 1) .. Len(w) : ~Kills(p, w[i], a, u)
    BY <1>3 DEF Brings
  <2>2. k \in 1 .. Len(m) /\ Len(w) \in (k + 1) .. Len(w)
    BY <1>1, <1>3, <2>1
  <2>3. \A i \in (k + 1) .. Len(m) :
          i \in (k + 1) .. Len(w) /\ i \in 1 .. Len(m)
    BY <1>1, <2>2
  <2> QED
    BY <1>1, <2>1, <2>2, <2>3 DEF Brings
<1>4. ASSUME Gives(c, a, u)
      PROVE  Brings(p, w, a, u)
  <2>1. /\ Len(m) + 1 \in 1 .. Len(w) /\ Gives(w[Len(m) + 1], a, u)
        /\ (Len(m) + 1 + 1) .. Len(w) = {}
    BY <1>1, <1>4
  <2> QED
    BY <2>1 DEF Brings
<1>5. ASSUME Brings(p, m, a, u), ~Kills(p, c, a, u)
      PROVE  Brings(p, w, a, u)
  <2>1. PICK k \in 1 .. Len(m) :
          /\ Gives(m[k], a, u)
          /\ \A i \in (k + 1) .. Len(m) : ~Kills(p, m[i], a, u)
    BY <1>5 DEF Brings
  <2>2. k \in 1 .. Len(w) /\ \A i \in (k + 1) .. Len(w) :
                               \/ i \in (k + 1) .. Len(m) /\ i \in 1 .. Len(m)
                               \/ i = Len(m) + 1
    BY <1>1, <2>1
  <2>3. \A i \in (k + 1) .. Len(w) : ~Kills(p, w[i], a, u)
    BY <1>1, <1>5, <2>1, <2>2
  <2> QED
    BY <1>1, <2>1, <2>2, <2>3 DEF Brings
<1> QED
  BY <1>2, <1>3, <1>4, <1>5 DEF w

LEMMA AtTheHead ==
  ASSUME NEW m \in Seq(Copy), m # << >>, NEW p, NEW a, NEW u
  PROVE  /\ Kept(p, m, a, u) <=>
              Kept(p, Tail(m), a, u) /\ ~Kills(p, Head(m), a, u)
         /\ Brings(p, m, a, u) <=>
              \/ Brings(p, Tail(m), a, u)
              \/ Gives(Head(m), a, u) /\ Kept(p, Tail(m), a, u)
<1> DEFINE w == Tail(m)
           c == Head(m)
<1>1. /\ Len(w) = Len(m) - 1 /\ Len(m) \in Nat /\ Len(m) # 0 /\ m[1] = c
      /\ \A i \in 1 .. Len(w) : w[i] = m[i + 1]
  BY HeadTailProperties, EmptySeq
<1> HIDE DEF w, c
<1>2. \A i \in 1 .. Len(m) :
        i = 1 \/ (i - 1 \in 1 .. Len(w) /\ m[i] = w[i - 1])
  <2> SUFFICES ASSUME NEW i \in 1 .. Len(m), i # 1
               PROVE  i - 1 \in 1 .. Len(w) /\ m[i] = w[i - 1]
    OBVIOUS
  <2>1. i - 1 \in 1 .. Len(w) /\ (i - 1) + 1 = i
    BY <1>1
  <2> QED
    BY <1>1, <2>1
<1>3. \A i \in 1 .. Len(w) : i + 1 \in 1 .. Len(m)
  BY <1>1
<1>4. Kept(p, m, a, u) <=> Kept(p, w, a, u) /\ ~Kills(p, c, a, u)
  <2>1. 1 \in 1 .. Len(m)
    BY <1>1
  <2>2. Kept(p, m, a, u) => Kept(p, w, a, u) /\ ~Kills(p, c, a, u)
    BY <1>1, <1>3, <2>1 DEF Kept
  <2>3. Kept(p, w, a, u) /\ ~Kills(p, c, a, u) => Kept(p, m, a, u)
    BY <1>1, <1>2 DEF Kept
  <2> QED
    BY <2>2, <2>3
<1>5. ASSUME Brings(p, m, a, u), ~Brings(p, w, a, u)
      PROVE  Gives(c, a, u) /\ Kept(p, w, a, u)
  <2>1. PICK k \in 1 .. Len(m) :
          /\ Gives(m[k], a, u)
          /\ \A i \in (k + 1) .. Len(m) : ~Kills(p, m[i], a, u)
    BY <1>5 DEF Brings
  <2>2. CASE k = 1
    <3>1. \A i \in 1 .. Len(w) : i + 1 \in (k + 1) .. Len(m)
      BY <1>1, <2>2
    <3> QED
      BY <1>1, <2>1, <2>2, <3>1 DEF Kept
  <2>3. CASE k # 1
    <3>1. k - 1 \in 1 .. Len(w) /\ Gives(w[k - 1], a, u)
      BY <1>2, <2>1, <2>3
    <3>2. \A i \in ((k - 1) + 1) .. Len(w) :
            i + 1 \in (k + 1) .. Len(m) /\ i \in 1 .. Len(w)
      BY <1>1, <2>3
    <3>3. \A i \in ((k - 1) + 1) .. Len(w) : ~Kills(p, w[i], a, u)
      BY <1>1, <2>1, <3>2
    <3> QED
      BY <1>5, <3>1, <3>3 DEF Brings
  <2> QED
    BY <2>2, <2>3
<1>6. ASSUME Gives(c, a, u), Kept(p, w, a, u)
      PROVE  Brings(p, m, a, u)
  <2>1. 1 \in 1 .. Len(m) /\ Gives(m[1], a, u)
    BY <1>1, <1>6
  <2>2. \A i \in (1 + 1) .. Len(m) : i \in 1 .. Len(m) /\ i # 1
    BY <1>1
  <2>3. \A i \in (1 + 1) .. Len(m) : ~Kills(p, m[i], a, u)
    BY <1>2, <1>6, <2>2 DEF Kept
  <2> QED
    BY <2>1, <2>3 DEF Brings
<1>7. ASSUME Brings(p, w, a, u)
      PROVE  Brings(p, m, a, u)
  <2>1. PICK k \in 1 .. Len(w) :
          /\ Gives(w[k], a, u)
          /\ \A i \in (k + 1) .. Len(w) : ~Kills(p, w[i], a, u)
    BY <1>7 DEF Brings
  <2>2. k + 1 \in 1 .. Len(m) /\ Gives(m[k + 1], a, u)
    BY <1>1, <1>3, <2>1
  <2>3. \A i \in ((k + 1) + 1) .. Len(m) :
          i \in 1 .. Len(m) /\ i # 1 /\ i - 1 \in (k + 1) .. Len(w)
    BY <1>1
  <2>4. \A i \in ((k + 1) + 1) .. Len(m) : ~Kills(p, m[i], a, u)
    BY <1>2, <2>1, <2>3
  <2> QED
    BY <2>2, <2>4 DEF Brings
<1> QED
  BY <1>4, <1>5, <1>6, <1>7 DEF w, c

LEMMA GivesOrKills ==
  ASSUME NEW p, NEW c, NEW d, NEW a, NEW u
  PROVE  /\ ~(Gives(c, a, u) /\ Kills(p, c, a, u))
         /\ Gives(c, a, u) /\ Touch(p, d, a, u) =>
              Share(p, c, d) /\ Share(p, d, c)
BY DEF Gives, Kills, Touch, Share

\* A queue that touches the row has a copy that does.
LEMMA QueueTouches ==
  ASSUME NEW p, NEW M, NEW q \in Site, NEW r \in Site, NEW a, NEW u
  PROVE  /\ ~Kept(p, M[q][r], a, u) =>
              \E c \in From(M[q]) : Kills(p, c, a, u)
         /\ Brings(p, M[q][r], a, u) =>
              \E c \in From(M[q]) : Gives(c, a, u)
BY FromIs DEF Kept, Brings

\* What is alike is of no different effect.
Alike(c, d) == c.kind = d.kind /\ c.s = d.s /\ c.apn = d.apn

LEMMA AlikeSame ==
  ASSUME NEW p, NEW c, NEW d, Alike(c, d)
  PROVE  /\ Proper(p, c) = Proper(p, d)
         /\ \A e : Share(p, c, e) = Share(p, d, e)
         /\ \A e : Share(p, e, c) = Share(p, e, d)
         /\ \A a, u : /\ Kills(p, c, a, u) = Kills(p, d, a, u)
                      /\ Gives(c, a, u) = Gives(d, a, u)
                      /\ Touch(p, c, a, u) = Touch(p, d, a, u)
BY DEF Alike, Proper, Share, Kills, Gives, Touch

\* As long as nothing has gone wrong.
Synced ==
  /\ TypeInv /\ RowsInv /\ SyncInv
  /\ cause = {} /\ cause' = {}

LEMMA SyncedParts ==
  ASSUME Synced
  PROVE  /\ TypeInv /\ RowsInv /\ Sound /\ Sound' /\ NoDuplicates
         /\ "overlap" \notin cause
         /\ ListedOK(pdn)
         /\ CalmOK(pdn, current, job, mail)
         /\ HeadOK(job, mail)
         /\ SourceOK(pdn, job, mail)
         /\ AppliedOK(rows, job, mail)
         /\ GoneOK(current, job)
         /\ FollowOK(pdn, current, rows, job, mail)
         /\ SentOK(pdn, rows, job, mail)
         /\ Len(pdn) \in Nat
BY DEF Synced, SyncInv, RowsInv, StageInv, Sound, TypeInv, TypeOK

LEMMA AtWorkParts ==
  ASSUME Synced, NEW t \in Thread, AtWork(job[t])
  PROVE  LET h == SiteOf[t]
             j == job[t]
             M == Mine(rows[h], j)
             D == Dups(pdn, rows[h], j)
         IN  /\ h \in Site /\ JobOK(t, j, Len(pdn)) /\ j \in Job
             /\ Proper(pdn, j) /\ Own(M, D, j) /\ Stage(M, D, j)
             /\ RowApn(j.apn) = j.apn /\ Apns(j) = {j.apn}
             /\ j.s \in 1 .. Len(pdn)
             /\ \A s : Has(rows[h], j.apn, s) <=> \E x \in M : x.s = s
<1>1. /\ SiteOf[t] \in Site /\ JobOK(t, job[t], Len(pdn)) /\ job[t] \in Job
      /\ Proper(pdn, job[t])
  BY SyncedParts, Typed DEF CalmOK
<1>2. /\ RowApn(job[t].apn) = job[t].apn /\ Apns(job[t]) = {job[t].apn}
  BY <1>1 DEF Proper, RowApn, Apns
<1>3. job[t].s \in 1 .. Len(pdn)
  BY <1>1 DEF Proper, JobOK
<1>4. \A s : Has(rows[SiteOf[t]], job[t].apn, s) <=>
               \E x \in Mine(rows[SiteOf[t]], job[t]) : x.s = s
  BY <1>2 DEF Has, Mine
<1> QED
  BY <1>1, <1>2, <1>3, <1>4, SyncedParts DEF RowsInv, OwnInv, StageInv

\* The steps that work on the rows.
RowStep(t) == \/ Scan(t) \/ Prune(t) \/ Find(t) \/ UpdateRow(t) \/ Undo(t)
              \/ Read(t) \/ Create(t) \/ Reread(t) \/ Delete(t)

LEMMA RowStepGoes ==
  ASSUME Synced, NEW t \in Thread, RowStep(t)
  PROVE  /\ AtWork(job[t]) /\ AtWork(job'[t]) /\ Alike(job[t], job'[t])
         /\ job'[t].from = job[t].from
         /\ job[t].at \notin {"check", "accept"}
         /\ job'[t].at \notin {"check", "accept"}
         /\ UNCHANGED <<pdn, current, mail>> /\ Others(t)
         /\ \A u \in Thread \ {t} : job'[u] = job[u]
         /\ Store(t)
<1>1. Store(t)
  BY DEF Store, RowStep
<1>2. /\ AtWork(job[t]) /\ Others(t)
      /\ \A u \in Thread \ {t} : job'[u] = job[u]
      /\ AtWork(job'[t]) => Moves(job[t], job'[t])
  BY <1>1, SyncedParts, StoreMoves, RowsTyped
<1>3. UNCHANGED <<pdn, current, mail>> /\ job[t].at \notin {"check", "accept"}
  BY DEF RowStep, Scan, Prune, Find, UpdateRow, Undo, Read, Create, Reread,
         Delete, Reads, Writes
<1>4. AtWork(job'[t]) /\ job'[t].at \notin {"check", "accept"}
  <2>1. CASE Scan(t) \/ Prune(t)
    BY <2>1, SyncedParts, ScanMoves, PruneMoves DEF AtWork
  <2>2. CASE Find(t)
    <3>1. job'[t].at \in {"create", "update", "copy", "delete"}
      BY <2>2, SyncedParts, FindFinds
    <3> QED
      BY <3>1 DEF AtWork
  <2>3. CASE UpdateRow(t) \/ Undo(t) \/ Read(t) \/ Create(t) \/ Delete(t)
    <3>1. \E at \in {"read", "create", "copy", "reread"} : Goes(t, at)
      BY <2>3 DEF UpdateRow, Undo, Read, Create, Delete
    <3> QED
      BY <3>1, SyncedParts, GoesMoves DEF AtWork
  <2>4. CASE Reread(t)
    <3>1. Mine(rows[SiteOf[t]], job[t]) # {}
      BY <1>2, <2>4, AtWorkParts DEF Stage, Reread
    <3>2. Goes(t, "copy")
      BY <2>4, <3>1, SyncedParts, MineApn DEF Reread
    <3> QED
      BY <3>2, SyncedParts, GoesMoves DEF AtWork
  <2> QED
    BY <2>1, <2>2, <2>3, <2>4 DEF RowStep
<1>5. Alike(job[t], job'[t]) /\ job'[t].from = job[t].from
  BY <1>2, <1>4, AtWorkParts DEF Alike, Moves, Proper
<1> QED
  BY <1>1, <1>2, <1>3, <1>4, <1>5

\* A handler gives and takes no rows but those it is to.
LEMMA Effects ==
  ASSUME Synced, NEW t \in Thread, RowStep(t), NEW a, NEW u
  PROVE  LET h == SiteOf[t]
         IN  /\ ~Touch(pdn, job[t], a, u) =>
                  (Has(rows'[h], a, u) <=> Has(rows[h], a, u))
             /\ ~Gives(job[t], a, u) =>
                  (Has(rows'[h], a, u) => Has(rows[h], a, u))
<1> DEFINE h == SiteOf[t]
           j == job[t]
<1>1. /\ AtWork(j) /\ Store(t) /\ Apns(j) = {j.apn} /\ Proper(pdn, j)
      /\ JobOK(t, j, Len(pdn))
  BY RowStepGoes, AtWorkParts
<1>2. Touches(pdn, rows[h], rows'[h], j)
  BY <1>1, SyncedParts, StoreTouches
<1>3. CASE j.kind = "set"
  <2>1. \A x \in rows[h] \ rows'[h] : Touch(pdn, j, x.apn, x.s)
    BY <1>1, <1>2, <1>3 DEF Touches, Touch, Kills, Gives
  <2>2. \A x \in rows'[h] \ rows[h] : Gives(j, x.apn, x.s)
    BY <1>1, <1>2, <1>3 DEF Touches, Gives
  <2> QED
    BY <2>1, <2>2 DEF Has, Touch
<1>4. CASE j.kind # "set"
  <2>1. j.kind = "clear"
    BY <1>1, <1>4 DEF Proper
  <2>2. CASE UNCHANGED rows
    BY <2>2
  <2>3. CASE Delete(t)
    <3>1. rows'[h] = {x \in rows[h] : x.id # j.row}
      BY <2>3, SyncedParts, WithoutRow DEF Delete
    <3>2. \E y \in Mine(rows[h], j) : y.id = j.row /\ y.s = j.s
      BY <1>1, <2>1, <2>3, AtWorkParts DEF Own, Delete
    <3>3. \A x \in rows[h] : x.id = j.row => x.s = j.s /\ x.apn = j.apn
      <4>1. PICK y \in Mine(rows[h], j) : y.id = j.row /\ y.s = j.s
        BY <3>2
      <4>2. y \in rows[h] /\ y.apn = j.apn
        BY <1>1, AtWorkParts DEF Mine
      <4>3. \A x \in rows[h] : x.id = y.id => x = y
        BY <4>2, SyncedParts, Typed DEF RowsOK
      <4> QED
        BY <4>1, <4>2, <4>3
    <3>4. \A x \in rows[h] \ rows'[h] : Kills(pdn, j, x.apn, x.s)
      BY <2>1, <3>1, <3>3 DEF Kills
    <3>5. rows'[h] \subseteq rows[h]
      BY <3>1
    <3> QED
      BY <3>4, <3>5 DEF Has, Touch
  <2>4. j.at \notin {"prune", "update", "undo", "create"}
    BY <1>1, <1>4 DEF JobOK, Sets
  <2> QED
    BY <2>2, <2>3, <2>4
       DEF RowStep, Scan, Prune, Find, UpdateRow, Undo, Read, Create, Reread,
           Reads
<1> QED
  BY <1>3, <1>4

\* So what a site will have of a row is as it was, if the handler does not
\* touch it; and if it has it from the head of a queue, in any case.
LEMMA RowStepWill ==
  ASSUME Synced, NEW t \in Thread, RowStep(t), NEW a, NEW u, NEW r \in Site
  PROVE  /\ ~Touch(pdn, job[t], a, u) \/ job[t].from # None =>
              (Will(pdn, rows', mail, r, a, u)
                 <=> Will(pdn, rows, mail, r, a, u))
         /\ ~Gives(job[t], a, u) =>
              (Will(pdn, rows', mail, r, a, u)
                 => Will(pdn, rows, mail, r, a, u))
<1> DEFINE h == SiteOf[t]
           j == job[t]
<1>1. /\ ~Touch(pdn, j, a, u) =>
           (Has(rows'[h], a, u) <=> Has(rows[h], a, u))
      /\ ~Gives(j, a, u) => (Has(rows'[h], a, u) => Has(rows[h], a, u))
  BY Effects
<1>2. r # h => rows'[r] = rows[r]
  BY RowStepGoes DEF Others
<1>3. CASE ~Touch(pdn, j, a, u) \/ r # h
  BY <1>1, <1>2, <1>3 DEF Will
<1>4. ~Gives(j, a, u) =>
        (Will(pdn, rows', mail, r, a, u) => Will(pdn, rows, mail, r, a, u))
  BY <1>1, <1>2 DEF Will
<1>5. CASE r = h /\ j.from # None
  <2> DEFINE m == mail[j.from][h]
             c == Head(m)
  <2>1. /\ m # << >> /\ m \in Seq(Copy) /\ j.from \in Site /\ h \in Site
    BY <1>5, RowStepGoes, AtWorkParts, SyncedParts
       DEF TypeInv, TypeOK, HandInv, Job
  <2>2. Alike(j, c)
    BY <1>5, RowStepGoes, SyncedParts DEF HeadOK, Alike
  <2>3. /\ Kills(pdn, j, a, u) = Kills(pdn, c, a, u)
        /\ Gives(j, a, u) = Gives(c, a, u)
    BY <2>2, AlikeSame
  <2>4. CASE Kills(pdn, c, a, u)
    <3>1. ~Kept(pdn, m, a, u)
      BY <2>1, <2>4, AtTheHead
    <3> QED
      BY <1>5, <2>1, <3>1 DEF Will
  <2>5. CASE Gives(c, a, u)
    <3>1. Kept(pdn, m, a, u) => Brings(pdn, m, a, u)
      BY <2>1, <2>5, AtTheHead
    <3> QED
      BY <1>5, <2>1, <3>1 DEF Will
  <2>6. CASE ~Touch(pdn, j, a, u)
    BY <1>1, <1>5, <2>6 DEF Will
  <2> QED
    BY <1>4, <2>3, <2>4, <2>5, <2>6 DEF Touch
<1> QED
  BY <1>3, <1>4, <1>5

\* Handlers go on with what they are at, or end, and none begins.
GoOn ==
  \A u \in Thread :
    \/ job'[u] = job[u]
    \/ /\ AtWork(job[u]) /\ AtWork(job'[u]) /\ Alike(job[u], job'[u])
       /\ job'[u].from = job[u].from
    \/ ~AtWork(job'[u]) /\ ~LocalJob(job'[u])

LEMMA LocalAtWork ==
  ASSUME TypeInv, NEW t \in Thread, LocalJob(job[t])
  PROVE  AtWork(job[t]) /\ job[t].from = None
BY DEF TypeInv, JobOK, LocalJob, AtWork

LEMMA GoOnWas ==
  ASSUME GoOn, NEW u \in Thread
  PROVE  /\ LocalJob(job'[u]) => LocalJob(job[u]) /\ Alike(job[u], job'[u])
         /\ AtWork(job'[u]) => AtWork(job[u]) /\ Alike(job[u], job'[u])
                               /\ job'[u].from = job[u].from
BY DEF GoOn, LocalJob, AtWork, Alike

LEMMA GoOnSync ==
  ASSUME Synced, GoOn, NEW M,
         \A h \in Site : From(M[h]) \subseteq From(mail[h])
  PROVE  /\ CalmOK(pdn, current, job', M)
         /\ SourceOK(pdn, job', M)
         /\ GoneOK(current, job')
         /\ M = mail => HeadOK(job', M)
<1>1. /\ CalmOK(pdn, current, job, mail) /\ SourceOK(pdn, job, mail)
      /\ GoneOK(current, job) /\ HeadOK(job, mail) /\ TypeInv
  BY SyncedParts
<1>2. CalmOK(pdn, current, job', M)
  <2>1. ASSUME NEW t \in Thread, AtWork(job'[t])
        PROVE  Proper(pdn, job'[t])
    <3>1. AtWork(job[t]) /\ Alike(job[t], job'[t])
      BY <2>1, GoOnWas
    <3> QED
      BY <1>1, <3>1, AlikeSame DEF CalmOK
  <2> QED
    BY <1>1, <2>1 DEF CalmOK
<1>3. SourceOK(pdn, job', M)
  <2>1. ASSUME NEW t \in Thread, NEW u \in Thread, t # u,
               LocalJob(job'[t]), LocalJob(job'[u])
        PROVE  ~Share(pdn, job'[t], job'[u])
    <3>1. /\ LocalJob(job[t]) /\ Alike(job[t], job'[t])
          /\ LocalJob(job[u]) /\ Alike(job[u], job'[u])
      BY <2>1, GoOnWas
    <3>2. ~Share(pdn, job[t], job[u])
      BY <1>1, <2>1, <3>1 DEF SourceOK
    <3> QED
      BY <3>1, <3>2 DEF Share, Alike
  <2>2. ASSUME NEW t \in Thread, NEW h \in Site, LocalJob(job'[t]),
               h # SiteOf[t], NEW c \in From(M[h])
        PROVE  ~Share(pdn, job'[t], c)
    <3>1. LocalJob(job[t]) /\ Alike(job[t], job'[t]) /\ c \in From(mail[h])
      BY <2>2, GoOnWas
    <3>2. ~Share(pdn, job[t], c)
      BY <1>1, <2>2, <3>1 DEF SourceOK
    <3> QED
      BY <3>1, <3>2 DEF Share, Alike
  <2>3. ASSUME NEW h \in Site, NEW k \in Site, h # k,
               NEW c \in From(M[h]), NEW d \in From(M[k])
        PROVE  ~Share(pdn, c, d)
    BY <1>1, <2>3 DEF SourceOK
  <2> QED
    BY <2>1, <2>2, <2>3 DEF SourceOK
<1>4. GoneOK(current, job')
  <2> SUFFICES ASSUME NEW t \in Thread, LocalJob(job'[t]),
                      job'[t].kind = "clear", NEW a \in Listed
               PROVE  current[a] # job'[t].s
    BY DEF GoneOK
  <2>1. LocalJob(job[t]) /\ Alike(job[t], job'[t])
    BY GoOnWas
  <2>2. AtWork(job[t]) /\ job[t].s # None
    BY <1>1, <2>1, LocalAtWork DEF CalmOK, Proper
  <2>3. current[a] # job[t].s
    BY <1>1, <2>1 DEF GoneOK, Alike
  <2> QED
    BY <2>1, <2>2, <2>3 DEF Alike
<1>5. ASSUME M = mail
      PROVE  HeadOK(job', M)
  <2> SUFFICES ASSUME NEW t \in Thread, job'[t].from # None, AtWork(job'[t])
               PROVE  LET c == Head(mail[job'[t].from][SiteOf[t]])
                      IN  /\ job'[t].s = c.s /\ job'[t].apn = c.apn
                          /\ job'[t].kind = c.kind
    BY <1>5 DEF HeadOK
  <2>1. /\ AtWork(job[t]) /\ Alike(job[t], job'[t])
        /\ job'[t].from = job[t].from
    BY GoOnWas
  <2> QED
    BY <1>1, <2>1 DEF HeadOK, Alike
<1> QED
  BY <1>2, <1>3, <1>4, <1>5

\* Where a thread answers, no other is at work on what the copy is about.
LEMMA AnswerAlone ==
  ASSUME Synced, NEW v \in Thread, job[v].at = "respond",
         NEW t \in Thread, AtWork(job[t]), SiteOf[t] = SiteOf[v]
  PROVE  LET c == Head(mail[job[v].from][SiteOf[v]])
         IN  ~Touch(pdn, job[t], c.apn, c.s)
<1> DEFINE g == SiteOf[v]
           q == job[v].from
           c == Head(mail[q][g])
<1>1. /\ SourceOK(pdn, job, mail) /\ HeadOK(job, mail) /\ TypeInv
      /\ g \in Site /\ q \in Site /\ q # g /\ mail[q][g] # << >> /\ q # None
  BY SyncedParts, Typed, ServingAssumption DEF JobOK, Job, TypeInv, HandInv
<1>2. ASSUME NEW h \in Site, mail[h][g] # << >>
      PROVE  Head(mail[h][g]) \in From(mail[h])
  <2>1. mail[h][g] \in Seq(Copy)
    BY <1>1 DEF TypeInv, TypeOK
  <2>2. Head(mail[h][g]) = mail[h][g][1] /\ 1 \in 1 .. Len(mail[h][g])
    BY <1>2, <2>1, HeadTailProperties, EmptySeq
  <2> QED
    BY <1>1, <2>2, FromIs
<1>3. c \in From(mail[q])
  BY <1>1, <1>2
<1>4. SUFFICES ASSUME Touch(pdn, job[t], c.apn, c.s)
               PROVE  FALSE
  OBVIOUS
<1>5. Share(pdn, job[t], c)
  BY <1>4 DEF Touch, Kills, Gives, Share
<1>6. t # v
  BY DEF AtWork
<1>7. CASE job[t].from = None
  <2>1. LocalJob(job[t])
    BY <1>7 DEF LocalJob, AtWork
  <2> QED
    BY <1>1, <1>3, <1>5, <2>1 DEF SourceOK
<1>8. CASE job[t].from # None
  <2> DEFINE k == job[t].from
             d == Head(mail[k][g])
  <2>1. k \in Site /\ k # q /\ mail[k][g] # << >>
    BY <1>1, <1>6, <1>8, Typed DEF Job, TypeInv, HandInv
  <2>2. d \in From(mail[k])
    BY <1>2, <2>1
  <2>3. Alike(job[t], d)
    BY <1>1, <1>8 DEF HeadOK, Alike
  <2>4. Share(pdn, d, c)
    BY <1>5, <2>3 DEF Share, Alike
  <2> QED
    BY <1>1, <1>3, <2>1, <2>2, <2>4 DEF SourceOK
<1> QED
  BY <1>7, <1>8

LEMMA RowStepSync ==
  ASSUME Synced, NEW t \in Thread, RowStep(t)
  PROVE  SyncInv'
<1>1. /\ AtWork(job[t]) /\ AtWork(job'[t]) /\ Alike(job[t], job'[t])
      /\ job'[t].from = job[t].from
      /\ job[t].at \notin {"check", "accept"}
      /\ job'[t].at \notin {"check", "accept"}
      /\ UNCHANGED <<pdn, current, mail>> /\ Others(t)
      /\ \A u \in Thread \ {t} : job'[u] = job[u]
  BY RowStepGoes
<1>2. /\ CalmOK(pdn, current, job', mail) /\ SourceOK(pdn, job', mail)
      /\ GoneOK(current, job') /\ HeadOK(job', mail) /\ ListedOK(pdn)
  <2>1. GoOn
    BY <1>1 DEF GoOn
  <2> QED
    BY <1>1, <2>1, GoOnSync, SyncedParts
<1>3. AppliedOK(rows', job', mail)
  <2> SUFFICES ASSUME NEW v \in Thread, job'[v].at = "respond"
               PROVE  LET c == Head(mail[job'[v].from][SiteOf[v]])
                      IN  c.kind = "set" <=>
                            Has(rows'[SiteOf[v]], c.apn, c.s)
    BY DEF AppliedOK
  <2>1. v # t /\ job'[v] = job[v] /\ job[v].at = "respond"
    BY <1>1 DEF AtWork
  <2> DEFINE c == Head(mail[job[v].from][SiteOf[v]])
  <2>2. c.kind = "set" <=> Has(rows[SiteOf[v]], c.apn, c.s)
    BY <2>1, SyncedParts DEF AppliedOK
  <2>3. Has(rows'[SiteOf[v]], c.apn, c.s) <=> Has(rows[SiteOf[v]], c.apn, c.s)
    <3>1. CASE SiteOf[v] = SiteOf[t]
      <4>1. ~Touch(pdn, job[t], c.apn, c.s)
        BY <1>1, <2>1, <3>1, AnswerAlone
      <4> HIDE DEF c
      <4> QED
        BY <3>1, <4>1, Effects
    <3>2. CASE SiteOf[v] # SiteOf[t]
      BY <1>1, <3>2, ServingAssumption DEF Others
    <3> QED
      BY <3>1, <3>2
  <2> QED
    BY <2>1, <2>2, <2>3
<1>4. FollowOK(pdn, current, rows', job', mail)
  <2> SUFFICES ASSUME NEW a \in Listed, NEW u \in 1 .. Len(pdn),
                      ~Touched(pdn, job', a, u)
               PROVE  /\ \A r, q \in Site : Will(pdn, rows', mail, r, a, u)
                                     => Will(pdn, rows', mail, q, a, u)
                      /\ \A r \in Site : current[a] = u =>
                           Will(pdn, rows', mail, r, a, u)
                      /\ \A r \in Site :
                           /\ Will(pdn, rows', mail, r, a, u)
                           /\ current[a] # u
                           => Going(pdn, job', a, u)
    BY DEF FollowOK
  <2>1. \A v \in Thread :
          /\ SureJob(job'[v]) = SureJob(job[v])
          /\ Touch(pdn, job'[v], a, u) = Touch(pdn, job[v], a, u)
    <3>1. Touch(pdn, job'[t], a, u) = Touch(pdn, job[t], a, u)
      BY <1>1 DEF Alike, Touch, Kills, Gives
    <3> QED
      BY <1>1, <3>1 DEF SureJob, LocalJob, AtWork
  <2>2. ~Touched(pdn, job, a, u)
    BY <2>1 DEF Touched
  <2>3. ~Touch(pdn, job[t], a, u) \/ job[t].from # None
    BY <1>1, <2>2 DEF Touched, SureJob, LocalJob, AtWork
  <2>4. \A r \in Site : Will(pdn, rows', mail, r, a, u)
                          <=> Will(pdn, rows, mail, r, a, u)
    BY <2>3, RowStepWill
  <2>5. Going(pdn, job, a, u) => Going(pdn, job', a, u)
    BY <1>1 DEF Going
  <2> QED
    BY <2>2, <2>4, <2>5, SyncedParts DEF FollowOK
<1>5. SentOK(pdn, rows', job', mail)
  <2> SUFFICES ASSUME NEW v \in Thread, job'[v].at = "accept",
                      NEW r \in Site, NEW a \in Listed,
                      NEW u \in 1 .. Len(pdn)
               PROVE  /\ Gives(job'[v], a, u) =>
                           Will(pdn, rows', mail, r, a, u)
                      /\ Kills(pdn, job'[v], a, u) =>
                           ~Will(pdn, rows', mail, r, a, u)
    BY DEF SentOK
  <2>1. v # t /\ job'[v] = job[v] /\ job[v].at = "accept" /\ LocalJob(job[v])
    BY <1>1, SyncedParts, Typed DEF JobOK, LocalJob
  <2>2. /\ Gives(job[v], a, u) => Will(pdn, rows, mail, r, a, u)
        /\ Kills(pdn, job[v], a, u) => ~Will(pdn, rows, mail, r, a, u)
    BY <2>1, SyncedParts DEF SentOK
  <2>3. job[t].from = None => ~Share(pdn, job[v], job[t])
                              /\ ~Share(pdn, job[t], job[v])
    BY <1>1, <2>1, SyncedParts DEF SourceOK, LocalJob, AtWork
  <2>4. Gives(job[v], a, u) =>
          (Will(pdn, rows', mail, r, a, u) <=> Will(pdn, rows, mail, r, a, u))
    BY <2>3, GivesOrKills, RowStepWill
  <2>5. Kills(pdn, job[v], a, u) =>
          (Will(pdn, rows', mail, r, a, u) => Will(pdn, rows, mail, r, a, u))
    BY <2>3, GivesOrKills, RowStepWill DEF Touch
  <2> QED
    BY <2>1, <2>2, <2>4, <2>5
<1> QED
  BY <1>1, <1>2, <1>3, <1>4, <1>5 DEF SyncInv

\* A copy is answered, or is to be sent once more.
LEMMA PopWill ==
  ASSUME Synced, NEW t \in Thread, job[t].at = "respond",
         NEW a, NEW u, NEW r \in Site, Pop(job[t].from, SiteOf[t])
  PROVE  Will(pdn, rows, mail', r, a, u) <=> Will(pdn, rows, mail, r, a, u)
<1> DEFINE g == SiteOf[t]
           q == job[t].from
           m == mail[q][g]
           c == Head(m)
<1>1. /\ SourceOK(pdn, job, mail) /\ AppliedOK(rows, job, mail) /\ TypeInv
      /\ CalmOK(pdn, current, job, mail)
      /\ \A x, y \in rows[g] :
           x.apn = y.apn \/ pdn[x.s].ip = pdn[y.s].ip => x = y
      /\ g \in Site /\ q \in Site /\ q # g /\ m # << >> /\ m \in Seq(Copy)
  <2>1. g \in Site /\ q # None /\ q # g
    BY SyncedParts, Typed DEF JobOK
  <2>2. q \in Site /\ m # << >>
    BY <2>1, SyncedParts, Typed DEF Job, TypeInv, HandInv
  <2>3. m \in Seq(Copy)
    BY <2>1, <2>2, SyncedParts DEF TypeInv, TypeOK
  <2>4. \A x, y \in rows[g] :
          x.apn = y.apn \/ pdn[x.s].ip = pdn[y.s].ip => x = y
    BY <2>1, SyncedParts DEF NoDuplicates, Sound
  <2> QED
    BY <2>1, <2>2, <2>3, <2>4, SyncedParts
<1>2. /\ mail'[q][g] = Tail(m)
      /\ \A k, l \in Site : <<k, l>> # <<q, g>> => mail'[k][l] = mail[k][l]
  <2>1. mail' = [mail EXCEPT ![q][g] = Tail(m)]
    BY DEF Pop
  <2> QED
    BY <1>1, <2>1 DEF TypeInv, TypeOK
<1>3. c \in From(mail[q]) /\ Proper(pdn, c)
  <2>1. c = m[1] /\ 1 \in 1 .. Len(m)
    BY <1>1, HeadTailProperties, EmptySeq
  <2>2. c \in From(mail[q])
    BY <1>1, <2>1, FromIs
  <2> QED
    BY <1>1, <2>2 DEF CalmOK
<1>4. c.kind = "set" <=> Has(rows[g], c.apn, c.s)
  BY <1>1 DEF AppliedOK
<1> HIDE DEF c
<1>5. CASE r # g
  BY <1>1, <1>2, <1>5 DEF Will
<1>6. CASE r = g
  <2>1. /\ Kept(pdn, m, a, u) <=>
             Kept(pdn, Tail(m), a, u) /\ ~Kills(pdn, c, a, u)
        /\ Brings(pdn, m, a, u) <=>
             \/ Brings(pdn, Tail(m), a, u)
             \/ Gives(c, a, u) /\ Kept(pdn, Tail(m), a, u)
    BY <1>1, AtTheHead DEF c
  <2>2. \A k \in Site \ {q} : mail'[k][g] = mail[k][g]
    BY <1>1, <1>2
  <2>3. CASE Kills(pdn, c, a, u)
    <3>1. ~Has(rows[g], a, u)
      <4> SUFFICES ASSUME Has(rows[g], a, u)
                   PROVE  FALSE
        OBVIOUS
      <4>1. PICK x \in rows[g] : x.apn = a /\ x.s = u
        BY DEF Has
      <4>2. CASE c.kind = "set"
        <5>1. PICK y \in rows[g] : y.apn = c.apn /\ y.s = c.s
          BY <1>4, <4>2 DEF Has
        <5>2. x # y /\ (x.apn = y.apn \/ pdn[x.s].ip = pdn[y.s].ip)
          BY <2>3, <4>1, <4>2, <5>1 DEF Kills
        <5> QED
          BY <1>1, <5>2
      <4>3. CASE c.kind # "set"
        BY <1>4, <2>3, <4>1, <4>3 DEF Kills, Has
      <4> QED
        BY <4>2, <4>3
    <3>2. ~Gives(c, a, u)
      BY <2>3, GivesOrKills
    <3> QED
      BY <1>1, <1>2, <1>6, <2>1, <2>2, <3>1, <3>2 DEF Will
  <2>4. CASE Gives(c, a, u)
    <3>1. Has(rows[g], a, u)
      BY <1>4, <2>4 DEF Gives
    <3>2. \A k \in Site \ {q} : Kept(pdn, mail[k][g], a, u)
      <4> SUFFICES ASSUME NEW k \in Site \ {q}, ~Kept(pdn, mail[k][g], a, u)
                   PROVE  FALSE
        OBVIOUS
      <4>1. PICK d \in From(mail[k]) : Kills(pdn, d, a, u)
        BY <1>1, QueueTouches
      <4>2. Share(pdn, c, d)
        BY <2>4, <4>1, GivesOrKills DEF Touch
      <4> QED
        BY <1>1, <1>3, <4>1, <4>2 DEF SourceOK
    <3>3. ~Kills(pdn, c, a, u)
      BY <2>4, GivesOrKills
    <3> QED
      BY <1>1, <1>2, <1>6, <2>1, <2>2, <2>4, <3>1, <3>2, <3>3 DEF Will
  <2>5. CASE ~Kills(pdn, c, a, u) /\ ~Gives(c, a, u)
    BY <1>1, <1>2, <1>6, <2>1, <2>2, <2>5 DEF Will
  <2> QED
    BY <2>3, <2>4, <2>5
<1> QED
  BY <1>5, <1>6

\* The handlers that are sure, and what they touch, stay the same, and the
\* rows that sites will have.
LEMMA NoChange ==
  ASSUME Synced, NEW t \in Thread,
         job'[t].from # None \/ job'[t].at = "idle",
         job[t].from # None \/ job[t].at = "idle",
         \A v \in Thread \ {t} : job'[v] = job[v],
         job'[t].at # "accept", UNCHANGED <<pdn, current>>,
         \A r \in Site, a \in Listed, u \in 1 .. Len(pdn) :
           Will(pdn, rows', mail', r, a, u) <=> Will(pdn, rows, mail, r, a, u)
  PROVE  /\ FollowOK(pdn, current, rows', job', mail')
         /\ SentOK(pdn, rows', job', mail')
<1>1. ~LocalJob(job[t]) /\ ~LocalJob(job'[t])
  BY DEF LocalJob
<1>2. ASSUME NEW a \in Listed, NEW u \in 1 .. Len(pdn)
      PROVE  /\ Touched(pdn, job', a, u) <=> Touched(pdn, job, a, u)
             /\ Going(pdn, job', a, u) <=> Going(pdn, job, a, u)
  BY <1>1 DEF Touched, Going, SureJob
<1>3. FollowOK(pdn, current, rows, job, mail) /\ SentOK(pdn, rows, job, mail)
  BY SyncedParts
<1>4. FollowOK(pdn, current, rows', job', mail')
  BY <1>2, <1>3 DEF FollowOK
<1>5. SentOK(pdn, rows', job', mail')
  BY <1>3 DEF SentOK
<1> QED
  BY <1>4, <1>5

LEMMA RespondSync ==
  ASSUME Synced, NEW t \in Api, Respond(t)
  PROVE  SyncInv'
<1>1. /\ t \in Thread /\ job[t].at = "respond" /\ job[t].from # None
      /\ job' = [job EXCEPT ![t] = Idle] /\ Idle.at = "idle"
      /\ Idle.from = None
      /\ Pop(job[t].from, SiteOf[t]) \/ UNCHANGED mail
      /\ UNCHANGED <<pdn, current, rows>>
  BY SyncedParts, Typed DEF Thread, Respond, JobOK, Idle, Handler
<1> DEFINE g == SiteOf[t]
           q == job[t].from
<1>2. /\ job'[t] = Idle /\ \A v \in Thread \ {t} : job'[v] = job[v]
      /\ g \in Site /\ q \in Site
  BY <1>1, SyncedParts, Typed DEF TypeInv, TypeOK, Job
<1>3. /\ mail[q][g] # << >> /\ mail[q][g] \in Seq(Copy)
      /\ \A v \in Thread \ {t} : job[v].from # None =>
           /\ job[v].from \in Site /\ SiteOf[v] \in Site
           /\ <<job[v].from, SiteOf[v]>> # <<q, g>>
  <2>1. \A v \in Thread : job[v].from # None =>
          job[v].from \in Site /\ SiteOf[v] \in Site
    BY SyncedParts, Typed DEF Job
  <2>2. \A v \in Thread \ {t} : job[v].from # None =>
          <<job[v].from, SiteOf[v]>> # <<q, g>>
    BY <1>1, SyncedParts DEF TypeInv, HandInv
  <2>3. mail[q][g] # << >>
    BY <1>1, SyncedParts DEF TypeInv, HandInv
  <2>4. mail[q][g] \in Seq(Copy)
    BY <1>2, SyncedParts DEF TypeInv, TypeOK
  <2> QED
    BY <2>1, <2>2, <2>3, <2>4
<1>4. \A k, l \in Site : \/ mail'[k][l] = mail[k][l]
                         \/ /\ <<k, l>> = <<q, g>>
                            /\ mail'[k][l] = Tail(mail[k][l])
  <2>1. CASE Pop(q, g)
    BY <1>2, <1>3, <2>1, SyncedParts, PopTypes, <1>1
  <2> QED
    BY <1>1, <2>1
<1>5. \A v \in Thread \ {t} : job[v].from # None =>
        mail'[job[v].from][SiteOf[v]] = mail[job[v].from][SiteOf[v]]
  BY <1>3, <1>4
<1>6. \A h \in Site : From(mail'[h]) \subseteq From(mail[h])
  <2> SUFFICES ASSUME NEW h \in Site, NEW c \in From(mail'[h])
               PROVE  c \in From(mail[h])
    OBVIOUS
  <2>1. PICK k \in Site : \E i \in 1 .. Len(mail'[h][k]) : c = mail'[h][k][i]
    BY FromIs
  <2>2. CASE mail'[h][k] = mail[h][k]
    BY <2>1, <2>2, FromIs
  <2>3. CASE h = q /\ k = g /\ mail'[h][k] = Tail(mail[h][k])
    <3>1. PICK i \in 1 .. Len(Tail(mail[q][g])) : c = Tail(mail[q][g])[i]
      BY <2>1, <2>3
    <3>2. i + 1 \in 1 .. Len(mail[q][g]) /\ c = mail[q][g][i + 1]
      BY <1>3, <3>1, HeadTailProperties, EmptySeq
    <3> QED
      BY <2>3, <3>2, FromIs
  <2> QED
    BY <1>4, <2>2, <2>3
<1>7. GoOn
  BY <1>1, <1>2 DEF GoOn, AtWork, LocalJob
<1>8. /\ CalmOK(pdn, current', job', mail') /\ SourceOK(pdn, job', mail')
      /\ GoneOK(current', job')
  BY <1>1, <1>6, <1>7, GoOnSync
<1>9. HeadOK(job', mail') /\ AppliedOK(rows, job', mail')
  <2>1. \A v \in Thread : job'[v].from # None \/ job'[v].at = "respond" =>
          /\ v # t /\ job'[v] = job[v] /\ job[v].from # None
    BY <1>1, <1>2, SyncedParts, Typed DEF JobOK
  <2>2. \A v \in Thread : job'[v].from # None \/ job'[v].at = "respond" =>
          Head(mail'[job'[v].from][SiteOf[v]])
            = Head(mail[job[v].from][SiteOf[v]])
    BY <1>5, <2>1
  <2>3. HeadOK(job', mail')
    BY <2>1, <2>2, SyncedParts DEF HeadOK
  <2>4. AppliedOK(rows, job', mail')
    BY <2>1, <2>2, SyncedParts DEF AppliedOK
  <2> QED
    BY <2>3, <2>4
<1>10. \A r \in Site, a \in Listed, u \in 1 .. Len(pdn) :
         Will(pdn, rows', mail', r, a, u) <=> Will(pdn, rows, mail, r, a, u)
  BY <1>1, PopWill
<1>11. /\ FollowOK(pdn, current, rows', job', mail')
       /\ SentOK(pdn, rows', job', mail')
  BY <1>1, <1>2, <1>10, NoChange
<1> QED
  BY <1>1, <1>8, <1>9, <1>11, SyncedParts DEF SyncInv

\* A copy is taken up.
LEMMA DeliverSync ==
  ASSUME Synced, NEW t \in Api, NEW h \in Site, Deliver(t, h)
  PROVE  SyncInv'
<1> DEFINE g == SiteOf[t]
           c == Head(mail[h][g])
           j == Received(c, h)
<1>1. /\ t \in Thread /\ ~Busy(t) /\ job' = [job EXCEPT ![t] = j]
      /\ mail[h][g] # << >> /\ g \in Site /\ h # None
      /\ UNCHANGED <<pdn, current, rows, mail>>
  BY ServingAssumption DEF Thread, Deliver, Begin
<1>2. /\ job'[t] = j /\ \A v \in Thread \ {t} : job'[v] = job[v]
      /\ job[t].at = "idle"
  BY <1>1, SyncedParts DEF TypeInv, TypeOK, Busy
<1>3. c \in From(mail[h]) /\ Proper(pdn, c)
  <2>1. mail[h][g] \in Seq(Copy)
    BY <1>1, SyncedParts DEF TypeInv, TypeOK
  <2>2. c = mail[h][g][1] /\ 1 \in 1 .. Len(mail[h][g])
    BY <1>1, <2>1, HeadTailProperties, EmptySeq
  <2>3. c \in From(mail[h])
    BY <1>1, <2>2, FromIs
  <2> QED
    BY <2>3, SyncedParts DEF CalmOK
<1> HIDE DEF c
<1>4. Alike(j, c) /\ j.from = h /\ j.at \in {"scan", "check"}
  BY <1>3 DEF Received, Terminate, Handler, Alike, Proper
<1> HIDE DEF j
<1>5. Proper(pdn, j) /\ ~LocalJob(j)
  BY <1>1, <1>3, <1>4, AlikeSame DEF LocalJob
<1>6. CalmOK(pdn, current, job', mail)
  BY <1>2, <1>5, SyncedParts DEF CalmOK
<1>7. SourceOK(pdn, job', mail) /\ GoneOK(current, job')
  <2>1. \A v \in Thread : LocalJob(job'[v]) =>
          v # t /\ job'[v] = job[v] /\ LocalJob(job[v])
    BY <1>2, <1>5
  <2>2. SourceOK(pdn, job', mail)
    BY <2>1, SyncedParts DEF SourceOK
  <2>3. GoneOK(current, job')
    BY <2>1, SyncedParts DEF GoneOK
  <2> QED
    BY <2>2, <2>3
<1>8. HeadOK(job', mail)
  <2> SUFFICES ASSUME NEW v \in Thread, job'[v].from # None, AtWork(job'[v])
               PROVE  LET d == Head(mail[job'[v].from][SiteOf[v]])
                      IN  /\ job'[v].s = d.s /\ job'[v].apn = d.apn
                          /\ job'[v].kind = d.kind
    BY DEF HeadOK
  <2>1. CASE v = t
    BY <1>2, <1>4, <2>1 DEF Alike, c
  <2>2. CASE v # t
    BY <1>2, <2>2, SyncedParts DEF HeadOK
  <2> QED
    BY <2>1, <2>2
<1>9. AppliedOK(rows, job', mail)
  <2>1. \A v \in Thread : job'[v].at = "respond" => job'[v] = job[v]
    BY <1>2, <1>4
  <2> QED
    BY <2>1, SyncedParts DEF AppliedOK
<1>10. /\ FollowOK(pdn, current, rows', job', mail')
       /\ SentOK(pdn, rows', job', mail')
  BY <1>1, <1>2, <1>4, NoChange
<1> QED
  BY <1>1, <1>6, <1>7, <1>8, <1>9, <1>10, SyncedParts DEF SyncInv

\* The look for whose row it is.
LEMMA CheckEndsWhere ==
  ASSUME Synced, NEW t \in Thread, Check(t), ~AtWork(job'[t])
  PROVE  ~Has(rows[SiteOf[t]], job[t].apn, job[t].s)
<1> DEFINE h == SiteOf[t]
           j == job[t]
           M == Mine(rows[h], j)
<1>1. /\ AtWork(j) /\ j.at = "check" /\ h \in Site /\ Proper(pdn, j)
      /\ RowApn(j.apn) = j.apn
      /\ \A s : Has(rows[h], j.apn, s) <=> \E x \in M : x.s = s
  <2>1. AtWork(j) /\ j.at = "check"
    BY DEF Check, AtWork
  <2> QED
    BY <2>1, AtWorkParts
<1>2. ~\E x \in rows[h] : x.id = FirstRow(h, j.apn) /\ x.s = j.s
  <2> SUFFICES ASSUME \E x \in rows[h] : x.id = FirstRow(h, j.apn) /\ x.s = j.s
               PROVE  FALSE
    OBVIOUS
  <2>1. Goes(t, "find")
    BY <1>1 DEF Check, Proper
  <2>2. AtWork(job'[t])
    BY <2>1, SyncedParts, GoesMoves DEF AtWork
  <2> QED
    BY <2>2
<1>3. SUFFICES ASSUME NEW x \in M, x.s = j.s
               PROVE  FALSE
  BY <1>1
<1>4. RowsOf(h, j.apn) = M /\ M \subseteq rows[h]
  BY <1>1, SyncedParts, MineApn DEF Mine
<1>5. PICK y \in M : y.id = FirstRow(h, j.apn)
  BY <1>3, <1>4, SyncedParts, Typed, FirstFound DEF RowsOK
<1>6. x = y
  BY <1>1, <1>4, SyncedParts DEF NoDuplicates, Sound, Mine
<1> QED
  BY <1>2, <1>3, <1>4, <1>5, <1>6

LEMMA CheckSync ==
  ASSUME Synced, NEW t \in Thread, Check(t)
  PROVE  SyncInv'
<1> DEFINE h == SiteOf[t]
           j == job[t]
           k == job'[t]
<1>1. /\ AtWork(j) /\ j.at = "check" /\ h \in Site /\ Proper(pdn, j)
      /\ JobOK(t, j, Len(pdn)) /\ j.kind = "clear"
  <2>1. AtWork(j) /\ j.at = "check"
    BY DEF Check, AtWork
  <2> QED
    BY <2>1, AtWorkParts DEF JobOK
<1>2. /\ UNCHANGED <<pdn, current, rows, mail>>
      /\ \A v \in Thread \ {t} : job'[v] = job[v]
  BY SyncedParts, StoreMoves DEF Check, Reads, Store
<1>3. \/ /\ AtWork(k) /\ k.at = "find" /\ Alike(j, k) /\ k.from = j.from
      \/ /\ ~AtWork(k) /\ k.from = j.from
         /\ k.at = IF j.from = None THEN "idle" ELSE "respond"
  <2>1. CASE AtWork(k)
    BY <2>1, SyncedParts, CheckMine DEF Moves, Alike
  <2>2. CASE ~AtWork(k)
    <3>1. Ends(t)
      <4>1. Goes(t, "find") => AtWork(k)
        BY SyncedParts, GoesMoves DEF AtWork
      <4> QED
        BY <2>2, <4>1 DEF Check
    <3>2. k = Over(j)
      BY <3>1, SyncedParts DEF Ends, TypeInv, TypeOK
    <3> QED
      BY <1>1, <2>2, <3>2, SyncedParts, OverOK
  <2> QED
    BY <2>1, <2>2
<1>4. GoOn
  BY <1>1, <1>2, <1>3 DEF GoOn, LocalJob
<1>5. /\ CalmOK(pdn, current, job', mail) /\ SourceOK(pdn, job', mail)
      /\ GoneOK(current, job') /\ HeadOK(job', mail)
  BY <1>2, <1>4, GoOnSync
<1>6. AppliedOK(rows, job', mail)
  <2> SUFFICES ASSUME NEW v \in Thread, job'[v].at = "respond"
               PROVE  LET c == Head(mail[job'[v].from][SiteOf[v]])
                      IN  c.kind = "set" <=> Has(rows[SiteOf[v]], c.apn, c.s)
    BY DEF AppliedOK
  <2>1. CASE v # t
    BY <1>2, <2>1, SyncedParts DEF AppliedOK
  <2>2. CASE v = t
    <3>1. ~AtWork(k) /\ k.from = j.from /\ j.from # None
      BY <1>3, <2>2
    <3>2. ~Has(rows[h], j.apn, j.s)
      BY <3>1, CheckEndsWhere
    <3>3. LET c == Head(mail[j.from][h])
          IN  j.s = c.s /\ j.apn = c.apn /\ j.kind = c.kind
      BY <1>1, <3>1, SyncedParts DEF HeadOK
    <3> QED
      BY <1>1, <2>2, <3>1, <3>2, <3>3
  <2> QED
    BY <2>1, <2>2
<1>7. SentOK(pdn, rows, job', mail)
  <2>1. \A v \in Thread : job'[v].at = "accept" => job'[v] = job[v]
    BY <1>2, <1>3
  <2> QED
    BY <2>1, SyncedParts DEF SentOK
<1>8. FollowOK(pdn, current, rows, job', mail)
  <2>1. CASE j.from # None
    <3>1. k.from = j.from
      BY <1>3
    <3> QED
      BY <1>2, <1>3, <2>1, <3>1, NoChange
  <2>2. CASE j.from = None
    <3> SUFFICES ASSUME NEW a \in Listed, NEW u \in 1 .. Len(pdn),
                        ~Touched(pdn, job', a, u)
                 PROVE  /\ \A r, q \in Site : Will(pdn, rows, mail, r, a, u)
                                       => Will(pdn, rows, mail, q, a, u)
                        /\ \A r \in Site : current[a] = u =>
                             Will(pdn, rows, mail, r, a, u)
                        /\ \A r \in Site :
                             /\ Will(pdn, rows, mail, r, a, u)
                             /\ current[a] # u
                             => Going(pdn, job', a, u)
      BY DEF FollowOK
    <3>1. ~Touched(pdn, job, a, u)
      BY <1>1, <1>2 DEF Touched, SureJob
    <3>2. /\ \A r, q \in Site : Will(pdn, rows, mail, r, a, u)
                         => Will(pdn, rows, mail, q, a, u)
          /\ \A r \in Site : current[a] = u => Will(pdn, rows, mail, r, a, u)
          /\ \A r \in Site : /\ Will(pdn, rows, mail, r, a, u)
                             /\ current[a] # u
                             => Going(pdn, job, a, u)
      BY <3>1, SyncedParts DEF FollowOK
    <3>3. CASE ~Kills(pdn, j, a, u)
      <4>1. Going(pdn, job, a, u) => Going(pdn, job', a, u)
        BY <1>2, <3>3 DEF Going
      <4> QED
        BY <3>2, <4>1
    <3>4. CASE Kills(pdn, j, a, u) /\ AtWork(k)
      <4>1. SureJob(k) /\ Touch(pdn, k, a, u)
        BY <1>1, <1>3, <2>2, <3>4
           DEF SureJob, LocalJob, Touch, Alike, Kills, Gives, AtWork
      <4> QED
        BY <4>1 DEF Touched
    <3>5. CASE Kills(pdn, j, a, u) /\ ~AtWork(k)
      <4>1. a = j.apn /\ u = j.s
        BY <1>1, <3>5 DEF Kills
      <4>2. ~Has(rows[h], a, u)
        BY <3>5, <4>1, CheckEndsWhere
      <4>3. ~Will(pdn, rows, mail, h, a, u)
        <5> SUFFICES ASSUME NEW q \in Site, Brings(pdn, mail[q][h], a, u)
                     PROVE  FALSE
          BY <4>2 DEF Will
        <5>1. PICK c \in From(mail[q]) : Gives(c, a, u)
          BY <1>1, QueueTouches
        <5>2. Share(pdn, j, c)
          BY <3>5, <5>1, GivesOrKills DEF Touch
        <5>3. q # h
          <6>1. mail[h][h] = << >>
            BY <1>1, SyncedParts DEF TypeInv
          <6>2. Len(mail[h][h]) = 0
            BY <6>1, EmptySeq
          <6> QED
            BY <6>2 DEF Brings
        <5>4. LocalJob(j)
          BY <1>1, <2>2 DEF LocalJob
        <5> QED
          BY <5>1, <5>2, <5>3, <5>4, SyncedParts DEF SourceOK
      <4> QED
        BY <1>1, <3>2, <4>3
    <3> QED
      BY <3>3, <3>4, <3>5
  <2> QED
    BY <2>1, <2>2
<1> QED
  BY <1>2, <1>5, <1>6, <1>7, <1>8, SyncedParts DEF SyncInv

\* What a handler of its site has stored it sends to the others.
LEMMA QueueParts ==
  ASSUME Synced, NEW t \in Thread, QueueCopy(t)
  PROVE  LET h == SiteOf[t]
             j == job[t]
             k == job'[t]
         IN  /\ AtWork(j) /\ j.at = "copy" /\ h \in Site /\ Proper(pdn, j)
             /\ UNCHANGED <<pdn, current, rows>>
             /\ \A v \in Thread \ {t} : job'[v] = job[v]
             /\ \/ /\ AtWork(k) /\ k.at = "accept" /\ Alike(j, k)
                   /\ k.from = j.from /\ j.kind = "set" /\ j.from = None
                \/ /\ ~AtWork(k) /\ k.from = j.from
                   /\ j.kind = "set" => j.from # None
                   /\ k.at = IF j.from = None THEN "idle" ELSE "respond"
             /\ GoOn
<1> DEFINE h == SiteOf[t]
           j == job[t]
           k == job'[t]
<1>1. /\ AtWork(j) /\ j.at = "copy" /\ UNCHANGED <<pdn, current, rows>>
      /\ \A v \in Thread \ {t} : job'[v] = job[v]
  BY SyncedParts, StoreMoves DEF QueueCopy, Store
<1>2. h \in Site /\ Proper(pdn, j) /\ JobOK(t, j, Len(pdn)) /\ j \in Job
  BY <1>1, AtWorkParts
<1>3. k = Copied(j)
  BY SyncedParts DEF QueueCopy, TypeInv, TypeOK
<1>4. CASE j.kind = "set" /\ j.from = None
  <2>1. k = [j EXCEPT !.at = "accept", !.row = 0]
    BY <1>3, <1>4 DEF Copied
  <2>2. /\ AtWork(k) /\ k.at = "accept" /\ Alike(j, k) /\ k.from = j.from
    BY <1>2, <2>1 DEF Alike, AtWork, Job
  <2>3. GoOn
    BY <1>1, <2>2 DEF GoOn
  <2> QED
    BY <1>1, <1>2, <1>4, <2>2, <2>3
<1>5. CASE ~(j.kind = "set" /\ j.from = None)
  <2>1. k = Over(j)
    BY <1>2, <1>3, <1>5 DEF Copied, Proper
  <2>2. /\ k.from = j.from
        /\ k.at = IF j.from = None THEN "idle" ELSE "respond"
    BY <1>2, <2>1, SyncedParts, OverOK
  <2>3. ~AtWork(k) /\ ~LocalJob(k)
    BY <2>2 DEF AtWork, LocalJob
  <2>4. GoOn
    BY <1>1, <2>3 DEF GoOn
  <2> QED
    BY <1>1, <1>2, <1>5, <2>2, <2>3, <2>4
<1> QED
  BY <1>4, <1>5

\* At its own site, the rows it is about.
LEMMA CopyHas ==
  ASSUME Synced, NEW t \in Thread, job[t].at = "copy", NEW a, NEW u
  PROVE  /\ job[t].kind = "set" <=>
              Has(rows[SiteOf[t]], job[t].apn, job[t].s)
         /\ Gives(job[t], a, u) => Has(rows[SiteOf[t]], a, u)
         /\ Kills(pdn, job[t], a, u) => ~Has(rows[SiteOf[t]], a, u)
<1> DEFINE h == SiteOf[t]
           j == job[t]
           M == Mine(rows[h], j)
<1>1. /\ AtWork(j) /\ h \in Site /\ Proper(pdn, j)
      /\ \A s : Has(rows[h], j.apn, s) <=> \E x \in M : x.s = s
      /\ j.kind = "set" => \E x \in M : x.s = j.s
      /\ j.kind # "set" => M = {}
  <2>1. AtWork(j)
    BY DEF AtWork
  <2> QED
    BY <2>1, AtWorkParts DEF Stage
<1>2. j.kind = "set" <=> Has(rows[h], j.apn, j.s)
  BY <1>1
<1>3. ASSUME Kills(pdn, j, a, u), Has(rows[h], a, u)
      PROVE  FALSE
  <2>1. PICK x \in rows[h] : x.apn = a /\ x.s = u
    BY <1>3 DEF Has
  <2>2. CASE j.kind = "set"
    <3>1. PICK y \in rows[h] : y.apn = j.apn /\ y.s = j.s
      BY <1>2, <2>2 DEF Has
    <3>2. x # y /\ (x.apn = y.apn \/ pdn[x.s].ip = pdn[y.s].ip)
      BY <1>3, <2>1, <2>2, <3>1 DEF Kills
    <3> QED
      BY <1>1, <3>2, SyncedParts DEF NoDuplicates, Sound
  <2>3. CASE j.kind # "set"
    BY <1>2, <1>3, <2>1, <2>3 DEF Kills, Has
  <2> QED
    BY <2>2, <2>3
<1> QED
  BY <1>2, <1>3 DEF Gives

\* What is sent.
LEMMA QueueMail ==
  ASSUME Synced, NEW t \in Thread, QueueCopy(t), job[t].from = None
  PROVE  \E c \in Copy :
           /\ Alike(job[t], c)
           /\ \A q, r \in Site :
                mail'[q][r] = IF q = SiteOf[t] /\ r # q
                              THEN Append(mail[q][r], c) ELSE mail[q][r]
<1> DEFINE h == SiteOf[t]
           c == [kind |-> job[t].kind, s |-> job[t].s, apn |-> job[t].apn]
<1>1. c \in Copy /\ Alike(job[t], c)
  BY SyncedParts, Typed DEF Job, Copy, Alike
<1>2. mail' = [mail EXCEPT ![h] = [g \in Site |->
                IF g = h THEN mail[h][g] ELSE Append(mail[h][g], c)]]
  BY SyncedParts, Typed DEF QueueCopy, Queue, TypeInv, TypeOK
<1> HIDE DEF c
<1>3. \A q, r \in Site :
        mail'[q][r] = IF q = h /\ r # q
                      THEN Append(mail[q][r], c) ELSE mail[q][r]
  BY <1>2, SyncedParts, Typed DEF TypeInv, TypeOK
<1> QED
  BY <1>1, <1>3

LEMMA QueueWill ==
  ASSUME Synced, NEW t \in Thread, QueueCopy(t), job[t].from = None,
         NEW a, NEW u, NEW r \in Site
  PROVE  /\ ~Touch(pdn, job[t], a, u) =>
              (Will(pdn, rows, mail', r, a, u)
                 <=> Will(pdn, rows, mail, r, a, u))
         /\ ~Gives(job[t], a, u) =>
              (Will(pdn, rows, mail', r, a, u)
                 => Will(pdn, rows, mail, r, a, u))
         /\ Gives(job[t], a, u) => Will(pdn, rows, mail', r, a, u)
         /\ Kills(pdn, job[t], a, u) => ~Will(pdn, rows, mail', r, a, u)
<1> DEFINE h == SiteOf[t]
           j == job[t]
<1>1. /\ h \in Site /\ LocalJob(j) /\ SourceOK(pdn, job, mail)
      /\ mail \in [Site -> [Site -> Seq(Copy)]] /\ j.at = "copy"
  BY SyncedParts, QueueParts DEF LocalJob, TypeInv, TypeOK
<1>2. PICK c \in Copy :
        /\ Alike(j, c)
        /\ \A q, l \in Site :
             mail'[q][l] = IF q = h /\ l # q
                           THEN Append(mail[q][l], c) ELSE mail[q][l]
  BY QueueMail
<1>3. /\ Gives(c, a, u) = Gives(j, a, u)
      /\ Kills(pdn, c, a, u) = Kills(pdn, j, a, u)
  BY <1>2 DEF Alike, Gives, Kills
<1>4. ~(Gives(j, a, u) /\ Kills(pdn, j, a, u))
  BY GivesOrKills
<1>5. ASSUME NEW q \in Site \ {h}
      PROVE  /\ Gives(j, a, u) => Kept(pdn, mail[q][r], a, u)
             /\ Kills(pdn, j, a, u) => ~Brings(pdn, mail[q][r], a, u)
  <2>1. \A d \in From(mail[q]) : ~Share(pdn, j, d)
    BY <1>1 DEF SourceOK
  <2>2. ASSUME Gives(j, a, u), ~Kept(pdn, mail[q][r], a, u)
        PROVE  FALSE
    <3>1. PICK d \in From(mail[q]) : Kills(pdn, d, a, u)
      BY <2>2, QueueTouches
    <3> QED
      BY <2>1, <2>2, <3>1, GivesOrKills DEF Touch
  <2>3. ASSUME Kills(pdn, j, a, u), Brings(pdn, mail[q][r], a, u)
        PROVE  FALSE
    <3>1. PICK d \in From(mail[q]) : Gives(d, a, u)
      BY <2>3, QueueTouches
    <3> QED
      BY <2>1, <2>3, <3>1, GivesOrKills DEF Touch
  <2> QED
    BY <2>2, <2>3
<1>6. CASE r = h
  <2>1. \A q \in Site : mail'[q][r] = mail[q][r]
    BY <1>2, <1>6
  <2>2. Kept(pdn, mail[h][r], a, u) /\ ~Brings(pdn, mail[h][r], a, u)
    <3>1. mail[h][h] = << >>
      BY <1>1, SyncedParts DEF TypeInv
    <3>2. Len(mail[h][r]) = 0
      BY <1>6, <3>1, EmptySeq
    <3> QED
      BY <3>2 DEF Kept, Brings
  <2>3. /\ Gives(j, a, u) => Has(rows[r], a, u)
        /\ Kills(pdn, j, a, u) => ~Has(rows[r], a, u)
    BY <1>1, <1>6, CopyHas
  <2> QED
    BY <1>5, <2>1, <2>2, <2>3 DEF Will
<1>7. CASE r # h
  <2> DEFINE m == mail[h][r]
  <2>1. /\ mail'[h][r] = Append(m, c) /\ m \in Seq(Copy)
        /\ \A q \in Site \ {h} : mail'[q][r] = mail[q][r]
    BY <1>1, <1>2, <1>7
  <2>2. /\ Kept(pdn, Append(m, c), a, u) <=>
             Kept(pdn, m, a, u) /\ ~Kills(pdn, c, a, u)
        /\ Brings(pdn, Append(m, c), a, u) <=>
             Gives(c, a, u) \/ (Brings(pdn, m, a, u) /\ ~Kills(pdn, c, a, u))
    BY <2>1, AtTheEnd
  <2> QED
    BY <1>1, <1>3, <1>4, <1>5, <2>1, <2>2 DEF Will, Touch
<1> QED
  BY <1>6, <1>7

LEMMA QueueSync ==
  ASSUME Synced, NEW t \in Thread, QueueCopy(t)
  PROVE  SyncInv'
<1> DEFINE h == SiteOf[t]
           j == job[t]
           k == job'[t]
<1>1. /\ AtWork(j) /\ j.at = "copy" /\ h \in Site /\ Proper(pdn, j)
      /\ UNCHANGED <<pdn, current, rows>>
      /\ \A v \in Thread \ {t} : job'[v] = job[v]
      /\ \/ /\ AtWork(k) /\ k.at = "accept" /\ Alike(j, k)
            /\ k.from = j.from /\ j.kind = "set" /\ j.from = None
         \/ /\ ~AtWork(k) /\ k.from = j.from
            /\ j.kind = "set" => j.from # None
            /\ k.at = IF j.from = None THEN "idle" ELSE "respond"
      /\ GoOn
  BY QueueParts
<1>2. /\ CalmOK(pdn, current, job', mail) /\ SourceOK(pdn, job', mail)
      /\ GoneOK(current, job') /\ HeadOK(job', mail)
  BY <1>1, GoOnSync
<1>3. ASSUME j.from # None
      PROVE  SyncInv'
  <2>1. UNCHANGED mail /\ k.at = "respond" /\ k.from = j.from
    BY <1>1, <1>3 DEF QueueCopy, Queue
  <2>2. AppliedOK(rows, job', mail)
    <3> SUFFICES ASSUME NEW v \in Thread, job'[v].at = "respond"
                 PROVE  LET c == Head(mail[job'[v].from][SiteOf[v]])
                        IN  c.kind = "set" <=>
                              Has(rows[SiteOf[v]], c.apn, c.s)
      BY DEF AppliedOK
    <3>1. CASE v # t
      BY <1>1, <3>1, SyncedParts DEF AppliedOK
    <3>2. CASE v = t
      <4>1. LET c == Head(mail[j.from][h])
            IN  j.s = c.s /\ j.apn = c.apn /\ j.kind = c.kind
        BY <1>1, <1>3, SyncedParts DEF HeadOK
      <4>2. j.kind = "set" <=> Has(rows[h], j.apn, j.s)
        BY <1>1, CopyHas
      <4> QED
        BY <2>1, <3>2, <4>1, <4>2
    <3> QED
      BY <3>1, <3>2
  <2>3. /\ FollowOK(pdn, current, rows', job', mail')
        /\ SentOK(pdn, rows', job', mail')
    BY <1>1, <1>3, <2>1, NoChange
  <2> QED
    BY <1>1, <1>2, <2>1, <2>2, <2>3, SyncedParts DEF SyncInv
<1>4. ASSUME j.from = None
      PROVE  SyncInv'
  <2>1. PICK c \in Copy :
          /\ Alike(j, c)
          /\ \A q, r \in Site :
               mail'[q][r] = IF q = h /\ r # q
                             THEN Append(mail[q][r], c) ELSE mail[q][r]
    BY <1>4, QueueMail
  <2>2. LocalJob(j) /\ SureJob(j)
    BY <1>1, <1>4 DEF LocalJob, SureJob
  <2>3. \A q \in Site : \A d \in From(mail'[q]) :
          d \in From(mail[q]) \/ (q = h /\ d = c)
    <3> SUFFICES ASSUME NEW q \in Site, NEW d \in From(mail'[q])
                 PROVE  d \in From(mail[q]) \/ (q = h /\ d = c)
      OBVIOUS
    <3>1. PICK r \in Site : \E i \in 1 .. Len(mail'[q][r]) : d = mail'[q][r][i]
      BY FromIs
    <3>2. CASE mail'[q][r] = mail[q][r]
      BY <3>1, <3>2, FromIs
    <3>3. CASE q = h /\ mail'[q][r] = Append(mail[q][r], c)
      <4>1. mail[q][r] \in Seq(Copy)
        BY SyncedParts DEF TypeInv, TypeOK
      <4>2. PICK i \in 1 .. Len(Append(mail[q][r], c)) :
              d = Append(mail[q][r], c)[i]
        BY <3>1, <3>3
      <4>3. d = c \/ (i \in 1 .. Len(mail[q][r]) /\ d = mail[q][r][i])
        BY <4>1, <4>2, AppendProperties
      <4> QED
        BY <3>3, <4>3, FromIs
    <3> QED
      BY <2>1, <3>2, <3>3
  <2>4. CalmOK(pdn, current, job', mail')
    <3>1. Proper(pdn, c)
      BY <1>1, <2>1, AlikeSame
    <3> QED
      BY <1>2, <2>3, <3>1 DEF CalmOK
  <2>5. SourceOK(pdn, job', mail')
    <3>1. \A d : /\ Share(pdn, c, d) = Share(pdn, j, d)
                 /\ Share(pdn, d, c) = Share(pdn, j, d)
      BY <2>1 DEF Share, Alike
    <3>2. ASSUME NEW v \in Thread, NEW q \in Site, LocalJob(job'[v]),
                 q # SiteOf[v], NEW d \in From(mail'[q])
          PROVE  ~Share(pdn, job'[v], d)
      <4>1. CASE d \in From(mail[q])
        BY <1>2, <3>2, <4>1 DEF SourceOK
      <4>2. CASE q = h /\ d = c
        <5>1. v # t /\ job'[v] = job[v] /\ LocalJob(job[v])
          BY <1>1, <3>2, <4>2
        <5>2. ~Share(pdn, j, job[v])
          BY <2>2, <5>1, SyncedParts DEF SourceOK
        <5> QED
          BY <3>1, <4>2, <5>1, <5>2
      <4> QED
        BY <2>3, <4>1, <4>2
    <3>3. ASSUME NEW q \in Site, NEW l \in Site, q # l,
                 NEW d \in From(mail'[q]), NEW e \in From(mail'[l])
          PROVE  ~Share(pdn, d, e)
      <4>1. \A f, y : f \in Site /\ f # h /\ y \in From(mail[f]) =>
              ~Share(pdn, j, y)
        BY <2>2, SyncedParts DEF SourceOK
      <4>2. CASE d \in From(mail[q]) /\ e \in From(mail[l])
        BY <1>2, <3>3, <4>2 DEF SourceOK
      <4>3. CASE q = h /\ d = c
        <5>1. e \in From(mail[l])
          BY <2>3, <3>3, <4>3
        <5> QED
          BY <3>1, <3>3, <4>1, <4>3, <5>1
      <4>4. CASE l = h /\ e = c
        <5>1. d \in From(mail[q])
          BY <2>3, <3>3, <4>4
        <5> QED
          BY <3>1, <3>3, <4>1, <4>4, <5>1
      <4> QED
        BY <2>3, <4>2, <4>3, <4>4
    <3>4. \A v, w \in Thread :
            v # w /\ LocalJob(job'[v]) /\ LocalJob(job'[w])
              => ~Share(pdn, job'[v], job'[w])
      BY <1>2 DEF SourceOK
    <3> QED
      BY <3>2, <3>3, <3>4 DEF SourceOK
  <2>6. \A v \in Thread \ {t} : job[v].from # None =>
          Head(mail'[job[v].from][SiteOf[v]])
            = Head(mail[job[v].from][SiteOf[v]])
    <3> SUFFICES ASSUME NEW v \in Thread \ {t}, job[v].from # None
                 PROVE  Head(mail'[job[v].from][SiteOf[v]])
                          = Head(mail[job[v].from][SiteOf[v]])
      OBVIOUS
    <3> DEFINE m == mail[job[v].from][SiteOf[v]]
    <3>1. job[v].from \in Site /\ SiteOf[v] \in Site /\ m # << >>
      BY SyncedParts, Typed DEF Job, TypeInv, HandInv
    <3>2. m \in Seq(Copy)
      BY <3>1, SyncedParts DEF TypeInv, TypeOK
    <3>3. Head(Append(m, c)) = Head(m)
      <4>1. Len(m) \in Nat /\ Len(m) # 0 /\ Head(m) = m[1]
        BY <3>1, <3>2, HeadTailProperties, EmptySeq
      <4>2. 1 \in 1 .. Len(m) /\ Append(m, c)[1] = m[1]
        BY <3>2, <4>1, AppendProperties
      <4>3. Append(m, c) \in Seq(Copy) /\ Append(m, c) # << >>
        BY <3>2, AppendProperties
      <4> QED
        BY <4>1, <4>2, <4>3, HeadTailProperties
    <3> QED
      BY <2>1, <3>1, <3>3
  <2>7. \A v \in Thread : job'[v].from # None \/ job'[v].at = "respond" =>
          v # t /\ job'[v] = job[v] /\ job[v].from # None
    <3>1. k.from = None /\ k.at # "respond"
      BY <1>1, <1>4
    <3>2. \A v \in Thread \ {t} : job'[v] = job[v] /\
            (job[v].at = "respond" => job[v].from # None)
      BY <1>1, SyncedParts, Typed DEF JobOK
    <3> QED
      BY <3>1, <3>2
  <2>8. \A v \in Thread : job'[v].from # None \/ job'[v].at = "respond" =>
          Head(mail'[job'[v].from][SiteOf[v]])
            = Head(mail[job'[v].from][SiteOf[v]])
    BY <2>6, <2>7
  <2>9. HeadOK(job', mail')
    BY <1>2, <2>8 DEF HeadOK
  <2>10. AppliedOK(rows, job', mail')
    BY <2>7, <2>8, SyncedParts DEF AppliedOK
  <2>11. ASSUME NEW v \in Thread \ {t}
         PROVE  /\ SureJob(job'[v]) = SureJob(job[v])
                /\ job'[v] = job[v]
    BY <1>1, <2>11
  <2>12. FollowOK(pdn, current, rows, job', mail')
    <3> SUFFICES ASSUME NEW a \in Listed, NEW u \in 1 .. Len(pdn),
                        ~Touched(pdn, job', a, u)
                 PROVE  /\ \A r, q \in Site : Will(pdn, rows, mail', r, a, u)
                                       => Will(pdn, rows, mail', q, a, u)
                        /\ \A r \in Site : current[a] = u =>
                             Will(pdn, rows, mail', r, a, u)
                        /\ \A r \in Site :
                             /\ Will(pdn, rows, mail', r, a, u)
                             /\ current[a] # u
                             => Going(pdn, job', a, u)
      BY DEF FollowOK
    <3>1. CASE ~Touch(pdn, j, a, u)
      <4>1. ~Touched(pdn, job, a, u)
        BY <2>11, <3>1 DEF Touched
      <4>2. \A r \in Site : Will(pdn, rows, mail', r, a, u)
                              <=> Will(pdn, rows, mail, r, a, u)
        BY <1>4, <3>1, QueueWill
      <4>3. Going(pdn, job, a, u) => Going(pdn, job', a, u)
        BY <1>1 DEF Going
      <4> QED
        BY <4>1, <4>2, <4>3, SyncedParts DEF FollowOK
    <3>2. CASE Touch(pdn, j, a, u) /\ AtWork(k)
      <4>1. SureJob(k) /\ Touch(pdn, k, a, u)
        <5>1. k.at = "accept" /\ k.from = None /\ Alike(j, k)
          BY <1>1, <1>4, <3>2
        <5> QED
          BY <3>2, <5>1 DEF SureJob, LocalJob, Alike, Touch, Kills, Gives
      <4> QED
        BY <4>1 DEF Touched
    <3>3. CASE Touch(pdn, j, a, u) /\ ~AtWork(k)
      <4>1. j.kind = "clear" /\ Kills(pdn, j, a, u) /\ u = j.s
        BY <1>1, <1>4, <3>3 DEF Proper, Touch, Gives, Kills
      <4>2. \A r \in Site : ~Will(pdn, rows, mail', r, a, u)
        BY <1>4, <4>1, QueueWill
      <4>3. current[a] # u
        BY <2>2, <4>1, SyncedParts DEF GoneOK
      <4> QED
        BY <4>2, <4>3
    <3> QED
      BY <3>1, <3>2, <3>3
  <2>13. SentOK(pdn, rows, job', mail')
    <3> SUFFICES ASSUME NEW v \in Thread, job'[v].at = "accept",
                        NEW r \in Site, NEW a \in Listed,
                        NEW u \in 1 .. Len(pdn)
                 PROVE  /\ Gives(job'[v], a, u) =>
                             Will(pdn, rows, mail', r, a, u)
                        /\ Kills(pdn, job'[v], a, u) =>
                             ~Will(pdn, rows, mail', r, a, u)
      BY DEF SentOK
    <3>1. CASE v = t
      <4>1. Alike(j, k)
        BY <1>1, <1>4, <3>1
      <4>2. /\ Gives(k, a, u) = Gives(j, a, u)
            /\ Kills(pdn, k, a, u) = Kills(pdn, j, a, u)
        BY <4>1 DEF Alike, Gives, Kills
      <4>3. /\ Gives(j, a, u) => Will(pdn, rows, mail', r, a, u)
            /\ Kills(pdn, j, a, u) => ~Will(pdn, rows, mail', r, a, u)
        BY <1>4, QueueWill
      <4> QED
        BY <3>1, <4>2, <4>3
    <3>2. CASE v # t
      <4>1. job'[v] = job[v] /\ job[v].at = "accept" /\ LocalJob(job[v])
        BY <2>11, <3>2, SyncedParts, Typed DEF JobOK, LocalJob
      <4>2. /\ Gives(job[v], a, u) => Will(pdn, rows, mail, r, a, u)
            /\ Kills(pdn, job[v], a, u) => ~Will(pdn, rows, mail, r, a, u)
        BY <4>1, SyncedParts DEF SentOK
      <4>3. ~Share(pdn, job[v], j) /\ ~Share(pdn, j, job[v])
        BY <2>2, <3>2, <4>1, SyncedParts DEF SourceOK
      <4>4. /\ Gives(job[v], a, u) => ~Touch(pdn, j, a, u)
            /\ Kills(pdn, job[v], a, u) => ~Gives(j, a, u)
        BY <4>3, GivesOrKills DEF Touch
      <4>5. /\ ~Touch(pdn, j, a, u) =>
                 (Will(pdn, rows, mail', r, a, u)
                    <=> Will(pdn, rows, mail, r, a, u))
            /\ ~Gives(j, a, u) =>
                 (Will(pdn, rows, mail', r, a, u)
                    => Will(pdn, rows, mail, r, a, u))
        BY <1>4, QueueWill
      <4> QED
        BY <4>1, <4>2, <4>4, <4>5
    <3> QED
      BY <3>1, <3>2
  <2> QED
    BY <1>1, <1>2, <2>4, <2>5, <2>9, <2>10, <2>12, <2>13, SyncedParts
       DEF SyncInv
<1> QED
  BY <1>3, <1>4

\* Nothing of this depends on what else a PGW does with a session.
SameSessions(p, q) ==
  \A i \in 1 .. Len(p) : q[i].apn = p[i].apn /\ q[i].ip = p[i].ip

LEMMA SameEffects ==
  ASSUME NEW p, NEW q, SameSessions(p, q), NEW c, c.s \in 1 .. Len(p)
  PROVE  /\ Proper(q, c) <=> Proper(p, c)
         /\ \A a, u : u \in 1 .. Len(p) =>
              /\ Kills(q, c, a, u) <=> Kills(p, c, a, u)
              /\ Touch(q, c, a, u) <=> Touch(p, c, a, u)
         /\ \A d : d.s \in 1 .. Len(p) => (Share(q, c, d) <=> Share(p, c, d))
BY DEF SameSessions, Proper, Kills, Touch, Gives, Share

LEMMA SameWill ==
  ASSUME NEW p, NEW q, SameSessions(p, q), NEW R, NEW M,
         \A h \in Site : \A c \in From(M[h]) : c.s \in 1 .. Len(p),
         NEW r \in Site, NEW a, NEW u \in 1 .. Len(p)
  PROVE  Will(q, R, M, r, a, u) <=> Will(p, R, M, r, a, u)
<1>1. ASSUME NEW h \in Site, NEW i \in 1 .. Len(M[h][r])
      PROVE  Kills(q, M[h][r][i], a, u) <=> Kills(p, M[h][r][i], a, u)
  <2>1. M[h][r][i] \in From(M[h])
    BY FromIs
  <2>2. M[h][r][i].s \in 1 .. Len(p)
    BY <2>1
  <2> QED
    BY <2>2, SameEffects
<1>2. ASSUME NEW h \in Site
      PROVE  /\ Kept(q, M[h][r], a, u) <=> Kept(p, M[h][r], a, u)
             /\ Brings(q, M[h][r], a, u) <=> Brings(p, M[h][r], a, u)
  <2> DEFINE m == M[h][r]
  <2>1. \A i \in 1 .. Len(m) : Kills(q, m[i], a, u) <=> Kills(p, m[i], a, u)
    BY <1>1
  <2>2. \A k \in 1 .. Len(m) : \A i \in (k + 1) .. Len(m) : i \in 1 .. Len(m)
    OBVIOUS
  <2> HIDE DEF m
  <2>3. Kept(q, m, a, u) <=> Kept(p, m, a, u)
    BY <2>1 DEF Kept
  <2>4. Brings(q, m, a, u) <=> Brings(p, m, a, u)
    BY <2>1, <2>2 DEF Brings
  <2> QED
    BY <2>3, <2>4 DEF m
<1> QED
  BY <1>2 DEF Will

\* All is about sessions 1 .. n.
OnlyOf(n, cur, R, J, M) ==
  /\ \A a \in Listed : cur[a] # None => cur[a] \in 1 .. n
  /\ \A h \in Site : \A x \in R[h] : x.s \in 1 .. n
  /\ \A t \in Thread : AtWork(J[t]) => J[t].s \in 1 .. n
  /\ \A h \in Site : \A c \in From(M[h]) : c.s \in 1 .. n

LEMMA OnlyKnown ==
  ASSUME NEW p, NEW n, NEW cur, NEW R, NEW J, NEW M,
         \A a \in Listed : cur[a] # None => cur[a] \in 1 .. n,
         \A h \in Site : RowsOK(R[h], n),
         \A t \in Thread : JobOK(t, J[t], n),
         \A h, g \in Site : MailOK(M[h][g], n),
         CalmOK(p, cur, J, M)
  PROVE  OnlyOf(n, cur, R, J, M)
<1>1. \A h \in Site : \A c \in From(M[h]) : c.s \in 1 .. n
  <2> SUFFICES ASSUME NEW h \in Site, NEW c \in From(M[h])
               PROVE  c.s \in 1 .. n
    OBVIOUS
  <2>1. PICK g \in Site : \E i \in 1 .. Len(M[h][g]) : c = M[h][g][i]
    BY FromIs
  <2>2. CopyOK(c, n) /\ Proper(p, c)
    BY <2>1 DEF MailOK, CalmOK
  <2> QED
    BY <2>2 DEF CopyOK, Proper
<1>2. \A t \in Thread : AtWork(J[t]) => J[t].s \in 1 .. n
  BY DEF CalmOK, Proper, JobOK
<1> QED
  BY <1>1, <1>2 DEF OnlyOf, RowsOK

\* What is kept, if a PGW has changed nothing of a session but its state, or
\* has one more.
LEMMA Transfer ==
  ASSUME TypeInv', SameSessions(pdn, pdn'), Len(pdn) \in Nat,
         OnlyOf(Len(pdn), current', rows', job', mail'),
         ListedOK(pdn'), HeadOK(job', mail'), AppliedOK(rows', job', mail'),
         GoneOK(current', job'), CalmOK(pdn, current', job', mail'),
         SourceOK(pdn, job', mail'),
         FollowOK(pdn, current', rows', job', mail'),
         SentOK(pdn, rows', job', mail')
  PROVE  SyncInv'
<1>1. \A h \in Site : \A c \in From(mail'[h]) : c.s \in 1 .. Len(pdn)
  BY DEF OnlyOf
<1>2. \A t \in Thread : AtWork(job'[t]) => job'[t].s \in 1 .. Len(pdn)
  BY DEF OnlyOf
<1>3. \A t \in Thread : LocalJob(job'[t]) => AtWork(job'[t])
  BY DEF TypeInv, JobOK, LocalJob, AtWork
<1>4. /\ \A t \in Thread : SureJob(job'[t]) => LocalJob(job'[t])
      /\ \A t \in Thread : job'[t].at = "accept" => AtWork(job'[t])
  BY DEF SureJob, AtWork
<1>5. \A r \in Site, a \in Listed, u \in 1 .. Len(pdn) :
        Will(pdn', rows', mail', r, a, u) <=> Will(pdn, rows', mail', r, a, u)
  BY <1>1, SameWill
<1>6. \A t \in Thread, a \in Listed, u \in 1 .. Len(pdn) :
        AtWork(job'[t]) =>
          /\ Kills(pdn', job'[t], a, u) <=> Kills(pdn, job'[t], a, u)
          /\ Touch(pdn', job'[t], a, u) <=> Touch(pdn, job'[t], a, u)
  BY <1>2, SameEffects
<1>7. \A a \in Listed, u \in 1 .. Len(pdn) :
        /\ Touched(pdn', job', a, u) <=> Touched(pdn, job', a, u)
        /\ Going(pdn', job', a, u) <=> Going(pdn, job', a, u)
  BY <1>3, <1>4, <1>6 DEF Touched, Going
<1>8. CalmOK(pdn', current', job', mail')
  <2>1. \A t \in Thread : AtWork(job'[t]) => Proper(pdn', job'[t])
    BY <1>2, SameEffects DEF CalmOK
  <2>2. \A h \in Site : \A c \in From(mail'[h]) : Proper(pdn', c)
    BY <1>1, SameEffects DEF CalmOK
  <2>3. \A a \in Listed : current'[a] # None => pdn'[current'[a]].apn = a
    BY DEF CalmOK, OnlyOf, SameSessions
  <2> QED
    BY <2>1, <2>2, <2>3 DEF CalmOK
<1>9. SourceOK(pdn', job', mail')
  <2>1. \A t, u \in Thread : LocalJob(job'[t]) /\ LocalJob(job'[u]) =>
          (Share(pdn', job'[t], job'[u]) <=> Share(pdn, job'[t], job'[u]))
    BY <1>2, <1>3, SameEffects
  <2>2. \A t \in Thread, h \in Site : LocalJob(job'[t]) =>
          \A c \in From(mail'[h]) :
            Share(pdn', job'[t], c) <=> Share(pdn, job'[t], c)
    BY <1>1, <1>2, <1>3, SameEffects
  <2>3. \A h, k \in Site : \A c \in From(mail'[h]), d \in From(mail'[k]) :
          Share(pdn', c, d) <=> Share(pdn, c, d)
    BY <1>1, SameEffects
  <2> QED
    BY <2>1, <2>2, <2>3 DEF SourceOK
<1>10. ASSUME NEW a \in Listed, NEW u \in 1 .. Len(pdn'),
              u \notin 1 .. Len(pdn)
       PROVE  /\ \A r \in Site : ~Will(pdn', rows', mail', r, a, u)
              /\ current'[a] # u
              /\ \A t \in Thread : AtWork(job'[t]) => ~Gives(job'[t], a, u)
  <2>1. \A r \in Site : ~Has(rows'[r], a, u)
    BY <1>10 DEF OnlyOf, Has
  <2>2. ASSUME NEW r \in Site, NEW q \in Site, Brings(pdn', mail'[q][r], a, u)
        PROVE  FALSE
    <3>1. PICK i \in 1 .. Len(mail'[q][r]) : Gives(mail'[q][r][i], a, u)
      BY <2>2 DEF Brings
    <3>2. mail'[q][r][i] \in From(mail'[q])
      BY FromIs
    <3> QED
      BY <1>1, <1>10, <3>1, <3>2 DEF Gives
  <2>3. current'[a] # u
    <3>1. u # None
      BY ServingAssumption, <1>10
    <3> QED
      BY <1>10, <3>1 DEF OnlyOf
  <2> QED
    BY <1>2, <1>10, <2>1, <2>2, <2>3 DEF Will, Gives
<1>11. FollowOK(pdn', current', rows', job', mail')
  BY <1>5, <1>7, <1>10 DEF FollowOK
<1>12. SentOK(pdn', rows', job', mail')
  BY <1>4, <1>5, <1>6, <1>10 DEF SentOK
<1> QED
  BY <1>8, <1>9, <1>11, <1>12 DEF SyncInv

\* A step that ends here, with the sessions that there were.
LEMMA TransferSame ==
  ASSUME TypeInv, TypeInv', NEW s \in 1 .. Len(pdn),
         NEW at \in {"new", "asked", "up", "over"},
         pdn' = [pdn EXCEPT ![s].at = at], ListedOK(pdn),
         at # "new" => pdn[s].apn \in Listed,
         HeadOK(job', mail'), AppliedOK(rows', job', mail'),
         GoneOK(current', job'), CalmOK(pdn, current', job', mail'),
         SourceOK(pdn, job', mail'),
         FollowOK(pdn, current', rows', job', mail'),
         SentOK(pdn, rows', job', mail')
  PROVE  SyncInv'
<1>1. pdn \in Seq(Pdn) /\ Len(pdn) \in Nat
  BY DEF TypeInv, TypeOK
<1>2. /\ Len(pdn') = Len(pdn)
      /\ \A i \in 1 .. Len(pdn) :
           /\ pdn'[i].apn = pdn[i].apn /\ pdn'[i].ip = pdn[i].ip
           /\ pdn'[i].at = IF i = s THEN at ELSE pdn[i].at
  BY <1>1, PdnChanged
<1>3. SameSessions(pdn, pdn') /\ ListedOK(pdn')
  BY <1>2 DEF SameSessions, ListedOK
<1>4. /\ \A a \in Listed : current'[a] # None => current'[a] \in 1 .. Len(pdn)
      /\ \A h \in Site : RowsOK(rows'[h], Len(pdn))
      /\ \A t \in Thread : JobOK(t, job'[t], Len(pdn))
      /\ \A h, g \in Site : MailOK(mail'[h][g], Len(pdn))
  BY <1>2 DEF TypeInv
<1>5. OnlyOf(Len(pdn), current', rows', job', mail')
  BY <1>4, OnlyKnown
<1> QED
  BY <1>1, <1>3, <1>5, Transfer

LEMMA AttachSync ==
  ASSUME Synced, Attach
  PROVE  SyncInv'
<1>1. PICK x \in Pdn : pdn' = Append(pdn, x) /\ x.at = "new"
  BY DEF Attach, Pdn
<1>2. UNCHANGED <<current, rows, job, mail, cause>> /\ TypeInv /\ TypeInv'
  BY SyncedParts, AttachTypes DEF Attach
<1>3. /\ pdn \in Seq(Pdn) /\ Len(pdn) \in Nat /\ Len(pdn') = Len(pdn) + 1
      /\ \A i \in 1 .. Len(pdn) : pdn'[i] = pdn[i]
      /\ pdn'[Len(pdn) + 1] = x
  BY <1>1, <1>2, AppendProperties DEF TypeInv, TypeOK
<1>4. SameSessions(pdn, pdn')
  BY <1>3 DEF SameSessions
<1>5. ListedOK(pdn')
  <2>1. \A i \in 1 .. Len(pdn') : i \in 1 .. Len(pdn) \/ i = Len(pdn) + 1
    BY <1>3
  <2> QED
    BY <1>1, <1>3, <2>1, SyncedParts DEF ListedOK
<1>6. OnlyOf(Len(pdn), current, rows, job, mail)
  BY <1>2, SyncedParts, OnlyKnown DEF TypeInv
<1> QED
  BY <1>2, <1>3, <1>4, <1>5, <1>6, SyncedParts, Transfer

LEMMA DetachSync ==
  ASSUME Synced, Detach
  PROVE  SyncInv'
<1>1. PICK s \in 1 .. Len(pdn) :
        pdn[s].at = "up" /\ pdn' = [pdn EXCEPT ![s].at = "over"]
  BY DEF Detach
<1>2. UNCHANGED <<current, rows, job, mail, cause>> /\ TypeInv /\ TypeInv'
  BY SyncedParts, DetachTypes DEF Detach
<1>3. pdn[s].apn \in Listed
  BY <1>1, SyncedParts DEF ListedOK
<1> QED
  BY <1>1, <1>2, <1>3, SyncedParts, TransferSame

\* What is about one APN or address conflicts.
LEMMA ShareConflicts ==
  ASSUME NEW c, NEW d, Proper(pdn, c), Proper(pdn, d), Share(pdn, c, d)
  PROVE  Conflict(c, d)
<1>1. Apns(c) = {c.apn} /\ Apns(d) = {d.apn}
  BY DEF Proper, Apns, RowApn
<1>2. pdn[c.s].ip \in Ips(c) /\ pdn[d.s].ip \in Ips(d)
  BY DEF Proper, Ips
<1>3. CASE c.apn = d.apn
  BY <1>1, <1>3 DEF Conflict
<1>4. CASE pdn[c.s].ip = pdn[d.s].ip
  BY <1>2, <1>4 DEF Conflict
<1> QED
  BY <1>3, <1>4 DEF Share

\* A request that begins, and overlaps with nothing.
LEMMA BeginAlone ==
  ASSUME Synced, NEW t \in Thread, NEW j, NEW why, Begin(t, j, why),
         j.from = None, Proper(pdn, j)
  PROVE  /\ \A u \in Thread \ {t} :
              LocalJob(job[u]) => ~Share(pdn, j, job[u])
         /\ \A h \in Site \ {SiteOf[t]} :
              \A c \in From(mail[h]) : ~Share(pdn, j, c)
<1>1. ~Overlaps(t, j)
  BY DEF Begin, Synced
<1>2. ASSUME NEW u \in Thread \ {t}, LocalJob(job[u])
      PROVE  ~Share(pdn, j, job[u])
  <2>1. AtWork(job[u]) /\ job[u].from = None /\ Busy(u)
    BY <1>2, SyncedParts, LocalAtWork DEF LocalJob, Busy
  <2>2. Proper(pdn, job[u])
    BY <2>1, SyncedParts DEF CalmOK
  <2>3. ~Conflict(j, job[u])
    BY <1>1, <2>1 DEF Overlaps
  <2> QED
    BY <2>2, <2>3, ShareConflicts
<1>3. ASSUME NEW h \in Site \ {SiteOf[t]}, NEW c \in From(mail[h])
      PROVE  ~Share(pdn, j, c)
  <2>1. PICK g \in Site : \E i \in 1 .. Len(mail[h][g]) : c = mail[h][g][i]
    BY FromIs
  <2>2. ~Conflict(j, c)
    BY <1>1, <2>1 DEF Overlaps
  <2>3. Proper(pdn, c)
    BY <1>3, SyncedParts DEF CalmOK
  <2> QED
    BY <2>2, <2>3, ShareConflicts
<1> QED
  BY <1>2, <1>3

LEMMA BeginSync ==
  ASSUME Synced, NEW t \in Thread, NEW j, NEW why, Begin(t, j, why),
         j.from = None, Proper(pdn, j), j.at \in {"scan", "check"},
         \A a \in Listed : current'[a] \in {current[a], None}
  PROVE  /\ job'[t] = j /\ \A u \in Thread \ {t} : job'[u] = job[u]
         /\ job[t].at = "idle" /\ LocalJob(j)
         /\ CalmOK(pdn, current', job', mail) /\ SourceOK(pdn, job', mail)
         /\ HeadOK(job', mail) /\ AppliedOK(rows, job', mail)
         /\ SentOK(pdn, rows, job', mail)
<1>1. /\ job'[t] = j /\ \A u \in Thread \ {t} : job'[u] = job[u]
      /\ job[t].at = "idle" /\ LocalJob(j)
  BY SyncedParts DEF Begin, Busy, TypeInv, TypeOK, LocalJob
<1>2. CalmOK(pdn, current', job', mail)
  BY <1>1, SyncedParts DEF CalmOK
<1>3. SourceOK(pdn, job', mail)
  <2>1. \A d : Share(pdn, d, j) <=> Share(pdn, j, d)
    BY DEF Share
  <2>2. ASSUME NEW v \in Thread, NEW w \in Thread, v # w,
               LocalJob(job'[v]), LocalJob(job'[w])
        PROVE  ~Share(pdn, job'[v], job'[w])
    <3>1. CASE v = t
      BY <1>1, <2>2, <3>1, BeginAlone
    <3>2. CASE w = t
      BY <1>1, <2>1, <2>2, <3>2, BeginAlone
    <3>3. CASE v # t /\ w # t
      BY <1>1, <2>2, <3>3, SyncedParts DEF SourceOK
    <3> QED
      BY <3>1, <3>2, <3>3
  <2>3. ASSUME NEW v \in Thread, NEW h \in Site, LocalJob(job'[v]),
               h # SiteOf[v], NEW c \in From(mail[h])
        PROVE  ~Share(pdn, job'[v], c)
    <3>1. CASE v = t
      BY <1>1, <2>3, <3>1, BeginAlone
    <3>2. CASE v # t
      BY <1>1, <2>3, <3>2, SyncedParts DEF SourceOK
    <3> QED
      BY <3>1, <3>2
  <2> QED
    BY <2>2, <2>3, SyncedParts DEF SourceOK
<1>4. HeadOK(job', mail) /\ AppliedOK(rows, job', mail)
  BY <1>1, SyncedParts DEF HeadOK, AppliedOK
<1>5. SentOK(pdn, rows, job', mail)
  BY <1>1, SyncedParts DEF SentOK
<1> QED
  BY <1>1, <1>2, <1>3, <1>4, <1>5

LEMMA CcrISync ==
  ASSUME Synced, NEW t \in Worker, CcrI(t)
  PROVE  SyncInv'
<1>1. t \in Thread /\ TypeInv /\ TypeInv'
  BY SyncedParts, CcrITypes DEF Thread
<1>2. PICK s \in 1 .. Len(pdn) :
        /\ Request(t, Handler("scan", "set", s, pdn[s].apn, None),
                   IF pdn[s].apn \in Listed THEN {} ELSE {"unlisted"})
        /\ pdn' = [pdn EXCEPT ![s].at = "asked"]
        /\ UNCHANGED current
  BY DEF CcrI
<1> DEFINE j == Handler("scan", "set", s, pdn[s].apn, None)
           why == IF pdn[s].apn \in Listed THEN {} ELSE {"unlisted"}
<1>3. Begin(t, j, why) /\ UNCHANGED <<rows, mail>>
  BY <1>2 DEF Request
<1>4. pdn[s].apn \in Listed
  BY <1>3 DEF Begin, Synced
<1>5. /\ j.from = None /\ Proper(pdn, j) /\ j.at = "scan" /\ j.kind = "set"
  <2>1. s # None
    BY ServingAssumption
  <2> QED
    BY <1>4, <2>1 DEF Handler, Proper
<1> HIDE DEF j, why
<1>6. /\ job'[t] = j /\ \A u \in Thread \ {t} : job'[u] = job[u]
      /\ job[t].at = "idle" /\ LocalJob(j)
      /\ CalmOK(pdn, current', job', mail) /\ SourceOK(pdn, job', mail)
      /\ HeadOK(job', mail) /\ AppliedOK(rows, job', mail)
      /\ SentOK(pdn, rows, job', mail)
  BY <1>1, <1>2, <1>3, <1>5, BeginSync
<1>7. GoneOK(current', job')
  BY <1>2, <1>5, <1>6, SyncedParts DEF GoneOK
<1>8. FollowOK(pdn, current', rows, job', mail)
  <2>1. \A a \in Listed, u \in 1 .. Len(pdn) :
          /\ Touched(pdn, job, a, u) => Touched(pdn, job', a, u)
          /\ Going(pdn, job, a, u) => Going(pdn, job', a, u)
    BY <1>6 DEF Touched, Going, SureJob, LocalJob
  <2> QED
    BY <1>2, <2>1, SyncedParts DEF FollowOK
<1> QED
  BY <1>1, <1>2, <1>3, <1>4, <1>6, <1>7, <1>8, SyncedParts, TransferSame

LEMMA CcrTSync ==
  ASSUME Synced, NEW t \in Worker, CcrT(t)
  PROVE  SyncInv'
<1>1. t \in Thread /\ TypeInv /\ TypeInv'
  BY SyncedParts, CcrTTypes DEF Thread
<1>2. PICK s \in 1 .. Len(pdn) :
        /\ pdn[s].at = "up"
        /\ Request(t, Terminate(s, pdn[s].apn, None), {})
        /\ pdn' = [pdn EXCEPT ![s].at = "over"]
        /\ current' = [a \in Listed |-> IF current[a] = s THEN None
                                        ELSE current[a]]
  BY DEF CcrT
<1> DEFINE j == Terminate(s, pdn[s].apn, None)
<1>3. Begin(t, j, {}) /\ UNCHANGED <<rows, mail>>
  BY <1>2 DEF Request
<1>4. pdn[s].apn \in Listed /\ s # None
  BY <1>2, SyncedParts, ServingAssumption DEF ListedOK
<1>5. /\ j.from = None /\ Proper(pdn, j) /\ j.at = "check"
      /\ j.kind = "clear" /\ j.s = s /\ j.apn = pdn[s].apn
  BY <1>4 DEF Terminate, Handler, Proper
<1> HIDE DEF j
<1>6. \A a \in Listed : current'[a] = IF current[a] = s THEN None
                                      ELSE current[a]
  BY <1>2
<1>7. /\ job'[t] = j /\ \A u \in Thread \ {t} : job'[u] = job[u]
      /\ job[t].at = "idle" /\ LocalJob(j)
      /\ CalmOK(pdn, current', job', mail) /\ SourceOK(pdn, job', mail)
      /\ HeadOK(job', mail) /\ AppliedOK(rows, job', mail)
      /\ SentOK(pdn, rows, job', mail)
  BY <1>1, <1>3, <1>5, <1>6, BeginSync
<1>8. GoneOK(current', job')
  <2> SUFFICES ASSUME NEW v \in Thread, LocalJob(job'[v]),
                      job'[v].kind = "clear", NEW a \in Listed
               PROVE  current'[a] # job'[v].s
    BY DEF GoneOK
  <2>1. CASE v = t
    BY <1>4, <1>5, <1>6, <1>7, <2>1
  <2>2. CASE v # t
    <3>1. job'[v] = job[v] /\ AtWork(job[v])
      BY <1>1, <1>7, <2>2, LocalAtWork
    <3>2. job[v].s # None /\ current[a] # job[v].s
      BY <3>1, SyncedParts DEF CalmOK, Proper, GoneOK
    <3> QED
      BY <1>6, <3>1, <3>2
  <2> QED
    BY <2>1, <2>2
<1>9. FollowOK(pdn, current', rows, job', mail)
  <2> SUFFICES ASSUME NEW a \in Listed, NEW u \in 1 .. Len(pdn),
                      ~Touched(pdn, job', a, u)
               PROVE  /\ \A r, q \in Site : Will(pdn, rows, mail, r, a, u)
                                     => Will(pdn, rows, mail, q, a, u)
                      /\ \A r \in Site : current'[a] = u =>
                           Will(pdn, rows, mail, r, a, u)
                      /\ \A r \in Site :
                           Will(pdn, rows, mail, r, a, u) /\ current'[a] # u
                             => Going(pdn, job', a, u)
    BY DEF FollowOK
  <2>1. ~Touched(pdn, job, a, u)
    BY <1>7 DEF Touched, SureJob, LocalJob
  <2>2. Going(pdn, job, a, u) => Going(pdn, job', a, u)
    BY <1>7 DEF Going, LocalJob
  <2>3. u # None
    BY ServingAssumption
  <2>4. current'[a] = u => current[a] = u
    BY <1>6, <2>3
  <2>5. ASSUME current[a] = u, current'[a] # u
        PROVE  Going(pdn, job', a, u)
    <3>1. u = s /\ pdn[u].apn = a
      BY <1>6, <2>3, <2>5, SyncedParts DEF CalmOK
    <3>2. Kills(pdn, j, a, u)
      BY <1>5, <3>1 DEF Kills
    <3> QED
      BY <1>1, <1>5, <1>7, <3>2 DEF Going
  <2> QED
    BY <2>1, <2>2, <2>4, <2>5, SyncedParts DEF FollowOK
<1> QED
  BY <1>1, <1>2, <1>3, <1>4, <1>7, <1>8, <1>9, SyncedParts, TransferSame

LEMMA AcceptSync ==
  ASSUME Synced, NEW t \in Worker, Accept(t)
  PROVE  SyncInv'
<1> DEFINE j == job[t]
           s == j.s
<1>1. /\ t \in Thread /\ TypeInv /\ TypeInv' /\ j.at = "accept"
      /\ AtWork(j) /\ UNCHANGED <<rows, mail, cause>>
  BY SyncedParts, AcceptTypes DEF Thread, Accept, AtWork
<1>2. /\ JobOK(t, j, Len(pdn)) /\ Proper(pdn, j) /\ j.kind = "set"
      /\ j.from = None /\ LocalJob(j) /\ SureJob(j) /\ s # None
      /\ s \in 1 .. Len(pdn) /\ pdn[s].apn = j.apn /\ j.apn \in Listed
  BY <1>1, AtWorkParts DEF JobOK, Sets, LocalJob, SureJob, Proper
<1>3. /\ job' = [job EXCEPT ![t] = Over(j)] /\ Over(j) = Idle
      /\ Idle.at = "idle" /\ Idle.from = None
  BY <1>2 DEF Accept, Ends, Over, Idle, Handler
<1>4. /\ job'[t] = Idle /\ \A u \in Thread \ {t} : job'[u] = job[u]
      /\ ~AtWork(Idle) /\ ~LocalJob(Idle)
  BY <1>1, <1>3 DEF AtWork, LocalJob, TypeInv, TypeOK
<1>5. GoOn
  BY <1>4 DEF GoOn
<1>6. /\ CalmOK(pdn, current, job', mail) /\ SourceOK(pdn, job', mail)
      /\ GoneOK(current, job') /\ HeadOK(job', mail)
  BY <1>5, GoOnSync
<1>7. \A a \in Listed : current'[a] =
        IF a = j.apn THEN s
        ELSE IF current[a] # None /\ pdn[current[a]].ip = pdn[s].ip
             THEN None ELSE current[a]
  BY <1>2 DEF Accept
<1>8. CalmOK(pdn, current', job', mail)
  BY <1>2, <1>6, <1>7 DEF CalmOK
<1>9. GoneOK(current', job')
  <2> SUFFICES ASSUME NEW v \in Thread, LocalJob(job'[v]),
                      job'[v].kind = "clear", NEW a \in Listed
               PROVE  current'[a] # job'[v].s
    BY DEF GoneOK
  <2>1. v # t /\ job'[v] = job[v] /\ AtWork(job[v])
    BY <1>1, <1>4, LocalAtWork
  <2>2. job[v].s # None /\ current[a] # job[v].s
    BY <2>1, SyncedParts DEF CalmOK, Proper, GoneOK
  <2>3. ~Share(pdn, job[v], j)
    BY <1>1, <1>2, <2>1, SyncedParts DEF SourceOK
  <2> QED
    BY <1>7, <2>1, <2>2, <2>3 DEF Share
<1>10. AppliedOK(rows, job', mail)
  BY <1>3, <1>4, SyncedParts DEF AppliedOK
<1>11. ASSUME NEW a \in Listed, NEW u \in 1 .. Len(pdn)
       PROVE  /\ Gives(j, a, u) => current'[a] = u
              /\ Kills(pdn, j, a, u) => current'[a] # u
              /\ ~Touch(pdn, j, a, u) => (current'[a] = u <=> current[a] = u)
  <2>1. u # None
    BY ServingAssumption
  <2> QED
    BY <1>2, <1>7, <2>1 DEF Gives, Kills, Touch
<1>12. FollowOK(pdn, current', rows, job', mail)
  <2> SUFFICES ASSUME NEW a \in Listed, NEW u \in 1 .. Len(pdn),
                      ~Touched(pdn, job', a, u)
               PROVE  /\ \A r, q \in Site : Will(pdn, rows, mail, r, a, u)
                                     => Will(pdn, rows, mail, q, a, u)
                      /\ \A r \in Site : current'[a] = u =>
                           Will(pdn, rows, mail, r, a, u)
                      /\ \A r \in Site :
                           Will(pdn, rows, mail, r, a, u) /\ current'[a] # u
                             => Going(pdn, job', a, u)
    BY DEF FollowOK
  <2>1. CASE ~Touch(pdn, j, a, u)
    <3>1. ~Touched(pdn, job, a, u)
      BY <1>4, <2>1 DEF Touched
    <3>2. Going(pdn, job, a, u) => Going(pdn, job', a, u)
      BY <1>1, <1>4 DEF Going
    <3> QED
      BY <1>11, <2>1, <3>1, <3>2, SyncedParts DEF FollowOK
  <2>2. CASE Gives(j, a, u)
    <3>1. \A r \in Site : Will(pdn, rows, mail, r, a, u)
      BY <1>1, <2>2, SyncedParts DEF SentOK
    <3> QED
      BY <1>11, <2>2, <3>1
  <2>3. CASE Kills(pdn, j, a, u)
    <3>1. \A r \in Site : ~Will(pdn, rows, mail, r, a, u)
      BY <1>1, <2>3, SyncedParts DEF SentOK
    <3> QED
      BY <1>11, <2>3, <3>1
  <2> QED
    BY <2>1, <2>2, <2>3 DEF Touch
<1>13. SentOK(pdn, rows, job', mail)
  BY <1>3, <1>4, SyncedParts DEF SentOK
<1>14. pdn' = [pdn EXCEPT ![s].at = "up"]
  BY DEF Accept
<1> QED
  BY <1>1, <1>2, <1>6, <1>8, <1>9, <1>10, <1>12, <1>13, <1>14, SyncedParts,
     TransferSame

\* What has gone wrong once has.
LEMMA CauseStays ==
  ASSUME [Next]_vars
  PROVE  cause \subseteq cause'
<1>1. CASE UNCHANGED vars
  BY <1>1 DEF vars
<1>2. CASE Next
  <2>1. \A t \in Thread : Store(t) => cause \subseteq cause'
    BY DEF Store, Check, Scan, Find, Read, Reread, QueueCopy, Fails, Prune,
           UpdateRow, Undo, Create, Delete, Reads, Writes
  <2> QED
    BY <1>2, <2>1, StepKinds
       DEF Attach, Detach, CcrI, CcrT, Accept, Dies, Deregister, Respond,
           Deliver, GiveUp, Request, Begin
<1> QED
  BY <1>1, <1>2

LEMMA SyncKept == TypeInv /\ RowsInv /\ SyncInv /\ [Next]_vars => SyncInv'
<1> SUFFICES ASSUME TypeInv, RowsInv, SyncInv, [Next]_vars
             PROVE  SyncInv'
  OBVIOUS
<1>1. CASE UNCHANGED vars
  BY <1>1 DEF SyncInv, vars
<1>2. CASE cause' # {}
  BY <1>2 DEF SyncInv
<1>3. CASE Next /\ cause' = {}
  <2>1. Synced
    BY <1>3, CauseStays DEF Synced
  <2>2. ASSUME NEW t \in Thread, Store(t)
        PROVE  SyncInv'
    <3>1. ~Fails(t)
      BY <1>3 DEF Fails
    <3> QED
      BY <2>1, <2>2, <3>1, CheckSync, QueueSync, RowStepSync
         DEF Store, RowStep
  <2>3. /\ \A t \in Thread : ~Dies(t)
        /\ \A t \in Api : ~Deregister(t)
        /\ \A h, g \in Site : ~GiveUp(h, g)
    BY <1>3 DEF Dies, Deregister, Request, Begin, GiveUp
  <2> QED
    BY <1>3, <2>1, <2>2, <2>3, StepKinds, AttachSync, DetachSync, CcrISync,
       CcrTSync, AcceptSync, RespondSync, DeliverSync
<1> QED
  BY <1>1, <1>2, <1>3

\* The third layer holds from the beginning.
LEMMA InitSyncInv == Init => SyncInv
<1> SUFFICES ASSUME Init
             PROVE  SyncInv
  OBVIOUS
<1>1. Len(pdn) = 0 /\ 1 .. Len(pdn) = {}
  BY EmptySeq DEF Init
<1>2. \A t \in Thread : /\ ~AtWork(job[t]) /\ ~LocalJob(job[t])
                        /\ job[t].at = "idle"
  BY DEF Init, Idle, Handler, AtWork, LocalJob
<1>3. \A h \in Site : From(mail[h]) = {}
  <2> SUFFICES ASSUME NEW h \in Site, NEW c \in From(mail[h])
               PROVE  FALSE
    OBVIOUS
  <2>1. PICK g \in Site : \E i \in 1 .. Len(mail[h][g]) : c = mail[h][g][i]
    BY FromIs
  <2>2. Len(mail[h][g]) = 0
    BY EmptySeq DEF Init
  <2> QED
    BY <2>1, <2>2
<1>4. /\ ListedOK(pdn) /\ CalmOK(pdn, current, job, mail)
      /\ HeadOK(job, mail) /\ SourceOK(pdn, job, mail)
  BY <1>1, <1>2, <1>3 DEF Init, ListedOK, CalmOK, HeadOK, SourceOK
<1>5. AppliedOK(rows, job, mail) /\ GoneOK(current, job)
  BY <1>2 DEF AppliedOK, GoneOK
<1>6. /\ FollowOK(pdn, current, rows, job, mail)
      /\ SentOK(pdn, rows, job, mail)
  BY <1>1, <1>2 DEF FollowOK, SentOK
<1> QED
  BY <1>4, <1>5, <1>6 DEF SyncInv

\* Answer_16777238_272 and handleGeored: once every request and copy is done
\* with, and nothing has gone wrong, each site has for each APN a row of just
\* the session that its PGW was told last is accepted, or none.
THEOREM SitesFollow == Spec => []RowsFollow
<1>1. TypeInv /\ SyncInv => RowsFollow
  <2> SUFFICES ASSUME TypeInv, SyncInv, Quiet, cause = {}, NEW h \in Site,
                      NEW a \in Listed
               PROVE  {x.s : x \in RowsOf(h, a)} = {current[a]} \ {None}
    BY DEF RowsFollow
  <2>1. /\ \A t \in Thread : ~LocalJob(job[t]) /\ ~SureJob(job[t])
        /\ FollowOK(pdn, current, rows, job, mail)
    BY DEF Quiet, Busy, LocalJob, SureJob, SyncInv
  <2>2. ASSUME NEW u
        PROVE  Will(pdn, rows, mail, h, a, u) <=> Has(rows[h], a, u)
    <3>1. \A q \in Site : Len(mail[q][h]) = 0
      BY EmptySeq DEF Quiet
    <3> QED
      BY <3>1 DEF Will, Kept, Brings
  <2>3. \A u : ~Touched(pdn, job, a, u) /\ ~Going(pdn, job, a, u)
    BY <2>1 DEF Touched, Going
  <2>4. ASSUME NEW u \in 1 .. Len(pdn)
        PROVE  Has(rows[h], a, u) <=> current[a] = u
    BY <2>1, <2>2, <2>3 DEF FollowOK
  <2>5. \A x \in rows[h] : x.s \in 1 .. Len(pdn)
    BY DEF TypeInv, RowsOK
  <2>6. current[a] # None => current[a] \in 1 .. Len(pdn)
    BY DEF TypeInv
  <2>7. None \notin 1 .. Len(pdn)
    BY ServingAssumption
  <2>8. ASSUME NEW x \in RowsOf(h, a)
        PROVE  x.s = current[a] /\ x.s # None
    <3>1. x.s \in 1 .. Len(pdn) /\ Has(rows[h], a, x.s)
      BY <2>5 DEF RowsOf, Has
    <3> QED
      BY <2>4, <2>7, <3>1
  <2>9. ASSUME current[a] # None
        PROVE  \E x \in RowsOf(h, a) : x.s = current[a]
    <3>1. Has(rows[h], a, current[a])
      BY <2>4, <2>6, <2>9
    <3> QED
      BY <3>1 DEF RowsOf, Has
  <2> QED
    BY <2>8, <2>9
<1> QED
  BY <1>1, TypeAlways, RowsAlways, InitSyncInv, SyncKept, PTL DEF Spec

=============================================================================
