--------------------------- MODULE EmergencyProofs ---------------------------
(***************************************************************************)
(* Theorems about Emergency: the types; that the bearer of an emergency    *)
(* call is asked of the session it calls from, and is gone when the call   *)
(* is over; and that every site comes to have the same rows, one for each  *)
(* UE with an open session.                                                *)
(*                                                                         *)
(* The proof goes layer by layer through the invariant of EmergencyInv.    *)
(***************************************************************************)
EXTENDS EmergencyInv, SequenceTheorems, FiniteSetTheorems,
        WellFoundedInduction, TLAPS

-----------------------------------------------------------------------------
(***************************************************************************)
(* Numbers, sessions, columns, rows and jobs.                              *)
(***************************************************************************)

LEMMA LeastOf ==
  ASSUME NEW S \in SUBSET Nat, S # {}
  PROVE  Min(S) \in S /\ \A y \in S : Min(S) <= y
<1> DEFINE T == {0 .. k : k \in S}
<1>1. T \subseteq FiniteSubsetsOf(Nat) /\ T # {}
  <2>1. ASSUME NEW k \in S
        PROVE  0 .. k \in FiniteSubsetsOf(Nat)
    <3>1. IsFiniteSet(0 .. k)
      BY FS_Interval
    <3> QED
      BY <3>1 DEF FiniteSubsetsOf
  <2> QED
    BY <2>1
<1>2. PICK X \in T : \A Y \in T : ~(<<Y, X>> \in StrictSubsetOrdering(Nat))
  <2> HIDE DEF T
  <2> QED
    BY <1>1, FS_StrictSubsetOrderingWellFounded, WFMin
<1>3. PICK x \in S : X = 0 .. x
  OBVIOUS
<1>4. ASSUME NEW y \in S
      PROVE  x <= y
  <2>1. ~(<<0 .. y, 0 .. x>> \in StrictSubsetOrdering(Nat))
    BY <1>2, <1>3
  <2>2. 0 .. y = 0 .. x \/ ~(0 .. y \subseteq 0 .. x)
    BY <2>1 DEF StrictSubsetOrdering
  <2>3. x \in 0 .. x /\ x \in Nat /\ y \in Nat
    OBVIOUS
  <2> QED
    BY <2>2, <2>3
<1> QED
  BY <1>4 DEF Min

LEMMA GreatestOf ==
  ASSUME NEW S \in SUBSET Nat, S # {}, NEW m \in Nat, \A x \in S : x <= m
  PROVE  Max(S) \in S /\ \A y \in S : y <= Max(S)
<1> DEFINE U == {k \in Nat : \A x \in S : x <= k}
<1>1. U \in SUBSET Nat /\ U # {}
  OBVIOUS
<1>2. PICK k \in U : \A y \in U : k <= y
  <2> HIDE DEF U
  <2> QED
    BY <1>1, LeastOf
<1>3. k \in S
  <2> SUFFICES ASSUME k \notin S
               PROVE  FALSE
    OBVIOUS
  <2>1. \A x \in S : x <= k - 1
    BY <1>2
  <2>2. k - 1 \in Nat
    <3>1. PICK x \in S : TRUE
      OBVIOUS
    <3>2. x \in Nat /\ x <= k - 1
      BY <2>1
    <3> QED
      BY <1>2, <3>2
  <2>3. k - 1 \in U
    BY <2>1, <2>2
  <2> QED
    BY <1>2, <2>3
<1>4. \A y \in S : k >= y
  BY <1>2
<1> QED
  BY <1>3, <1>4 DEF Max

\* The number of a new row.
LEMMA NewNumber ==
  ASSUME NEW p, NEW R, RowsOK(R, p), NEW id, id = 1 + Max({0} \cup Ids(R))
  PROVE  /\ id \in Nat \ {0}
         /\ \A x \in R : x.id < id
<1>1. PICK m \in Nat : \A x \in R : x.id <= m
  BY DEF RowsOK
<1>2. {0} \cup Ids(R) \in SUBSET Nat /\ {0} \cup Ids(R) # {}
  BY DEF RowsOK, Row, Ids
<1>3. \A k \in {0} \cup Ids(R) : k <= m
  BY <1>1 DEF Ids
<1>4. /\ Max({0} \cup Ids(R)) \in {0} \cup Ids(R)
      /\ \A k \in {0} \cup Ids(R) : k <= Max({0} \cup Ids(R))
  BY <1>1, <1>2, <1>3, GreatestOf
<1>5. \A x \in R : x.id \in Ids(R) /\ x.id \in Nat
  BY DEF Ids, RowsOK, Row
<1> QED
  BY <1>2, <1>4, <1>5

\* The first of some rows is one of them.
LEMMA FirstIsOne ==
  ASSUME NEW X \in SUBSET Row, X # {}
  PROVE  First(X) \in X /\ \A y \in X : First(X).id <= y.id
<1>1. Ids(X) \in SUBSET Nat /\ Ids(X) # {}
  BY DEF Ids, Row
<1>2. Min(Ids(X)) \in Ids(X) /\ \A k \in Ids(X) : Min(Ids(X)) <= k
  BY <1>1, LeastOf
<1>3. PICK x \in X : x.id = Min(Ids(X))
  BY <1>2 DEF Ids
<1>4. \A y \in X : x.id <= y.id
  BY <1>2, <1>3 DEF Ids
<1> QED
  BY <1>4 DEF First

LEMMA NoRowIsRow ==
  /\ NoRow \in Row /\ Nothing \in Columns /\ NoRow.cols = Nothing
  /\ NoRow.id = 0 /\ Nothing.ue = None /\ Nothing.ip = None
BY DEF NoRow, Nothing, Row, Columns

\* No first row, or one of the rows, which is not none.
LEMMA FirstFound ==
  ASSUME NEW X \in SUBSET Row, \A x \in X : x.id # 0
  PROVE  /\ First(X) \in Row
         /\ First(X) = NoRow <=> X = {}
         /\ First(X) # NoRow => First(X) \in X
<1>1. CASE X = {}
  BY <1>1, NoRowIsRow DEF First
<1>2. CASE X # {}
  <2>1. First(X) \in X
    BY <1>2, FirstIsOne
  <2> QED
    BY <1>2, <2>1, NoRowIsRow
<1> QED
  BY <1>1, <1>2

LEMMA MoreSessions ==
  ASSUME NEW p \in Seq(Pdn), NEW q \in Seq(Pdn), Grows(p, q)
  PROVE  /\ \A k : Real(k, p) => Real(k, q)
         /\ \A k : Exact(k, p) => Exact(k, q)
         /\ \A t, j : JobOK(t, j, p) => JobOK(t, j, q)
         /\ \A R : RowsOK(R, p) => RowsOK(R, q)
         /\ \A m : MailOK(m, p) => MailOK(m, q)
<1>1. 1 .. Len(p) \subseteq 1 .. Len(q)
  BY DEF Grows
<1>2. \A k : Real(k, p) => Real(k, q)
  BY <1>1 DEF Real
<1>3. \A k : Exact(k, p) => Exact(k, q)
  BY <1>2 DEF Exact, Grows, Real
<1>4. \A t, j : JobOK(t, j, p) => JobOK(t, j, q)
  BY <1>2, <1>3 DEF JobOK
<1>5. \A R : RowsOK(R, p) => RowsOK(R, q)
  BY <1>2 DEF RowsOK
<1>6. \A m : MailOK(m, p) => MailOK(m, q)
  BY <1>2 DEF MailOK
<1> QED
  BY <1>2, <1>3, <1>4, <1>5, <1>6

LEMMA SameSessions ==
  ASSUME NEW p \in Seq(Pdn)
  PROVE  Grows(p, p)
BY DEF Grows

\* Fewer rows, a row added.
LEMMA FewerRows ==
  ASSUME NEW p, NEW R, RowsOK(R, p), NEW Q \in SUBSET R
  PROVE  RowsOK(Q, p)
BY DEF RowsOK

LEMMA OneMoreRow ==
  ASSUME NEW p, NEW R, RowsOK(R, p), NEW y \in Row, Real(y.cols, p),
         y.id # 0, \A x \in R : x.id # y.id
  PROVE  RowsOK(R \cup {y}, p)
<1>1. PICK m \in Nat : \A x \in R : x.id <= m
  BY DEF RowsOK
<1>2. y.id \in Nat
  BY DEF Row
<1>3. \E k \in Nat : k >= m /\ k >= y.id
  BY <1>2
<1>4. PICK k \in Nat : k >= m /\ k >= y.id
  BY <1>3
<1>5. \A x \in R : x.id \in Nat
  BY DEF RowsOK, Row
<1>6. \A x \in R \cup {y} : x.id <= k
  BY <1>1, <1>2, <1>4, <1>5
<1> QED
  BY <1>6 DEF RowsOK

\* A session is asked for, or changes.
LEMMA PdnAsked ==
  ASSUME pdn \in Seq(Pdn), NEW u \in Ue, NEW ip \in Ip,
         pdn' = Append(pdn, [ue |-> u, ip |-> ip, at |-> "asked"])
  PROVE  /\ pdn' \in Seq(Pdn) /\ Len(pdn') = Len(pdn) + 1 /\ Grows(pdn, pdn')
         /\ \A i \in 1 .. Len(pdn) : pdn'[i] = pdn[i]
         /\ pdn'[Len(pdn) + 1] = [ue |-> u, ip |-> ip, at |-> "asked"]
<1>1. [ue |-> u, ip |-> ip, at |-> "asked"] \in Pdn
  BY DEF Pdn
<1>2. /\ pdn' \in Seq(Pdn) /\ Len(pdn') = Len(pdn) + 1 /\ Len(pdn) \in Nat
      /\ \A i \in 1 .. Len(pdn) : pdn'[i] = pdn[i]
      /\ pdn'[Len(pdn) + 1] = [ue |-> u, ip |-> ip, at |-> "asked"]
  BY <1>1, AppendProperties
<1> QED
  BY <1>2 DEF Grows

LEMMA PdnChanged ==
  ASSUME pdn \in Seq(Pdn), NEW s, NEW at \in {"asked", "up", "over"},
         pdn' = [pdn EXCEPT ![s].at = at]
  PROVE  /\ pdn' \in Seq(Pdn) /\ Len(pdn') = Len(pdn) /\ Grows(pdn, pdn')
         /\ \A i \in 1 .. Len(pdn) :
              pdn'[i].at = IF i = s THEN at ELSE pdn[i].at
<1>1. \A i \in 1 .. Len(pdn) : pdn[i] \in Pdn
  BY ElementOfSeq
<1>2. CASE s \in 1 .. Len(pdn)
  <2>1. [pdn[s] EXCEPT !.at = at] \in Pdn
    BY <1>1, <1>2 DEF Pdn
  <2>2. pdn' = [pdn EXCEPT ![s] = [pdn[s] EXCEPT !.at = at]]
    OBVIOUS
  <2>3. pdn' \in Seq(Pdn) /\ Len(pdn') = Len(pdn)
    BY <1>2, <2>1, <2>2, ExceptSeq
  <2>4. \A i \in 1 .. Len(pdn) :
          pdn'[i] = IF i = s THEN [pdn[s] EXCEPT !.at = at] ELSE pdn[i]
    BY <1>2
  <2> QED
    BY <1>1, <2>3, <2>4 DEF Pdn, Grows
<1>3. CASE s \notin 1 .. Len(pdn)
  <2>1. DOMAIN pdn = 1 .. Len(pdn) /\ pdn = [i \in 1 .. Len(pdn) |-> pdn[i]]
    OBVIOUS
  <2>2. pdn' = pdn
    BY <1>3, <2>1
  <2> QED
    BY <1>3, <2>2, SameSessions
<1> QED
  BY <1>2, <1>3

LEMMA SessionOf ==
  ASSUME TypeInv, NEW s \in 1 .. Len(pdn)
  PROVE  /\ pdn \in Seq(Pdn) /\ Len(pdn) \in Nat /\ s \in Session
         /\ pdn[s] \in Pdn /\ pdn[s].ue \in Ue /\ pdn[s].ip \in Ip
<1>1. pdn \in Seq(Pdn) /\ Len(pdn) \in Nat
  BY DEF TypeInv, TypeOK
<1>2. pdn[s] \in Pdn
  BY <1>1, ElementOfSeq
<1>3. s \in Session
  BY <1>1 DEF Session
<1> QED
  BY <1>1, <1>2, <1>3 DEF Pdn

LEMMA FilledOK ==
  ASSUME TypeInv, NEW s \in Session, NEW u \in Ue, NEW ip \in Ip
  PROVE  /\ Filled(s, u, ip) \in Columns
         /\ Filled(s, u, ip).s = s /\ Filled(s, u, ip).ue = u
         /\ Filled(s, u, ip).ip = ip
BY DEF TypeInv, TypeOK, Filled, Columns

LEMMA AboutOK ==
  ASSUME TypeInv, NEW s \in 1 .. Len(pdn)
  PROVE  About(s) \in Columns /\ Exact(About(s), pdn) /\ About(s).s = s
BY SessionOf, FilledOK DEF About, Exact, Real

LEMMA HandlerIsJob ==
  ASSUME NEW at \in {"idle", "get", "find", "commit", "delete", "copy",
                     "send", "answer", "list", "sweep", "respond"},
         NEW kind \in {"set", "clear", "call", "str", "sweep"},
         NEW cols \in Columns, NEW c \in Call \cup {None},
         NEW from \in Site \cup {None}
  PROVE  LET j == Handler(at, kind, cols, c, from)
         IN  /\ j \in Job /\ j.at = at /\ j.kind = kind /\ j.cols = cols
             /\ j.c = c /\ j.from = from /\ j.old = NoRow /\ j.todo = {}
             /\ j.ok
BY NoRowIsRow DEF Handler, Job

LEMMA IdleOK ==
  /\ Idle \in Job /\ Idle.at = "idle" /\ Idle.from = None
  /\ Idle.kind = "set"
  /\ \A t, p : JobOK(t, Idle, p)
<1>1. /\ Idle \in Job /\ Idle.at = "idle" /\ Idle.from = None
      /\ Idle.kind = "set"
  BY NoRowIsRow, HandlerIsJob DEF Idle
<1> QED
  BY <1>1 DEF JobOK, PlaceOK

LEMMA SweeperOK ==
  ASSUME NEW t \in Thread
  PROVE  /\ Sweeper(t) \in Job /\ Sweeper(t).at \in {"idle", "list"}
         /\ Sweeper(t).from = None /\ Sweeper(t).kind \in {"set", "sweep"}
         /\ \A p : JobOK(t, Sweeper(t), p)
<1> DEFINE j == Handler("list", "sweep", Nothing, None, None)
<1>1. /\ j \in Job /\ j.at = "list" /\ j.from = None /\ j.kind = "sweep"
  BY NoRowIsRow, HandlerIsJob
<1>2. \A p : JobOK(t, j, p)
  BY <1>1 DEF JobOK, PlaceOK
<1> HIDE DEF j
<1>3. Sweeper(t) \in {j, Idle}
  BY DEF Sweeper, j
<1> QED
  BY <1>1, <1>2, <1>3, IdleOK

LEMMA JobFields ==
  ASSUME NEW j \in Job
  PROVE  /\ j.kind \in {"set", "clear", "call", "str", "sweep"}
         /\ j.cols \in Columns /\ j.c \in Call \cup {None}
         /\ j.from \in Site \cup {None} /\ j.old \in Row
         /\ j.todo \subseteq Row /\ j.ok \in BOOLEAN
BY DEF Job

LEMMA JobAnswers ==
  ASSUME NEW o \in Job, NEW ok \in BOOLEAN
  PROVE  LET j == Answered(o, ok)
         IN  /\ j \in Job /\ j.at = "answer" /\ SameWork(j, o)
             /\ j.old = o.old /\ j.todo = o.todo /\ j.ok = ok
BY DEF Job, Answered, SameWork

LEMMA JobLoads ==
  ASSUME NEW o \in Job, NEW x \in Row, NEW at \in Places
  PROVE  LET j == LoadsRow(o, x, at)
         IN  /\ j \in Job /\ j.at = at /\ SameWork(j, o) /\ j.old = x
             /\ j.todo = o.todo /\ j.ok = o.ok
BY DEF Job, Places, LoadsRow, SameWork

LEMMA JobSweeps ==
  ASSUME NEW o \in Job, NEW x, NEW y \in Row, NEW at \in {"sweep", "delete"}
  PROVE  LET j == Sweeps(o, x, y, at)
         IN  /\ j \in Job /\ j.at = at /\ SameWork(j, o) /\ j.old = y
             /\ j.todo = o.todo \ {x}
BY DEF Job, Sweeps, SameWork

LEMMA JobGoes ==
  ASSUME NEW o \in Job, NEW at \in Places
  PROVE  LET j == GoesTo(o, at)
         IN  /\ j \in Job /\ j.at = at /\ SameWork(j, o) /\ j.old = o.old
             /\ j.todo = o.todo /\ j.ok = o.ok
BY DEF Job, Places, GoesTo, SameWork

LEMMA Typed ==
  ASSUME TypeInv, NEW t \in Thread
  PROVE  /\ job[t] \in Job /\ SiteOf[t] \in Site
         /\ JobOK(t, job[t], pdn) /\ pdn \in Seq(Pdn)
         /\ rows[SiteOf[t]] \subseteq Row /\ RowsOK(rows[SiteOf[t]], pdn)
BY EmergencyAssumption DEF TypeInv, TypeOK

\* Nobody but t changes what it is at.
LEMMA OneJob ==
  ASSUME TypeInv, NEW t \in Thread, NEW j, job' = [job EXCEPT ![t] = j],
         NEW p \in Seq(Pdn), Grows(pdn, p), JobOK(t, j, p)
  PROVE  /\ job' \in [Thread -> Job]
         /\ \A u \in Thread : JobOK(u, job'[u], p)
         /\ job'[t] = j
         /\ \A u \in Thread \ {t} : job'[u] = job[u]
<1>1. \A u \in Thread : JobOK(u, job[u], p)
  BY MoreSessions DEF TypeInv, TypeOK
<1> QED
  BY <1>1 DEF TypeInv, TypeOK, JobOK

\* One thread on each queue, whose head stays.
LEMMA HandKept ==
  ASSUME TypeInv, NEW t \in Thread, NEW j, job' = [job EXCEPT ![t] = j],
         \/ j.from = None
         \/ /\ j.from = job[t].from /\ j.kind = job[t].kind
            /\ j.cols = job[t].cols,
         \A h, g \in Site : mail[h][g] # << >> =>
            mail'[h][g] # << >> /\ Head(mail'[h][g]) = Head(mail[h][g])
  PROVE  HandInv'
<1>1. job'[t] = j /\ \A u \in Thread \ {t} : job'[u] = job[u]
  BY DEF TypeInv, TypeOK
<1>2. SUFFICES ASSUME NEW u \in Thread, job'[u].from # None
      PROVE  LET m == mail'[job'[u].from][SiteOf[u]] IN
             /\ m # << >>
             /\ Head(m) = [kind |-> job'[u].kind, cols |-> job'[u].cols]
             /\ \A v \in Thread :
                  job'[v].from = job'[u].from /\ SiteOf[v] = SiteOf[u] => v = u
  BY DEF HandInv
<1>3. /\ job'[u].from = job[u].from /\ job'[u].kind = job[u].kind
      /\ job'[u].cols = job[u].cols
  BY <1>1, <1>2
<1>4. job[u].from \in Site /\ SiteOf[u] \in Site
  BY <1>2, <1>3, EmergencyAssumption DEF TypeInv, TypeOK, Job
<1>5. LET m == mail[job[u].from][SiteOf[u]] IN
      /\ m # << >>
      /\ Head(m) = [kind |-> job[u].kind, cols |-> job[u].cols]
      /\ \A v \in Thread :
           job[v].from = job[u].from /\ SiteOf[v] = SiteOf[u] => v = u
  BY <1>2, <1>3 DEF TypeInv, HandInv
<1>6. ASSUME NEW v \in Thread, job'[v].from = job'[u].from,
             SiteOf[v] = SiteOf[u]
      PROVE  v = u
  <2>1. job[v].from = job[u].from
    BY <1>1, <1>2, <1>3, <1>6
  <2> QED
    BY <1>5, <1>6, <2>1
<1> QED
  BY <1>3, <1>4, <1>5, <1>6

-----------------------------------------------------------------------------
(***************************************************************************)
(* Type correctness.                                                       *)
(***************************************************************************)

LEMMA TypeParts ==
  TypeInv <=> /\ OutsideTyped
              /\ rows \in [Site -> SUBSET Row]
              /\ \A h \in Site : RowsOK(rows[h], pdn)
              /\ job \in [Thread -> Job]
              /\ \A t \in Thread : JobOK(t, job[t], pdn)
              /\ MailTyped /\ CallInv /\ HandInv /\ Counted
BY DEF TypeInv, TypeOK, OutsideTyped, MailTyped, Counted, CallType

LEMMA InitTypeInv == Init => TypeInv
<1> SUFFICES ASSUME Init
             PROVE  TypeInv
  OBVIOUS
<1>1. pdn \in Seq(Pdn) /\ Len(pdn) = 0
  BY EmptySeq DEF Init
<1>2. OutsideTyped /\ Counted
  BY <1>1 DEF Init, OutsideTyped, Counted, CurrentInv, CallType
<1>3. /\ rows \in [Site -> SUBSET Row]
      /\ \A h \in Site : RowsOK(rows[h], pdn)
  BY DEF Init, RowsOK
<1>4. /\ \A t \in Thread : job[t] = Idle
      /\ job \in [Thread -> Job]
  BY IdleOK DEF Init
<1>5. \A t \in Thread : JobOK(t, job[t], pdn)
  BY <1>4, IdleOK
<1>6. MailTyped
  BY EmptySeq DEF Init, MailTyped, MailOK
<1>7. HandInv /\ CallInv
  BY <1>4, IdleOK DEF HandInv, CallInv, Init
<1> QED
  BY <1>2, <1>3, <1>4, <1>5, <1>6, <1>7, TypeParts

\* A step of one thread keeps the types if its parts do.
LEMMA StepTypes ==
  ASSUME TypeInv, NEW t \in Thread, NEW j, job' = [job EXCEPT ![t] = j],
         OutsideTyped', Grows(pdn, pdn'), JobOK(t, j, pdn'),
         CallInv', HandInv',
         \/ UNCHANGED rows
         \/ /\ rows' \in [Site -> SUBSET Row]
            /\ \A h \in Site : RowsOK(rows'[h], pdn),
         UNCHANGED mail \/ MailTyped', Counted'
  PROVE  TypeInv'
<1>1. pdn \in Seq(Pdn) /\ pdn' \in Seq(Pdn)
  BY DEF OutsideTyped, TypeInv, TypeOK
<1>2. /\ job' \in [Thread -> Job]
      /\ \A u \in Thread : JobOK(u, job'[u], pdn')
  BY <1>1, OneJob
<1>3. /\ rows' \in [Site -> SUBSET Row]
      /\ \A h \in Site : RowsOK(rows'[h], pdn)
  BY DEF TypeInv, TypeOK
<1>4. \A h \in Site : RowsOK(rows'[h], pdn')
  BY <1>1, <1>3, MoreSessions
<1>5. MailTyped'
  <2>1. CASE UNCHANGED mail
    <3>1. \A h, g \in Site : MailOK(mail'[h][g], pdn')
      BY <1>1, <2>1, MoreSessions DEF TypeInv
    <3> QED
      BY <2>1, <3>1 DEF TypeInv, TypeOK, MailTyped
  <2> QED
    BY <2>1
<1> QED
  BY <1>2, <1>3, <1>4, <1>5
     DEF TypeInv, TypeOK, OutsideTyped, MailTyped, Counted, CallType

LEMMA CurrentKept ==
  ASSUME TypeInv, pdn' \in Seq(Pdn), Grows(pdn, pdn'),
         \A u \in Ue : current'[u] \in {current[u], None}
  PROVE  CurrentInv'
<1>1. \A i \in 1 .. Len(pdn) : i \in 1 .. Len(pdn') /\ pdn'[i].ue = pdn[i].ue
  BY DEF Grows, TypeInv, TypeOK
<1> QED
  BY <1>1 DEF TypeInv, CurrentInv

\* The calls, when none is new again and no bearer is added.
LEMMA CallsKept ==
  ASSUME TypeInv, NEW t \in Thread, NEW j, job' = [job EXCEPT ![t] = j],
         j.kind \in {"call", "str"} => call[j.c].at # "new",
         \A c \in Call : /\ call'[c].s = call[c].s
                         /\ call'[c].at = "new" <=> call[c].at = "new",
         bearers' \subseteq bearers, Grows(pdn, pdn'),
         j.kind \in {"call", "str"} => j.c \in Call
  PROVE  CallInv'
<1>1. job'[t] = j /\ \A u \in Thread \ {t} : job'[u] = job[u]
  BY DEF TypeInv, TypeOK
<1>2. 1 .. Len(pdn) \subseteq 1 .. Len(pdn')
  BY DEF Grows, TypeInv, TypeOK
<1>3. \A c \in Call : /\ call'[c].at = "new" <=> call'[c].s = None
                      /\ call'[c].s # None => call'[c].s \in 1 .. Len(pdn')
  BY <1>2 DEF TypeInv, CallInv
<1>4. \A u \in Thread : job'[u].kind \in {"call", "str"} =>
                          call'[job'[u].c].at # "new"
  <2>1. \A u \in Thread : job[u].kind \in {"call", "str"} => job[u].c \in Call
    BY DEF TypeInv, JobOK, PlaceOK
  <2> QED
    BY <1>1, <2>1 DEF TypeInv, CallInv
<1>5. \A b \in bearers' : b[1] \in 1 .. Len(pdn') /\ call'[b[2]].at # "new"
  <2>1. \A b \in bearers : b[2] \in Call
    BY DEF TypeInv, TypeOK, Bearer
  <2> QED
    BY <1>2, <2>1 DEF TypeInv, CallInv
<1> QED
  BY <1>3, <1>4, <1>5 DEF CallInv

\* A step within a handler, which leaves the world outside alone.
LEMMA InnerTypes ==
  ASSUME TypeInv, NEW t \in Thread, NEW j, job' = [job EXCEPT ![t] = j],
         JobOK(t, j, pdn), UNCHANGED outside,
         \/ j.from = None
         \/ /\ j.from = job[t].from /\ j.kind = job[t].kind
            /\ j.cols = job[t].cols,
         \/ j.kind \notin {"call", "str"}
         \/ j.kind = job[t].kind /\ j.c = job[t].c,
         \/ UNCHANGED rows
         \/ /\ rows' \in [Site -> SUBSET Row]
            /\ \A h \in Site : RowsOK(rows'[h], pdn),
         UNCHANGED mail, Counted'
  PROVE  TypeInv'
<1>1. OutsideTyped'
  BY DEF TypeInv, TypeOK, OutsideTyped, CurrentInv, outside, CallType
<1>2. Grows(pdn, pdn') /\ JobOK(t, j, pdn')
  BY SameSessions DEF TypeInv, TypeOK, outside
<1>3. CallInv'
  <2>1. j.kind \in {"call", "str"} => call[j.c].at # "new" /\ j.c \in Call
    BY DEF TypeInv, CallInv, JobOK, PlaceOK
  <2> QED
    BY <1>2, <2>1, CallsKept DEF outside
<1>4. HandInv'
  BY HandKept
<1> QED
  BY <1>1, <1>2, <1>3, <1>4, StepTypes

LEMMA OverlapIsCause ==
  ASSUME NEW t, NEW K, NEW from
  PROVE  OverlapOf(t, K, from) \in SUBSET Cause
BY DEF OverlapOf, Cause

LEMMA ByIdTyped ==
  ASSUME TypeInv, NEW t \in Thread, NEW X, X \subseteq rows[SiteOf[t]]
  PROVE  /\ First(X) \in Row
         /\ First(X) = NoRow <=> X = {}
         /\ First(X) # NoRow => /\ First(X) \in X
                                /\ Real(First(X).cols, pdn)
<1>1. X \in SUBSET Row /\ \A x \in X : x.id # 0 /\ Real(x.cols, pdn)
  BY Typed DEF RowsOK
<1> QED
  BY <1>1, FirstFound

LEMMA GetTypes ==
  ASSUME TypeInv, NEW t \in Thread, Get(t)
  PROVE  TypeInv'
<1> DEFINE o == job[t]
           x == First(Caller(SiteOf[t], o))
           j == IF x = NoRow
                THEN [o EXCEPT !.at = "answer", !.ok = o.kind = "str"]
                ELSE IF o.kind = "call"
                THEN [o EXCEPT !.at = "find", !.cols = [x.cols EXCEPT !.rx = o.c]]
                ELSE [o EXCEPT !.at = "send", !.cols = x.cols]
<1>1. /\ o.at = "get" /\ Loads(t, j)
  BY DEF Get
<1>2. /\ o \in Job /\ JobOK(t, o, pdn) /\ o.kind \in {"call", "str"}
      /\ o.c \in Call /\ o.from = None /\ Real(o.cols, pdn)
  BY <1>1, Typed DEF JobOK, PlaceOK
<1>3. /\ x \in Row
      /\ x # NoRow => Real(x.cols, pdn)
  <2>1. Caller(SiteOf[t], o) \subseteq rows[SiteOf[t]]
    BY DEF Caller
  <2> HIDE DEF o
  <2> QED
    BY <2>1, ByIdTyped
<1> HIDE DEF x, o
<1>4. JobOK(t, j, pdn) /\ j.kind = o.kind /\ j.c = o.c /\ j.from = None
  <2>1. CASE x = NoRow
    <3>1. /\ j \in Job /\ j.at = "answer" /\ j.kind = o.kind /\ j.c = o.c
          /\ j.from = o.from /\ j.cols = o.cols
      <4>1. (o.kind = "str") \in BOOLEAN
        OBVIOUS
      <4>2. j = Answered(o, o.kind = "str")
        BY <2>1 DEF Answered
      <4> HIDE DEF j
      <4> QED
        BY <1>2, <4>1, <4>2, JobAnswers DEF SameWork
    <3> HIDE DEF j
    <3> QED
      BY <1>2, <3>1 DEF JobOK, PlaceOK
  <2>2. CASE x # NoRow /\ o.kind = "call"
    <3>1. /\ [x.cols EXCEPT !.rx = o.c] \in Columns
          /\ Real([x.cols EXCEPT !.rx = o.c], pdn)
      BY <1>2, <1>3, <2>2 DEF Row, Columns, Real
    <3>2. /\ j \in Job /\ j.at = "find" /\ j.kind = o.kind /\ j.c = o.c
          /\ j.from = o.from /\ j.cols = [x.cols EXCEPT !.rx = o.c]
      BY <1>2, <2>2, <3>1, JobFields DEF Job
    <3> HIDE DEF j
    <3> QED
      BY <1>2, <2>2, <3>1, <3>2 DEF JobOK, PlaceOK
  <2>3. CASE x # NoRow /\ o.kind # "call"
    <3>1. x.cols \in Columns /\ Real(x.cols, pdn)
      BY <1>3, <2>3 DEF Row
    <3>2. /\ j \in Job /\ j.at = "send" /\ j.kind = o.kind /\ j.c = o.c
          /\ j.from = o.from /\ j.cols = x.cols
      BY <1>2, <2>3, <3>1, JobFields DEF Job
    <3> HIDE DEF j
    <3> QED
      BY <1>2, <2>3, <3>1, <3>2 DEF JobOK, PlaceOK
  <2> QED
    BY <2>1, <2>2, <2>3
<1>5. /\ job' = [job EXCEPT ![t] = j] /\ Counted'
      /\ UNCHANGED <<outside, rows, mail>>
  <2> HIDE DEF j
  <2> QED
    BY <1>1, OverlapIsCause
       DEF Loads, Becomes, Blame, Counted, TypeInv, TypeOK
<1> HIDE DEF j
<1> QED
  BY <1>4, <1>5, InnerTypes DEF o

LEMMA AfterOK ==
  ASSUME TypeInv, NEW t \in Thread, NEW j, JobOK(t, j, pdn),
         j.at \in {"find", "commit", "delete", "copy"},
         j.at = "find" => j.kind # "call"
  PROVE  /\ After(j) \in {"respond", "send", "sweep", "answer"}
         /\ After(j) = "respond" <=> j.from # None
         /\ After(j) = "send" => j.kind = "call"
         /\ After(j) = "sweep" <=> j.kind = "sweep" /\ j.from = None
         /\ JobOK(t, [j EXCEPT !.at = After(j)], pdn)
<1>1. /\ j.kind \in {"set", "clear", "call", "sweep"}
      /\ j.from # None => j.kind \in {"set", "clear"}
  BY DEF JobOK, PlaceOK, Job
<1>2. /\ After(j) \in {"respond", "send", "sweep", "answer"}
      /\ After(j) = "respond" <=> j.from # None
      /\ After(j) = "send" => j.kind = "call"
      /\ After(j) = "sweep" <=> j.kind = "sweep" /\ j.from = None
      /\ After(j) = "answer" => j.kind \in {"set", "clear"} /\ j.from = None
  BY <1>1 DEF After
<1> DEFINE k == [j EXCEPT !.at = After(j)]
<1>3. /\ k \in Job /\ k.at = After(j) /\ k.kind = j.kind /\ k.c = j.c
      /\ k.from = j.from /\ k.cols = j.cols
  BY <1>2 DEF JobOK, Job
<1> HIDE DEF k
<1>4. JobOK(t, k, pdn)
  BY <1>1, <1>2, <1>3 DEF JobOK, PlaceOK
<1> QED
  BY <1>2, <1>4 DEF k

LEMMA FindTypes ==
  ASSUME TypeInv, NEW t \in Thread, Find(t)
  PROVE  TypeInv'
<1> DEFINE o == job[t]
           x == First(Sought(SiteOf[t], o))
           at == IF o.kind # "clear" THEN "commit"
                 ELSE IF x = NoRow THEN After(o) ELSE "delete"
           j == [o EXCEPT !.old = x, !.at = at]
<1>1. o.at = "find" /\ Loads(t, j)
  BY DEF Find
<1>2. /\ o \in Job /\ JobOK(t, o, pdn) /\ o.kind \in {"set", "clear", "call"}
      /\ Real(o.cols, pdn)
  BY <1>1, Typed DEF JobOK, PlaceOK
<1>3. /\ x \in Row
      /\ x # NoRow => Real(x.cols, pdn)
  <2>1. Sought(SiteOf[t], o) \subseteq rows[SiteOf[t]]
    BY DEF Sought
  <2> HIDE DEF o
  <2> QED
    BY <2>1, ByIdTyped
<1>4. /\ o.kind = "clear" =>
           /\ After(o) \in {"respond", "send", "sweep", "answer"}
           /\ JobOK(t, [o EXCEPT !.at = After(o)], pdn)
  BY <1>1, <1>2, AfterOK
<1> HIDE DEF x, o
<1>5. /\ JobOK(t, j, pdn) /\ j.kind = o.kind /\ j.c = o.c /\ j.from = o.from
      /\ j.cols = o.cols
  <2>1. at \in {"commit", "delete", "respond", "send", "sweep", "answer"}
    BY <1>4
  <2>2. /\ j \in Job /\ j.at = at /\ j.kind = o.kind /\ j.c = o.c
        /\ j.from = o.from /\ j.cols = o.cols /\ j.old = x
    <3> HIDE DEF at
    <3>1. j = LoadsRow(o, x, at)
      BY DEF LoadsRow
    <3> HIDE DEF j
    <3>2. o \in Job /\ x \in Row
      BY <1>2, <1>3
    <3>3. at \in Places
      BY <2>1 DEF Places
    <3>4. j \in Job /\ j.at = at /\ SameWork(j, o) /\ j.old = x
      BY <3>1, <3>2, <3>3, JobLoads
    <3> QED
      BY <3>4 DEF SameWork
  <2>3. CASE at = "commit"
    <3>1. o.kind \in {"set", "call"}
      BY <1>2, <1>4, <2>3
    <3> HIDE DEF j, at
    <3> QED
      BY <1>1, <1>2, <1>3, <2>2, <2>3, <3>1 DEF JobOK, PlaceOK
  <2>4. CASE at = "delete"
    <3>1. o.kind = "clear" /\ x # NoRow
      BY <1>2, <1>4, <2>4
    <3> HIDE DEF j, at
    <3> QED
      BY <1>1, <1>2, <1>3, <2>2, <2>4, <3>1 DEF JobOK, PlaceOK
  <2>5. CASE o.kind = "clear" /\ at = After(o)
    <3> DEFINE k == [o EXCEPT !.at = After(o)]
    <3>1. /\ JobOK(t, k, pdn) /\ k.at = After(o) /\ k.kind = o.kind
          /\ k.c = o.c /\ k.from = o.from /\ k.cols = o.cols
      BY <1>2, <1>4, <2>5 DEF Job
    <3>2. After(o) \notin {"commit", "delete", "copy"}
      BY <1>4, <2>5
    <3> HIDE DEF j, at, k
    <3> QED
      BY <1>1, <1>2, <2>2, <2>5, <3>1, <3>2 DEF JobOK, PlaceOK
  <2> QED
    BY <2>1, <2>3, <2>4, <2>5
<1>6. /\ job' = [job EXCEPT ![t] = j] /\ Counted'
      /\ UNCHANGED <<outside, rows, mail>>
  <2> HIDE DEF j
  <2> QED
    BY <1>1, OverlapIsCause
       DEF Loads, Becomes, Blame, Counted, TypeInv, TypeOK
<1> HIDE DEF j
<1> QED
  BY <1>5, <1>6, InnerTypes DEF o

LEMMA MergedOK ==
  ASSUME NEW a \in Columns, NEW b, NEW c \in Columns
  PROVE  /\ Merged(a, b, c) \in Columns
         /\ Merged(a, b, c).ue \in {a.ue, c.ue}
         /\ Merged(a, b, c).s \in {a.s, c.s}
         /\ Merged(a, b, c).ip \in {a.ip, c.ip}
         /\ a = b => Merged(a, b, c) = c
<1>1. DOMAIN a = {"ue", "s", "ip", "stamp", "rx"} /\ DOMAIN c = DOMAIN a
  BY DEF Columns
<1>2. Merged(a, b, c) = [ue |-> IF c.ue = b.ue THEN a.ue ELSE c.ue,
                         s |-> IF c.s = b.s THEN a.s ELSE c.s,
                         ip |-> IF c.ip = b.ip THEN a.ip ELSE c.ip,
                         stamp |-> IF c.stamp = b.stamp THEN a.stamp
                                   ELSE c.stamp,
                         rx |-> IF c.rx = b.rx THEN a.rx ELSE c.rx]
  BY <1>1 DEF Merged
<1>3. c = [ue |-> c.ue, s |-> c.s, ip |-> c.ip, stamp |-> c.stamp,
           rx |-> c.rx]
  BY DEF Columns
<1> QED
  BY <1>2, <1>3 DEF Columns

LEMMA FreshOK ==
  ASSUME TypeInv, NEW t \in Thread, job[t].at = "commit"
  PROVE  /\ Fresh(t) \in Row /\ Fresh(t).id \in Nat /\ Fresh(t).id # 0
         /\ Fresh(t).cols = job[t].cols /\ Real(Fresh(t).cols, pdn)
         /\ \A x \in rows[SiteOf[t]] : x.id # Fresh(t).id
         /\ RowsOK(rows[SiteOf[t]] \cup {Fresh(t)}, pdn)
<1>1. /\ Fresh(t).id \in Nat \ {0}
      /\ \A x \in rows[SiteOf[t]] : x.id < Fresh(t).id
  BY Typed, NewNumber DEF Fresh
<1>2. job[t].cols \in Columns /\ Real(job[t].cols, pdn)
  BY Typed DEF JobOK, PlaceOK, Job
<1>3. Fresh(t) \in Row /\ Fresh(t).cols = job[t].cols
  BY <1>1, <1>2 DEF Fresh, Row
<1>4. \A x \in rows[SiteOf[t]] : x.id # Fresh(t).id
  BY <1>1, Typed DEF Row
<1> QED
  BY <1>1, <1>2, <1>3, <1>4, Typed, OneMoreRow

LEMMA RewrittenOK ==
  ASSUME TypeInv, NEW t \in Thread, job[t].at = "commit"
  PROVE  /\ \A x \in rows[SiteOf[t]] :
              /\ Rewritten(t, x) \in Row /\ Rewritten(t, x).id = x.id
              /\ x.id # job[t].old.id => Rewritten(t, x) = x
              /\ x = job[t].old => Rewritten(t, x).cols = job[t].cols
         /\ RowsOK({Rewritten(t, x) : x \in rows[SiteOf[t]]}, pdn)
<1> DEFINE R == rows[SiteOf[t]]
<1>1. job[t].cols \in Columns /\ Real(job[t].cols, pdn)
  BY Typed DEF JobOK, PlaceOK, Job
<1>2. ASSUME NEW x \in R
      PROVE  /\ Rewritten(t, x) \in Row /\ Rewritten(t, x).id = x.id
             /\ x.id # job[t].old.id => Rewritten(t, x) = x
             /\ x = job[t].old => Rewritten(t, x).cols = job[t].cols
             /\ Real(Rewritten(t, x).cols, pdn)
  <2>1. x \in Row /\ x.cols \in Columns /\ Real(x.cols, pdn)
    BY Typed DEF Row, RowsOK
  <2> DEFINE m == Merged(x.cols, job[t].old.cols, job[t].cols)
  <2>2. /\ m \in Columns /\ m.ue \in {x.cols.ue, job[t].cols.ue}
        /\ m.s \in {x.cols.s, job[t].cols.s}
        /\ m.ip \in {x.cols.ip, job[t].cols.ip}
        /\ x.cols = job[t].old.cols => m = job[t].cols
    BY <1>1, <2>1, MergedOK
  <2>3. Real(m, pdn)
    BY <1>1, <2>1, <2>2 DEF Real
  <2> HIDE DEF m
  <2>4. /\ [x EXCEPT !.cols = m] \in Row
        /\ [x EXCEPT !.cols = m].id = x.id
        /\ [x EXCEPT !.cols = m].cols = m
    BY <2>1, <2>2 DEF Row
  <2>5. Rewritten(t, x) \in {x, [x EXCEPT !.cols = m]}
    BY DEF Rewritten, m
  <2>6. x = job[t].old => Rewritten(t, x) = [x EXCEPT !.cols = m]
    BY DEF Rewritten, m
  <2>7. x.id # job[t].old.id => Rewritten(t, x) = x
    BY DEF Rewritten
  <2> QED
    BY <2>1, <2>2, <2>3, <2>4, <2>5, <2>6, <2>7
<1>3. RowsOK({Rewritten(t, x) : x \in R}, pdn)
  <2>1. RowsOK(R, pdn)
    BY Typed
  <2> HIDE DEF R
  <2> QED
    BY <1>2, <2>1 DEF RowsOK
<1> QED
  BY <1>2, <1>3

\* What Commit does to the rows, and where it leaves the handler.
LEMMA CommitRows ==
  ASSUME TypeInv, NEW t \in Thread, Commit(t)
  PROVE  LET R == rows[SiteOf[t]]
             o == job[t]
             stored == IF o.from = None THEN "copy" ELSE "respond"
         IN  /\ rows' \in [Site -> SUBSET Row]
             /\ Others(t)
             /\ \/ /\ o.old = NoRow
                   /\ rows'[SiteOf[t]] = R \cup {Fresh(t)}
                   /\ job' = [job EXCEPT ![t] =
                        [o EXCEPT !.old = [o.old EXCEPT !.id = Fresh(t).id],
                                  !.at = stored]]
                \/ /\ o.old # NoRow
                   /\ \A x \in R : x.id # o.old.id
                   /\ UNCHANGED rows
                   /\ job' = [job EXCEPT ![t] = [o EXCEPT !.at = After(o)]]
                \/ /\ o.old # NoRow
                   /\ \E x \in R : x.id = o.old.id
                   /\ rows'[SiteOf[t]] = {Rewritten(t, x) : x \in R}
                   /\ job' = [job EXCEPT ![t] = [o EXCEPT !.at = stored]]
<1> DEFINE h == SiteOf[t]
           R == rows[SiteOf[t]]
           o == job[t]
           stored == IF o.from = None THEN "copy" ELSE "respond"
<1>1. /\ o.at = "commit" /\ o \in Job /\ h \in Site
      /\ rows \in [Site -> SUBSET Row] /\ job \in [Thread -> Job]
  BY Typed DEF Commit, TypeInv, TypeOK
<1>2. CASE o.old = NoRow
  <2>1. /\ rows' = [rows EXCEPT ![h] = @ \cup {Fresh(t)}]
        /\ job' = [job EXCEPT ![t] =
                     [o EXCEPT !.old.id = Fresh(t).id, !.at = stored]]
    BY <1>2 DEF Commit, Becomes, Fresh, Ids
  <2>2. [o EXCEPT !.old.id = Fresh(t).id, !.at = stored]
          = [o EXCEPT !.old = [o.old EXCEPT !.id = Fresh(t).id],
                      !.at = stored]
    BY <1>1 DEF Job
  <2>3. Fresh(t) \in Row
    BY <1>1, FreshOK
  <2> QED
    BY <1>1, <1>2, <2>1, <2>2, <2>3 DEF Others
<1>3. CASE o.old # NoRow /\ ById(h, o.old.id) = {}
  <2>1. \A x \in R : x.id # o.old.id
    BY <1>3 DEF ById
  <2>2. UNCHANGED rows /\ job' = [job EXCEPT ![t].at = After(o)]
    BY <1>3 DEF Commit, Goes
  <2> QED
    BY <1>1, <1>3, <2>1, <2>2 DEF Others
<1>4. CASE o.old # NoRow /\ ById(h, o.old.id) # {}
  <2>1. \E x \in R : x.id = o.old.id
    BY <1>4 DEF ById
  <2>2. /\ rows' = [rows EXCEPT ![h] = {Rewritten(t, x) : x \in @}]
        /\ job' = [job EXCEPT ![t].at = stored]
    BY <1>4 DEF Commit, Goes, Rewritten
  <2>3. {Rewritten(t, x) : x \in R} \subseteq Row
    BY <1>1, RewrittenOK
  <2> QED
    BY <1>1, <1>4, <2>1, <2>2, <2>3 DEF Others
<1> QED
  BY <1>2, <1>3, <1>4

LEMMA CommitTypes ==
  ASSUME TypeInv, NEW t \in Thread, Commit(t)
  PROVE  TypeInv'
<1> DEFINE o == job[t]
           stored == IF o.from = None THEN "copy" ELSE "respond"
           i == [o EXCEPT !.old = [o.old EXCEPT !.id = Fresh(t).id],
                          !.at = stored]
           j == [o EXCEPT !.at = After(o)]
           k == [o EXCEPT !.at = stored]
<1>1. /\ o.at = "commit" /\ o \in Job /\ JobOK(t, o, pdn)
      /\ o.kind \in {"set", "call"} /\ Real(o.cols, pdn)
      /\ UNCHANGED <<outside, mail>> /\ Counted'
      /\ o.old \in Row
  BY Typed DEF Commit, Writes, JobOK, PlaceOK, Counted, TypeInv, TypeOK, Job
<1>2. Fresh(t).id \in Nat
  BY <1>1, FreshOK
<1>3. /\ i \in Job /\ i.at = stored /\ i.kind = o.kind /\ i.c = o.c
      /\ i.from = o.from /\ i.cols = o.cols
  <2>1. [o.old EXCEPT !.id = Fresh(t).id] \in Row
    BY <1>1, <1>2 DEF Row
  <2> QED
    BY <1>1, <2>1, JobFields DEF Job
<1>4. /\ k \in Job /\ k.at = stored /\ k.kind = o.kind /\ k.c = o.c
      /\ k.from = o.from /\ k.cols = o.cols
  BY <1>1, JobFields DEF Job
<1>5. /\ JobOK(t, j, pdn) /\ j.kind = o.kind /\ j.c = o.c
      /\ j.from = o.from /\ j.cols = o.cols
  BY <1>1, AfterOK DEF Job
<1> HIDE DEF i, k
<1>6. JobOK(t, i, pdn) /\ JobOK(t, k, pdn)
  <2> HIDE DEF o
  <2> QED
    BY <1>1, <1>3, <1>4 DEF JobOK, PlaceOK
<1>7. PICK q \in {i, j, k} : job' = [job EXCEPT ![t] = q]
  BY CommitRows DEF i, k
<1>8. /\ JobOK(t, q, pdn) /\ q.kind = o.kind /\ q.c = o.c
      /\ q.from = o.from /\ q.cols = o.cols
  BY <1>3, <1>4, <1>5, <1>6
<1>9. /\ rows' \in [Site -> SUBSET Row]
      /\ \A h \in Site : RowsOK(rows'[h], pdn)
  <2>1. /\ rows' \in [Site -> SUBSET Row] /\ Others(t)
        /\ rows'[SiteOf[t]] \in
             {rows[SiteOf[t]], rows[SiteOf[t]] \cup {Fresh(t)},
              {Rewritten(t, x) : x \in rows[SiteOf[t]]}}
    BY CommitRows
  <2>2. RowsOK(rows'[SiteOf[t]], pdn)
    BY <1>1, <2>1, FreshOK, RewrittenOK, Typed
  <2> QED
    BY <2>1, <2>2 DEF TypeInv, Others
<1> HIDE DEF o, j
<1> QED
  BY <1>1, <1>7, <1>8, <1>9, InnerTypes DEF o

\* What Delete does.
LEMMA DeleteRows ==
  ASSUME TypeInv, NEW t \in Thread, Delete(t)
  PROVE  LET o == job[t]
         IN  /\ rows' \in [Site -> SUBSET Row]
             /\ Others(t)
             /\ rows'[SiteOf[t]] = {x \in rows[SiteOf[t]] : x.id # o.old.id}
             /\ job' = [job EXCEPT ![t] =
                  [o EXCEPT !.at = IF o.from = None THEN "copy"
                                   ELSE "respond"]]
BY EmergencyAssumption DEF TypeInv, TypeOK, Delete, Goes, Others

LEMMA DeleteTypes ==
  ASSUME TypeInv, NEW t \in Thread, Delete(t)
  PROVE  TypeInv'
<1> DEFINE o == job[t]
           j == [o EXCEPT !.at = IF o.from = None THEN "copy" ELSE "respond"]
<1>1. /\ o.at = "delete" /\ o \in Job /\ JobOK(t, o, pdn)
      /\ o.kind \in {"clear", "sweep"} /\ Real(o.old.cols, pdn)
      /\ UNCHANGED <<outside, mail>> /\ Counted'
  BY Typed DEF Delete, Writes, JobOK, PlaceOK, Counted, TypeInv, TypeOK
<1>2. /\ j \in Job /\ j.at = IF o.from = None THEN "copy" ELSE "respond"
      /\ j.kind = o.kind /\ j.c = o.c /\ j.from = o.from /\ j.cols = o.cols
      /\ j.old = o.old
  BY <1>1, JobFields DEF Job
<1>3. JobOK(t, j, pdn)
  <2> HIDE DEF o, j
  <2> QED
    BY <1>1, <1>2 DEF JobOK, PlaceOK
<1>4. job' = [job EXCEPT ![t] = j]
  BY DeleteRows
<1>5. /\ rows' \in [Site -> SUBSET Row]
      /\ \A h \in Site : RowsOK(rows'[h], pdn)
  <2>1. RowsOK(rows'[SiteOf[t]], pdn)
    BY DeleteRows, Typed, FewerRows
  <2> QED
    BY <2>1, DeleteRows DEF TypeInv, Others
<1> HIDE DEF o, j
<1> QED
  BY <1>1, <1>2, <1>3, <1>4, <1>5, InnerTypes DEF o

LEMMA CopyOfOK ==
  ASSUME TypeInv, NEW t \in Thread, job[t].at = "copy", NEW h
  PROVE  LET o == job[t] IN
         \/ CopyOf(h, o) = << >>
         \/ \E c \in Copy :
              /\ CopyOf(h, o) = <<c>>
              /\ Real(c.cols, pdn)
              /\ \/ /\ c.kind = "set" /\ c.cols = o.cols
                    /\ o.kind \in {"set", "call"}
                 \/ /\ c.kind = "clear" /\ c.cols = o.old.cols
                    /\ o.kind \in {"clear", "sweep"}
<1> DEFINE o == job[t]
<1>1. /\ o \in Job /\ o.kind \in {"set", "clear", "call", "sweep"}
      /\ o.kind # "sweep" => Real(o.cols, pdn)
      /\ o.kind \in {"clear", "sweep"} => Real(o.old.cols, pdn)
  BY Typed DEF JobOK, PlaceOK, Job
<1>2. o.cols \in Columns /\ o.old.cols \in Columns
  BY <1>1 DEF Job, Row
<1> HIDE DEF o
<1>3. CASE o.kind \in {"clear", "sweep"}
  <2> DEFINE c == [kind |-> "clear", cols |-> o.old.cols]
  <2>1. c \in Copy /\ c.cols = o.old.cols /\ c.kind = "clear"
    BY <1>2 DEF Copy
  <2>2. CopyOf(h, o) = <<c>>
    BY <1>3 DEF CopyOf
  <2> HIDE DEF c
  <2> QED
    BY <1>1, <1>3, <2>1, <2>2 DEF o
<1>4. CASE o.kind \notin {"clear", "sweep"}
  <2> DEFINE c == [kind |-> "set", cols |-> o.cols]
  <2>1. c \in Copy /\ c.cols = o.cols /\ c.kind = "set"
    BY <1>2 DEF Copy
  <2>2. CopyOf(h, o) = << >> \/ CopyOf(h, o) = <<c>>
    BY <1>4 DEF CopyOf
  <2> HIDE DEF c
  <2> QED
    BY <1>1, <1>4, <2>1, <2>2 DEF o
<1> QED
  BY <1>3, <1>4

\* A queue that gets a copy, and one whose head is taken off.
LEMMA QueueEnds ==
  ASSUME NEW m \in Seq(Copy), NEW c \in Copy
  PROVE  /\ m \o <<c>> \in Seq(Copy) /\ Len(m \o <<c>>) = Len(m) + 1
         /\ \A i \in 1 .. Len(m) : (m \o <<c>>)[i] = m[i]
         /\ (m \o <<c>>)[Len(m) + 1] = c
         /\ m # << >> => m \o <<c>> # << >> /\ Head(m \o <<c>>) = Head(m)
<1>1. /\ m \o <<c>> \in Seq(Copy) /\ Len(m \o <<c>>) = Len(m) + 1
      /\ \A i \in 1 .. Len(m) : (m \o <<c>>)[i] = m[i]
      /\ (m \o <<c>>)[Len(m) + 1] = c
  BY ConcatProperties
<1>2. ASSUME m # << >>
      PROVE  m \o <<c>> # << >> /\ Head(m \o <<c>>) = Head(m)
  <2>1. Len(m) \in Nat /\ Len(m) # 0 /\ 1 \in 1 .. Len(m)
    BY <1>2, EmptySeq
  <2>2. m \o <<c>> # << >>
    BY <1>1, <2>1, EmptySeq
  <2> QED
    BY <1>1, <1>2, <2>1, <2>2, HeadTailProperties
<1> QED
  BY <1>1, <1>2

LEMMA QueueBegins ==
  ASSUME NEW m \in Seq(Copy), m # << >>
  PROVE  /\ Tail(m) \in Seq(Copy) /\ Len(Tail(m)) = Len(m) - 1
         /\ \A i \in 1 .. Len(Tail(m)) : /\ Tail(m)[i] = m[i + 1]
                                         /\ i + 1 \in 1 .. Len(m)
         /\ Head(m) = m[1] /\ Head(m) \in Copy
         /\ 1 \in 1 .. Len(m) /\ Len(m) \in Nat
<1>1. /\ Tail(m) \in Seq(Copy) /\ Len(Tail(m)) = Len(m) - 1
      /\ \A i \in 1 .. Len(Tail(m)) : Tail(m)[i] = m[i + 1]
      /\ Head(m) = m[1] /\ 1 \in 1 .. Len(m) /\ Len(m) \in Nat
  BY HeadTailProperties, EmptySeq
<1> QED
  BY <1>1, ElementOfSeq

LEMMA QueueMail ==
  ASSUME TypeInv, NEW t \in Thread, QueueCopy(t)
  PROVE  /\ MailTyped'
         /\ \A h, g \in Site :
              IF h = SiteOf[t] /\ g # h
              THEN mail'[h][g] = mail[h][g] \o CopyOf(SiteOf[t], job[t])
              ELSE mail'[h][g] = mail[h][g]
         /\ \A h, g \in Site : mail[h][g] # << >> =>
              mail'[h][g] # << >> /\ Head(mail'[h][g]) = Head(mail[h][g])
<1> DEFINE h == SiteOf[t]
           C == CopyOf(h, job[t])
<1>1. /\ h \in Site /\ mail \in [Site -> [Site -> Seq(Copy)]]
      /\ \A f, g \in Site : mail[f][g] \in Seq(Copy)
      /\ \A f, g \in Site : MailOK(mail[f][g], pdn)
      /\ \A f \in Site : mail[f][f] = << >>
      /\ UNCHANGED pdn
  BY Typed DEF TypeInv, TypeOK, QueueCopy, outside
<1>2. mail' = [mail EXCEPT ![h] = [g \in Site |->
                 IF g = h THEN mail[h][g] ELSE mail[h][g] \o C]]
  BY DEF QueueCopy
<1>3. \A f, g \in Site :
        IF f = h /\ g # f
        THEN mail'[f][g] = mail[f][g] \o C
        ELSE mail'[f][g] = mail[f][g]
  BY <1>1, <1>2
<1>4. \A m \in Seq(Copy) : MailOK(m, pdn) =>
        /\ m \o C \in Seq(Copy)
        /\ MailOK(m \o C, pdn)
        /\ m # << >> => m \o C # << >> /\ Head(m \o C) = Head(m)
  <2> TAKE m \in Seq(Copy)
  <2>0. job[t].at = "copy"
    BY DEF QueueCopy
  <2>1. CASE C = << >>
    <3>1. m \o C = m
      BY <2>1, ConcatEmptySeq
    <3> QED
      BY <3>1
  <2>3. \/ C = << >>
        \/ \E c \in Copy : C = <<c>> /\ Real(c.cols, pdn)
    BY <2>0, CopyOfOK
  <2> HIDE DEF C
  <2>2. ASSUME NEW c \in Copy, C = <<c>>, Real(c.cols, pdn), MailOK(m, pdn)
        PROVE  MailOK(m \o C, pdn)
    <3>1. \A i \in 1 .. Len(m) + 1 : i \in 1 .. Len(m) \/ i = Len(m) + 1
      OBVIOUS
    <3> QED
      BY <2>2, <3>1, QueueEnds DEF MailOK
  <2> QED
    BY <2>1, <2>2, <2>3, QueueEnds
<1> HIDE DEF C
<1>5. \A f, g \in Site : /\ mail'[f][g] \in Seq(Copy)
                         /\ MailOK(mail'[f][g], pdn)
                         /\ mail[f][g] # << >> =>
                              /\ mail'[f][g] # << >>
                              /\ Head(mail'[f][g]) = Head(mail[f][g])
  <2> TAKE f, g \in Site
  <2>1. mail'[f][g] \in {mail[f][g], mail[f][g] \o C}
    BY <1>3
  <2>2. mail[f][g] \in Seq(Copy) /\ MailOK(mail[f][g], pdn)
    BY <1>1
  <2> QED
    BY <1>4, <2>1, <2>2
<1>6. mail' \in [Site -> [Site -> Seq(Copy)]]
  <2>1. \A g \in Site : (IF g = h THEN mail[h][g] ELSE mail[h][g] \o C)
                          \in Seq(Copy)
    BY <1>1, <1>4
  <2> QED
    BY <1>1, <1>2, <2>1
<1>7. \A f \in Site : mail'[f][f] = << >>
  BY <1>1, <1>3
<1>8. MailTyped'
  BY <1>1, <1>5, <1>6, <1>7 DEF MailTyped
<1>9. \A f, g \in Site : mail[f][g] # << >> =>
        mail'[f][g] # << >> /\ Head(mail'[f][g]) = Head(mail[f][g])
  BY <1>5
<1> QED
  BY <1>3, <1>8, <1>9 DEF C

LEMMA QueueTypes ==
  ASSUME TypeInv, NEW t \in Thread, QueueCopy(t)
  PROVE  TypeInv'
<1> DEFINE o == job[t]
           j == [o EXCEPT !.at = After(o)]
<1>1. /\ o.at = "copy" /\ o \in Job /\ JobOK(t, o, pdn)
      /\ UNCHANGED <<outside, rows>> /\ Counted'
      /\ job' = [job EXCEPT ![t] = j] /\ o.from = None
  BY Typed DEF QueueCopy, Goes, JobOK, PlaceOK, Counted, TypeInv, TypeOK
<1>2. JobOK(t, j, pdn) /\ j.kind = o.kind /\ j.c = o.c /\ j.from = None
  BY <1>1, AfterOK DEF Job
<1> HIDE DEF j
<1>3. HandInv'
  BY <1>1, <1>2, QueueMail, HandKept
<1>4. OutsideTyped'
  BY <1>1 DEF TypeInv, TypeOK, OutsideTyped, CurrentInv, outside, CallType
<1>5. Grows(pdn, pdn') /\ JobOK(t, j, pdn')
  BY <1>1, <1>2, SameSessions DEF TypeInv, TypeOK, outside
<1>6. CallInv'
  <2>1. j.kind \in {"call", "str"} => call[j.c].at # "new" /\ j.c \in Call
    BY <1>1, <1>2 DEF TypeInv, CallInv, JobOK, PlaceOK
  <2> QED
    BY <1>1, <1>5, <2>1, CallsKept DEF outside
<1> QED
  BY <1>1, <1>3, <1>4, <1>5, <1>6, QueueMail, StepTypes

\* Whatever comes of a RAR, the handler answers, and no bearer or RAR is new
\* that is not of its call and of the session in its row.
LEMMA SentIs ==
  ASSUME TypeInv, NEW t \in Thread, Sent(t)
  PROVE  LET o == job[t]
         IN  /\ o.at = "send" /\ o \in Job /\ JobOK(t, o, pdn)
             /\ o.from = None /\ Real(o.cols, pdn)
             /\ o.kind \in {"call", "str"} /\ o.c \in Call
             /\ o.cols.s \in Session
             /\ UNCHANGED <<pdn, current, call, clock, rows, mail, cause>>
             /\ faults' \in Nat /\ UNCHANGED requests
             /\ \E ok \in BOOLEAN : job' = [job EXCEPT ![t] = Answered(o, ok)]
             /\ bearers' \subseteq bearers \cup {b \in Bearer :
                                                b[1] = o.cols.s /\ b[2] = o.c}
             /\ \A b \in bearers' :
                  \/ b \in bearers
                  \/ o.kind = "call" /\ pdn[o.cols.s].at = "up"
                  \/ \E a \in bearers : a[1] = b[1] /\ a[2] = b[2]
<1> DEFINE o == job[t]
           s == o.cols.s
           new == {b \in Bearer : b[1] = s /\ b[2] = o.c}
<1>1. /\ o.at = "send" /\ o \in Job /\ JobOK(t, o, pdn)
      /\ UNCHANGED <<pdn, current, call, clock, rows, mail, cause>>
      /\ faults' \in Nat /\ UNCHANGED requests
  <2>1. faults \in Nat
    BY DEF TypeInv, TypeOK
  <2>2. CASE Send(t)
    BY Typed, <2>1, <2>2 DEF Send
  <2>3. CASE SendFails(t)
    BY Typed, <2>1, <2>3 DEF SendFails, Fault
  <2> QED
    BY <2>2, <2>3 DEF Sent
<1>2. /\ o.from = None /\ Real(o.cols, pdn)
      /\ o.kind \in {"call", "str"} /\ o.c \in Call
  BY <1>1 DEF JobOK, PlaceOK
<1>3. s \in Session
  BY <1>2, SessionOf DEF Real
<1>4. \E ok \in BOOLEAN : job' = [job EXCEPT ![t] = Answered(o, ok)]
  <2>1. (pdn[s].at = "up") \in BOOLEAN
    OBVIOUS
  <2> QED
    BY <2>1 DEF Sent, Send, SendFails, Becomes
<1>5. bearers' \in {bearers, BearerAfter(o), bearers \cup OnItsWay(o)}
  BY DEF Sent, Send, SendFails
<1>6. \A x \in {"up", "install", "remove"} : <<s, o.c, x>> \in new
  BY <1>2, <1>3 DEF Bearer
<1>7. OnItsWay(o) \subseteq new
  BY <1>6 DEF OnItsWay
<1> HIDE DEF new, s, o
<1>8. BearerAfter(o) \subseteq bearers \cup new
  BY <1>6 DEF BearerAfter, s
<1>9. \A b \in OnItsWay(o) :
        \/ o.kind = "call" /\ pdn[s].at = "up"
        \/ \E a \in bearers : a[1] = b[1] /\ a[2] = b[2]
  BY <1>2 DEF OnItsWay, s
<1>10. \A b \in BearerAfter(o) :
         b \in bearers \/ (o.kind = "call" /\ pdn[s].at = "up")
  BY DEF BearerAfter, s
<1>11. /\ bearers' \subseteq bearers \cup new
       /\ \A b \in bearers' :
            \/ b \in bearers
            \/ o.kind = "call" /\ pdn[s].at = "up"
            \/ \E a \in bearers : a[1] = b[1] /\ a[2] = b[2]
  BY <1>5, <1>7, <1>8, <1>9, <1>10
<1> QED
  BY <1>1, <1>2, <1>3, <1>4, <1>11 DEF new, s, o

LEMMA SentTypes ==
  ASSUME TypeInv, NEW t \in Thread, Sent(t)
  PROVE  TypeInv'
<1> DEFINE o == job[t]
<1>1. PICK ok \in BOOLEAN : job' = [job EXCEPT ![t] = Answered(o, ok)]
  BY SentIs
<1> DEFINE j == Answered(o, ok)
<1>2. /\ o.at = "send" /\ o \in Job /\ JobOK(t, o, pdn)
      /\ UNCHANGED <<pdn, current, call, rows, mail>> /\ Counted'
      /\ job' = [job EXCEPT ![t] = j] /\ o.from = None
      /\ o.kind \in {"call", "str"} /\ o.c \in Call /\ Real(o.cols, pdn)
  BY <1>1, SentIs DEF Counted, TypeInv, TypeOK
<1>3. /\ j \in Job /\ j.at = "answer" /\ SameWork(j, o)
  BY <1>2, JobAnswers
<1>4. bearers' \subseteq bearers \cup {b \in Bearer :
                                      b[1] = o.cols.s /\ b[2] = o.c}
  BY SentIs
<1> HIDE DEF j, o
<1>5. JobOK(t, j, pdn)
  BY <1>2, <1>3 DEF JobOK, PlaceOK, SameWork
<1>6. HandInv'
  BY <1>2, <1>3, HandKept DEF SameWork
<1>7. OutsideTyped'
  BY <1>2, <1>4 DEF TypeInv, TypeOK, OutsideTyped, CurrentInv, CallType
<1>8. Grows(pdn, pdn') /\ JobOK(t, j, pdn')
  BY <1>2, <1>5, SameSessions DEF TypeInv, TypeOK
<1>9. CallInv'
  <2>1. call[o.c].at # "new" /\ o.cols.s \in 1 .. Len(pdn)
    BY <1>2 DEF TypeInv, CallInv, Real, o
  <2>2. \A b \in bearers' : b[1] \in 1 .. Len(pdn') /\ call'[b[2]].at # "new"
    BY <1>2, <1>4, <2>1 DEF TypeInv, CallInv
  <2>3. \A u \in Thread : job'[u].kind = job[u].kind /\ job'[u].c = job[u].c
    BY <1>2, <1>3 DEF o, TypeInv, TypeOK, SameWork
  <2> QED
    BY <1>2, <2>2, <2>3 DEF TypeInv, CallInv
<1> QED
  BY <1>2, <1>6, <1>7, <1>8, <1>9, StepTypes

LEMMA AnswerOutside ==
  ASSUME TypeInv, NEW t \in Thread, Answer(t)
  PROVE  /\ OutsideTyped' /\ Grows(pdn, pdn')
         /\ \A i \in 1 .. Len(pdn) : pdn[i].at = "over" => pdn'[i].at = "over"
                                     \/ job[t].cols.s = i
         /\ \A c \in Call : /\ call'[c].s = call[c].s
                            /\ call'[c].at = "new" <=> call[c].at = "new"
<1> DEFINE o == job[t]
           s == job[t].cols.s
           to == IF job[t].ok THEN "up" ELSE "over"
<1>1. /\ o.at = "answer" /\ o \in Job /\ JobOK(t, o, pdn)
      /\ o.from = None /\ Real(o.cols, pdn)
      /\ o.kind = "set" => Exact(o.cols, pdn)
      /\ o.kind \in {"call", "str"} => o.c \in Call /\ call[o.c].at # "new"
      /\ UNCHANGED bearers
  BY Typed DEF Answer, JobOK, PlaceOK, TypeInv, CallInv
<1>2. /\ pdn \in Seq(Pdn) /\ s \in 1 .. Len(pdn) /\ s \in Session
      /\ o.cols.ue \in Ue
  BY <1>1, SessionOf, Typed DEF Real
<1>3. /\ pdn' = IF o.kind # "set" THEN pdn
                ELSE [pdn EXCEPT ![s].at = to]
      /\ current' = IF o.kind # "set" \/ ~o.ok THEN current
                    ELSE [current EXCEPT ![o.cols.ue] = s]
      /\ call' = CASE o.kind = "str" -> [call EXCEPT ![o.c].at = "over"]
                   [] o.kind = "call" /\ call[o.c].at = "asked" ->
                        [call EXCEPT ![o.c].at =
                           IF o.ok THEN "up" ELSE "refused"]
                   [] OTHER -> call
  BY DEF Answer
<1>4. /\ pdn' \in Seq(Pdn) /\ Grows(pdn, pdn') /\ Len(pdn') = Len(pdn)
      /\ \A i \in 1 .. Len(pdn) : pdn[i].at = "over" => pdn'[i].at = "over"
                                  \/ s = i
  <2>1. CASE o.kind # "set"
    BY <1>2, <1>3, <2>1, SameSessions
  <2>2. CASE o.kind = "set"
    <3>1. pdn' = [pdn EXCEPT ![s].at = to] /\ to \in {"asked", "up", "over"}
      BY <1>3, <2>2
    <3> HIDE DEF s, to
    <3>2. /\ pdn' \in Seq(Pdn) /\ Len(pdn') = Len(pdn) /\ Grows(pdn, pdn')
          /\ \A i \in 1 .. Len(pdn) :
               pdn'[i].at = IF i = s THEN to ELSE pdn[i].at
      BY <1>2, <3>1, PdnChanged
    <3> QED
      BY <3>2
  <2> QED
    BY <2>1, <2>2
<1>5. current' \in [Ue -> Session \cup {None}] /\ CurrentInv'
  <2>1. /\ current \in [Ue -> Session \cup {None}]
        /\ \A u \in Ue : current[u] # None => /\ current[u] \in 1 .. Len(pdn)
                                              /\ pdn[current[u]].ue = u
    BY DEF TypeInv, TypeOK, CurrentInv
  <2>2. \A i \in 1 .. Len(pdn) : i \in 1 .. Len(pdn') /\ pdn'[i].ue = pdn[i].ue
    BY <1>4 DEF Grows
  <2>3. CASE o.kind # "set" \/ ~o.ok
    BY <1>3, <2>1, <2>2, <2>3 DEF CurrentInv
  <2>4. CASE o.kind = "set" /\ o.ok
    <3>1. pdn[s].ue = o.cols.ue
      BY <1>1, <2>4 DEF Exact
    <3>2. current' = [current EXCEPT ![o.cols.ue] = s]
      BY <1>3, <2>4
    <3> QED
      BY <1>2, <2>1, <2>2, <3>1, <3>2 DEF CurrentInv
  <2> QED
    BY <2>3, <2>4
<1>6. /\ call' \in [Call -> CallType]
      /\ \A c \in Call : /\ call'[c].s = call[c].s
                         /\ call'[c].at = "new" <=> call[c].at = "new"
  <2>1. call \in [Call -> CallType]
    BY DEF TypeInv, TypeOK, CallType
  <2>2. ASSUME NEW c \in Call, NEW at \in {"over", "up", "refused"},
               call[c].at # "new", call' = [call EXCEPT ![c].at = at]
        PROVE  <1>6!1 /\ <1>6!2
    <3>1. [call[c] EXCEPT !.at = at] \in CallType
      BY <2>1 DEF CallType
    <3>2. call' = [call EXCEPT ![c] = [call[c] EXCEPT !.at = at]]
      BY <2>2
    <3>3. /\ [call[c] EXCEPT !.at = at].s = call[c].s
          /\ [call[c] EXCEPT !.at = at].at = at
      BY <2>1 DEF CallType
    <3> QED
      BY <2>1, <2>2, <3>1, <3>2, <3>3
  <2>3. CASE UNCHANGED call
    BY <2>1, <2>3
  <2>4. CASE o.kind = "str"
    <3>1. call' = [call EXCEPT ![o.c].at = "over"]
      BY <1>3, <2>4
    <3> QED
      BY <1>1, <2>2, <2>4, <3>1
  <2>5. CASE o.kind = "call" /\ call[o.c].at = "asked"
    <3>1. call' = [call EXCEPT ![o.c].at = IF o.ok THEN "up" ELSE "refused"]
      BY <1>3, <2>5
    <3>2. (IF o.ok THEN "up" ELSE "refused") \in {"over", "up", "refused"}
      OBVIOUS
    <3> QED
      BY <1>1, <2>2, <2>5, <3>1, <3>2
  <2> QED
    BY <1>3, <2>3, <2>4, <2>5
<1>7. bearers' \subseteq Bearer
  BY <1>1 DEF TypeInv, TypeOK
<1> QED
  BY <1>4, <1>5, <1>6, <1>7 DEF OutsideTyped

LEMMA AnswerTypes ==
  ASSUME TypeInv, NEW t \in Thread, Answer(t)
  PROVE  TypeInv'
<1>1. /\ job' = [job EXCEPT ![t] = Sweeper(t)]
      /\ UNCHANGED <<bearers, rows, mail>> /\ Counted'
  BY DEF Answer, Becomes, Counted, TypeInv, TypeOK
<1>2. JobOK(t, Sweeper(t), pdn') /\ Sweeper(t).from = None
      /\ Sweeper(t).kind \notin {"call", "str"}
  BY SweeperOK
<1>3. HandInv'
  BY <1>1, <1>2, HandKept
<1>4. CallInv'
  BY <1>1, <1>2, AnswerOutside, CallsKept
<1> QED
  BY <1>1, <1>2, <1>3, <1>4, AnswerOutside, StepTypes

LEMMA SweepTypes ==
  ASSUME TypeInv, NEW t \in Thread, Another(t) \/ List(t) \/ Sweep(t)
  PROVE  TypeInv'
<1> DEFINE o == job[t]
<1>1. CASE Another(t)
  <2>1. /\ job' = [job EXCEPT ![t] = Sweeper(t)] /\ Counted'
        /\ UNCHANGED <<outside, rows, mail>>
    BY <1>1 DEF Another, Becomes, Reads, Counted, TypeInv, TypeOK
  <2>2. /\ JobOK(t, Sweeper(t), pdn) /\ Sweeper(t).from = None
        /\ Sweeper(t).kind \notin {"call", "str"}
    BY SweeperOK
  <2> QED
    BY <2>1, <2>2, InnerTypes
<1>2. CASE List(t)
  <2> DEFINE X == {x \in rows[SiteOf[t]] : Expired(x)}
             k == [o EXCEPT !.at = "sweep", !.todo = X]
  <2>1. /\ o.at = "list" /\ o \in Job /\ JobOK(t, o, pdn) /\ X \subseteq Row
        /\ o.from = None /\ o.kind = "sweep"
    BY <1>2, Typed DEF List, JobOK, PlaceOK
  <2>2. PICK j \in {Idle, k} : job' = [job EXCEPT ![t] = j]
    BY <1>2 DEF List, Becomes
  <2>3. /\ Counted' /\ UNCHANGED <<outside, rows, mail>>
    <3>1. PICK why \in {{}, {"expired"}} :
            cause' = cause \cup why \cup
                       OverlapOf(t, {<<x.cols.ue, x.cols.ip>> : x \in X}, None)
      BY <1>2 DEF List, Blame
    <3>2. cause' \subseteq Cause
      BY <3>1, OverlapIsCause DEF TypeInv, TypeOK, Cause
    <3> QED
      BY <1>2, <3>2 DEF List, Counted, TypeInv, TypeOK
  <2>4. /\ k \in Job /\ k.at = "sweep" /\ k.kind = "sweep" /\ k.from = None
    BY <2>1, JobFields DEF Job
  <2> HIDE DEF k
  <2>5. JobOK(t, k, pdn)
    BY <2>4 DEF JobOK, PlaceOK
  <2>6. /\ JobOK(t, j, pdn) /\ j.from = None
        /\ j.kind \notin {"call", "str"}
    BY <2>4, <2>5, IdleOK
  <2> HIDE DEF X
  <2> QED
    BY <2>2, <2>3, <2>6, InnerTypes
<1>3. CASE Sweep(t)
  <2> DEFINE x == First(o.todo)
             y == First(ById(SiteOf[t], x.id))
             k == [o EXCEPT !.todo = @ \ {x}, !.old = y,
                            !.at = IF y = NoRow THEN @ ELSE "delete"]
  <2>1. /\ o.at = "sweep" /\ o \in Job /\ JobOK(t, o, pdn)
        /\ o.from = None /\ o.kind = "sweep" /\ o.todo \subseteq Row
    BY <1>3, Typed, JobFields DEF Sweep, JobOK, PlaceOK
  <2>2. PICK j \in {Idle, k} : job' = [job EXCEPT ![t] = j]
    BY <1>3 DEF Sweep, Becomes
  <2>3. /\ Counted' /\ UNCHANGED <<outside, rows, mail>>
    BY <1>3 DEF Sweep, Reads, Counted, TypeInv, TypeOK
  <2>4. y \in Row /\ (y # NoRow => Real(y.cols, pdn))
    <3>1. ById(SiteOf[t], x.id) \subseteq rows[SiteOf[t]]
      BY DEF ById
    <3> HIDE DEF x
    <3> QED
      BY <3>1, ByIdTyped
  <2> HIDE DEF x, y
  <2>5. /\ k \in Job /\ k.kind = "sweep" /\ k.from = None /\ k.old = y
        /\ k.at = IF y = NoRow THEN "sweep" ELSE "delete"
    <3> DEFINE at == IF y = NoRow THEN "sweep" ELSE "delete"
    <3>1. k = Sweeps(o, x, y, at) /\ at \in {"sweep", "delete"}
      BY <2>1 DEF Sweeps
    <3> HIDE DEF k, at
    <3>2. o \in Job /\ y \in Row
      BY <2>1, <2>4
    <3>3. k \in Job /\ k.at = at /\ SameWork(k, o) /\ k.old = y
      BY <3>1, <3>2, JobSweeps
    <3> QED
      BY <2>1, <3>3 DEF at, SameWork
  <2> HIDE DEF k
  <2>6. JobOK(t, k, pdn)
    BY <2>4, <2>5 DEF JobOK, PlaceOK
  <2>7. /\ JobOK(t, j, pdn) /\ j.from = None
        /\ j.kind \notin {"call", "str"}
    BY <2>5, <2>6, IdleOK
  <2> QED
    BY <2>2, <2>3, <2>7, InnerTypes
<1> QED
  BY <1>1, <1>2, <1>3

\* Where a failure of the database leaves a handler.
LEMMA FailsWhere ==
  ASSUME TypeInv, NEW t \in Thread, DbFails(t)
  PROVE  LET o == job[t] IN
         /\ o.at \in {"get", "find", "commit", "delete", "list"}
         /\ \/ /\ o.at = "list" \/ (o.at = "find" /\ o.from # None)
               /\ job' = [job EXCEPT ![t] = Idle]
               /\ UNCHANGED cause
            \/ /\ o.at \in {"get", "find"} /\ o.from = None
               /\ \E ok \in BOOLEAN : job' = [job EXCEPT ![t] =
                    [o EXCEPT !.at = "answer", !.ok = ok]]
               /\ cause' = cause \cup {"lost"}
            \/ /\ o.at \in {"commit", "delete"}
               /\ job' = [job EXCEPT ![t] = [o EXCEPT !.at = After(o)]]
               /\ cause' = cause \cup {"lost"}
<1> DEFINE o == job[t]
           again == o.at = "list" \/ (o.at = "find" /\ o.from # None)
<1>1. /\ o.at \in {"get", "find", "commit", "delete", "list"}
      /\ job' = [job EXCEPT ![t] =
           CASE again -> Idle
             [] o.at = "get" -> [o EXCEPT !.at = "answer",
                                          !.ok = o.kind = "str"]
             [] o.at = "find" /\ ~again -> [o EXCEPT !.at = "answer",
                                                     !.ok = o.kind = "call"]
             [] OTHER -> [o EXCEPT !.at = After(o)]]
      /\ cause' = cause \cup (IF again THEN {} ELSE {"lost"})
  BY DEF DbFails, Becomes, Blame
<1>2. CASE again
  BY <1>1, <1>2
<1>3. CASE o.at = "get"
  <2>1. o.from = None
    BY <1>3, Typed DEF JobOK, PlaceOK
  <2>2. ~again
    BY <1>3
  <2>3. job' = [job EXCEPT ![t] = [o EXCEPT !.at = "answer",
                                            !.ok = o.kind = "str"]]
    BY <1>1, <1>3, <2>2
  <2>4. (o.kind = "str") \in BOOLEAN
    OBVIOUS
  <2> QED
    BY <1>1, <1>3, <2>1, <2>2, <2>3, <2>4
<1>4. CASE o.at = "find" /\ ~again
  <2>1. job' = [job EXCEPT ![t] = [o EXCEPT !.at = "answer",
                                            !.ok = o.kind = "call"]]
    BY <1>1, <1>4
  <2>2. (o.kind = "call") \in BOOLEAN
    OBVIOUS
  <2> QED
    BY <1>1, <1>4, <2>1, <2>2
<1>5. CASE o.at \in {"commit", "delete"}
  BY <1>1, <1>5
<1> QED
  BY <1>1, <1>2, <1>3, <1>4, <1>5

LEMMA FailsTypes ==
  ASSUME TypeInv, NEW t \in Thread, DbFails(t)
  PROVE  TypeInv'
<1> DEFINE o == job[t]
<1>1. o \in Job /\ JobOK(t, o, pdn)
  BY Typed
<1>2. Counted' /\ UNCHANGED <<outside, rows, mail>>
  <2>1. cause' \subseteq Cause
    BY FailsWhere DEF TypeInv, TypeOK, Cause
  <2> QED
    BY <2>1 DEF DbFails, Fault, Counted, TypeInv, TypeOK
<1>3. ASSUME job' = [job EXCEPT ![t] = Idle]
      PROVE  TypeInv'
  BY <1>2, <1>3, IdleOK, InnerTypes
<1>4. ASSUME NEW ok \in BOOLEAN, o.at \in {"get", "find"}, o.from = None,
             job' = [job EXCEPT ![t] = [o EXCEPT !.at = "answer", !.ok = ok]]
      PROVE  TypeInv'
  <2> DEFINE j == [o EXCEPT !.at = "answer", !.ok = ok]
  <2>1. /\ j \in Job /\ j.at = "answer" /\ j.kind = o.kind /\ j.c = o.c
        /\ j.from = o.from /\ j.cols = o.cols
    BY <1>1, JobFields DEF Job
  <2>2. job' = [job EXCEPT ![t] = j]
    BY <1>4
  <2> HIDE DEF j
  <2>3. JobOK(t, j, pdn)
    BY <1>1, <1>4, <2>1 DEF JobOK, PlaceOK
  <2> QED
    BY <1>2, <2>1, <2>2, <2>3, InnerTypes
<1>5. ASSUME o.at \in {"commit", "delete"},
             job' = [job EXCEPT ![t] = [o EXCEPT !.at = After(o)]]
      PROVE  TypeInv'
  <2> DEFINE j == [o EXCEPT !.at = After(o)]
  <2>1. /\ JobOK(t, j, pdn) /\ j.kind = o.kind /\ j.c = o.c
        /\ j.from = o.from /\ j.cols = o.cols
    BY <1>1, <1>5, AfterOK DEF Job
  <2>2. job' = [job EXCEPT ![t] = j]
    BY <1>5
  <2> HIDE DEF j
  <2> QED
    BY <1>2, <2>1, <2>2, InnerTypes
<1> QED
  BY <1>3, <1>4, <1>5, FailsWhere

LEMMA DiesTypes ==
  ASSUME TypeInv, NEW t \in Thread, Dies(t)
  PROVE  TypeInv'
<1>1. /\ job' = [job EXCEPT ![t] = Idle]
      /\ UNCHANGED <<current, call, bearers, rows, mail>> /\ Counted'
  BY DEF Dies, Becomes, Blame, Fault, Counted, TypeInv, TypeOK, Cause
<1>2. pdn' \in Seq(Pdn) /\ Grows(pdn, pdn')
  <2>1. pdn \in Seq(Pdn)
    BY Typed
  <2>2. CASE UNCHANGED pdn
    BY <2>1, <2>2, SameSessions
  <2>3. CASE pdn' = [pdn EXCEPT ![job[t].cols.s].at = "over"]
    BY <2>1, <2>3, PdnChanged
  <2> QED
    BY <2>2, <2>3 DEF Dies
<1>3. OutsideTyped'
  <2>1. CurrentInv'
    BY <1>1, <1>2, CurrentKept
  <2> QED
    BY <1>1, <1>2, <2>1 DEF OutsideTyped, TypeInv, TypeOK, CallType
<1>4. HandInv'
  BY <1>1, IdleOK, HandKept
<1>5. CallInv'
  BY <1>1, <1>2, IdleOK, CallsKept
<1> QED
  BY <1>1, <1>2, <1>3, <1>4, <1>5, IdleOK, StepTypes

\* The head of a queue goes.
LEMMA PopTypes ==
  ASSUME TypeInv, NEW h \in Site, NEW g \in Site, mail[h][g] # << >>,
         Pop(h, g), UNCHANGED pdn
  PROVE  /\ MailTyped'
         /\ \A f, e \in Site : mail'[f][e] = IF f = h /\ e = g
                                             THEN Tail(mail[h][g])
                                             ELSE mail[f][e]
<1>1. /\ mail \in [Site -> [Site -> Seq(Copy)]] /\ mail[h][g] \in Seq(Copy)
      /\ \A f, e \in Site : MailOK(mail[f][e], pdn)
      /\ \A f \in Site : mail[f][f] = << >>
  BY DEF TypeInv, TypeOK
<1>2. mail' = [mail EXCEPT ![h][g] = Tail(mail[h][g])]
  BY DEF Pop
<1>3. Tail(mail[h][g]) \in Seq(Copy)
  BY <1>1, QueueBegins
<1>4. /\ mail' \in [Site -> [Site -> Seq(Copy)]]
      /\ \A f, e \in Site : mail'[f][e] = IF f = h /\ e = g
                                          THEN Tail(mail[h][g])
                                          ELSE mail[f][e]
  BY <1>1, <1>2, <1>3
<1>5. MailOK(Tail(mail[h][g]), pdn)
  BY <1>1, QueueBegins DEF MailOK
<1>6. h # g
  BY <1>1
<1>7. MailTyped'
  BY <1>1, <1>4, <1>5, <1>6 DEF MailTyped
<1> QED
  BY <1>4, <1>7

\* A copy goes that no thread, or none but t, is at work on.
LEMMA HandPopped ==
  ASSUME TypeInv, NEW h \in Site, NEW g \in Site,
         \A f, e \in Site : mail'[f][e] = IF f = h /\ e = g
                                          THEN Tail(mail[h][g])
                                          ELSE mail[f][e],
         \A u \in Thread : job'[u].from # None =>
           job'[u] = job[u] /\ ~(job[u].from = h /\ SiteOf[u] = g)
  PROVE  HandInv'
<1> SUFFICES ASSUME NEW u \in Thread, job'[u].from # None
    PROVE  LET m == mail'[job'[u].from][SiteOf[u]] IN
           /\ m # << >>
           /\ Head(m) = [kind |-> job'[u].kind, cols |-> job'[u].cols]
           /\ \A v \in Thread :
                job'[v].from = job'[u].from /\ SiteOf[v] = SiteOf[u] => v = u
  BY DEF HandInv
<1>1. job'[u] = job[u] /\ ~(job[u].from = h /\ SiteOf[u] = g)
  OBVIOUS
<1>2. job[u].from \in Site /\ SiteOf[u] \in Site
  BY <1>1, Typed DEF Job
<1>3. mail'[job[u].from][SiteOf[u]] = mail[job[u].from][SiteOf[u]]
  BY <1>1, <1>2
<1>4. \A v \in Thread : job'[v].from = job'[u].from => job'[v] = job[v]
  BY <1>1
<1> QED
  BY <1>1, <1>3, <1>4 DEF TypeInv, HandInv

LEMMA RespondTypes ==
  ASSUME TypeInv, NEW t \in Thread, Respond(t)
  PROVE  TypeInv'
<1>1. /\ job' = [job EXCEPT ![t] = Idle] /\ job[t].at = "respond"
      /\ UNCHANGED <<outside, rows>> /\ Counted'
  BY DEF Respond, Becomes, Fault, Counted, TypeInv, TypeOK
<1>2. CASE UNCHANGED mail
  BY <1>1, <1>2, IdleOK, InnerTypes
<1>3. CASE Pop(job[t].from, SiteOf[t])
  <2>1. /\ job[t].from \in Site /\ SiteOf[t] \in Site /\ job[t].from # None
        /\ mail[job[t].from][SiteOf[t]] # << >>
    BY <1>1, Typed DEF JobOK, PlaceOK, Job, TypeInv, HandInv
  <2>2. UNCHANGED pdn
    BY <1>1 DEF outside
  <2>3. /\ MailTyped'
        /\ \A f, e \in Site : mail'[f][e] = IF f = job[t].from /\ e = SiteOf[t]
                                            THEN Tail(mail[f][e])
                                            ELSE mail[f][e]
    BY <1>3, <2>1, <2>2, PopTypes
  <2>4. HandInv'
    <3>1. \A u \in Thread : job'[u].from # None =>
            /\ job'[u] = job[u]
            /\ ~(job[u].from = job[t].from /\ SiteOf[u] = SiteOf[t])
      <4>1. \A u \in Thread : u = t \/ job'[u] = job[u]
        BY <1>1 DEF TypeInv, TypeOK
      <4>2. job'[t].from = None
        BY <1>1, IdleOK DEF TypeInv, TypeOK
      <4> QED
        BY <2>1, <4>1, <4>2 DEF TypeInv, HandInv
    <3> QED
      BY <2>1, <2>3, <3>1, HandPopped
  <2>5. OutsideTyped'
    BY <1>1 DEF TypeInv, TypeOK, OutsideTyped, CurrentInv, outside, CallType
  <2>6. Grows(pdn, pdn') /\ JobOK(t, Idle, pdn')
    BY <1>1, IdleOK, SameSessions DEF TypeInv, TypeOK, outside
  <2>7. CallInv'
    BY <1>1, <2>6, IdleOK, CallsKept DEF outside
  <2> QED
    BY <1>1, <2>3, <2>4, <2>5, <2>6, <2>7, StepTypes
<1> QED
  BY <1>2, <1>3 DEF Respond

LEMMA GiveUpTypes ==
  ASSUME TypeInv, NEW h \in Site, NEW g \in Site, GiveUp(h, g)
  PROVE  TypeInv'
<1>1. /\ mail[h][g] # << >> /\ ~InHand(h, g) /\ Pop(h, g) /\ Counted'
      /\ UNCHANGED <<outside, rows, job>>
  BY DEF GiveUp, Fault, Blame, Counted, TypeInv, TypeOK, Cause
<1>2. /\ MailTyped'
      /\ \A f, e \in Site : mail'[f][e] = IF f = h /\ e = g
                                          THEN Tail(mail[h][g])
                                          ELSE mail[f][e]
  BY <1>1, PopTypes DEF outside
<1>3. HandInv'
  <2>1. \A u \in Thread : job[u].from # None =>
          u \in Api /\ job[u].at # "idle"
    BY DEF TypeInv, JobOK, PlaceOK
  <2>2. \A u \in Thread : job'[u].from # None =>
          job'[u] = job[u] /\ ~(job[u].from = h /\ SiteOf[u] = g)
    BY <1>1, <2>1 DEF InHand, Busy
  <2> QED
    BY <1>2, <2>2, HandPopped
<1> QED
  BY <1>1, <1>2, <1>3
     DEF TypeInv, TypeOK, MailTyped, Counted, CurrentInv, CallInv, outside

LEMMA DeliverTypes ==
  ASSUME TypeInv, NEW t \in Api, NEW h \in Site, Deliver(t, h)
  PROVE  TypeInv'
<1> DEFINE g == SiteOf[t]
           m == Head(mail[h][g])
           j == Handler("find", m.kind, m.cols, None, h)
<1>1. t \in Thread /\ g \in Site
  BY EmergencyAssumption DEF Thread
<1>2. /\ mail[h][g] # << >> /\ ~InHand(h, g)
      /\ job' = [job EXCEPT ![t] = j]
      /\ UNCHANGED <<outside, rows, mail>> /\ Counted'
  BY OverlapIsCause
     DEF Deliver, Begin, Blame, Counted, TypeInv, TypeOK
<1>3. /\ mail[h][g] \in Seq(Copy) /\ m \in Copy /\ m = mail[h][g][1]
      /\ 1 \in 1 .. Len(mail[h][g])
  BY <1>1, <1>2, QueueBegins DEF TypeInv, TypeOK
<1>4. Real(m.cols, pdn) /\ h # g /\ h # None
  BY <1>1, <1>2, <1>3, EmergencyAssumption DEF TypeInv, MailOK
<1>5. /\ m.kind \in {"set", "clear"} /\ m.cols \in Columns
      /\ m = [kind |-> m.kind, cols |-> m.cols]
  BY <1>3 DEF Copy
<1>6. /\ j \in Job /\ j.at = "find" /\ j.kind = m.kind /\ j.cols = m.cols
      /\ j.from = h
  <2> HIDE DEF m
  <2> QED
    BY <1>5, HandlerIsJob
<1> HIDE DEF j
<1>7. JobOK(t, j, pdn)
  BY <1>4, <1>5, <1>6 DEF JobOK, PlaceOK
<1>8. HandInv'
  <2>1. \A u \in Thread : u # t => job'[u] = job[u]
    BY <1>2 DEF TypeInv, TypeOK
  <2>2. job'[t] = j
    BY <1>1, <1>2 DEF TypeInv, TypeOK
  <2>3. \A u \in Thread : job[u].from = h /\ SiteOf[u] = g => FALSE
    <3>1. \A u \in Thread : job[u].from # None =>
            u \in Api /\ job[u].at # "idle"
      BY DEF TypeInv, JobOK, PlaceOK
    <3> QED
      BY <1>2, <1>4, <3>1 DEF InHand, Busy
  <2>4. Head(mail[h][g]) = [kind |-> j.kind, cols |-> j.cols]
    BY <1>5, <1>6
  <2> QED
    BY <1>2, <1>6, <2>1, <2>2, <2>3, <2>4 DEF TypeInv, HandInv
<1>9. OutsideTyped'
  BY <1>2 DEF TypeInv, TypeOK, OutsideTyped, CurrentInv, outside, CallType
<1>10. Grows(pdn, pdn') /\ JobOK(t, j, pdn')
  BY <1>2, <1>7, SameSessions DEF TypeInv, TypeOK, outside
<1>11. CallInv'
  BY <1>1, <1>2, <1>5, <1>6, <1>10, CallsKept DEF outside
<1> QED
  BY <1>1, <1>2, <1>8, <1>9, <1>10, <1>11, StepTypes

\* A request from outside.
LEMMA RequestTypes ==
  ASSUME TypeInv, NEW t \in Thread, NEW j, NEW why \in SUBSET Cause,
         Request(t, j, why), j.from = None, JobOK(t, j, pdn'),
         OutsideTyped', Grows(pdn, pdn'), CallInv'
  PROVE  TypeInv'
<1>1. /\ job' = [job EXCEPT ![t] = j]
      /\ UNCHANGED <<rows, mail>>
      /\ Counted'
  BY OverlapIsCause DEF Request, Begin, Blame, Counted, TypeInv, TypeOK
<1>2. HandInv'
  BY <1>1, HandKept
<1> QED
  BY <1>1, <1>2, StepTypes

\* The handler of a request about a session there is.
LEMMA AboutJob ==
  ASSUME TypeInv, NEW t \in Thread, NEW s \in 1 .. Len(pdn),
         NEW at \in {"get", "find"}, NEW kind \in {"clear", "call", "str"},
         at = "get" <=> kind # "clear",
         NEW c \in Call \cup {None}, kind # "clear" => c \in Call
  PROVE  LET j == Handler(at, kind, About(s), c, None)
         IN  /\ j.at = at /\ j.kind = kind /\ j.cols = About(s)
             /\ j.c = c /\ j.from = None
             /\ JobOK(t, j, pdn)
<1> DEFINE j == Handler(at, kind, About(s), c, None)
<1>1. About(s) \in Columns /\ Real(About(s), pdn)
  BY AboutOK DEF Exact
<1>2. /\ j \in Job /\ j.at = at /\ j.kind = kind /\ j.cols = About(s)
      /\ j.c = c /\ j.from = None
  BY <1>1, HandlerIsJob
<1> HIDE DEF j
<1>3. JobOK(t, j, pdn)
  BY <1>1, <1>2 DEF JobOK, PlaceOK
<1> QED
  BY <1>2, <1>3 DEF j

LEMMA CcrITypes ==
  ASSUME TypeInv, NEW t \in Worker, CcrI(t)
  PROVE  TypeInv'
<1>1. t \in Thread
  BY DEF Thread
<1>2. PICK u \in Ue, ip \in Ip, why \in SUBSET Cause :
        /\ Free(ip, u)
        /\ Request(t, Handler("find", "set", Filled(Len(pdn) + 1, u, ip),
                              None, None), why)
        /\ pdn' = Append(pdn, [ue |-> u, ip |-> ip, at |-> "asked"])
        /\ UNCHANGED <<current, call, bearers>>
  <2>1. {"reused"} \cup {"anew"} \subseteq Cause
    BY DEF Cause
  <2>2. \A A, B : (IF A THEN {"reused"} ELSE {})
                    \cup (IF B THEN {"anew"} ELSE {}) \in SUBSET Cause
    BY <2>1
  <2> QED
    BY <2>2 DEF CcrI
<1> DEFINE s == Len(pdn) + 1
           j == Handler("find", "set", Filled(s, u, ip), None, None)
<1>3. /\ pdn \in Seq(Pdn) /\ pdn' \in Seq(Pdn) /\ Len(pdn') = s
      /\ Grows(pdn, pdn') /\ s \in Session /\ Len(pdn) \in Nat
      /\ \A i \in 1 .. Len(pdn) : pdn'[i] = pdn[i]
      /\ pdn'[s] = [ue |-> u, ip |-> ip, at |-> "asked"]
  BY <1>1, <1>2, Typed, PdnAsked DEF Session
<1> HIDE DEF s
<1>4. /\ Filled(s, u, ip) \in Columns /\ Filled(s, u, ip).s = s
      /\ Filled(s, u, ip).ue = u /\ Filled(s, u, ip).ip = ip
  BY <1>3, FilledOK
<1>5. s \in 1 .. Len(pdn')
  BY <1>3 DEF Session
<1>6. Exact(Filled(s, u, ip), pdn')
  BY <1>3, <1>4, <1>5 DEF Exact, Real
<1>7. /\ j \in Job /\ j.at = "find" /\ j.kind = "set"
      /\ j.cols = Filled(s, u, ip) /\ j.from = None
  BY <1>4, HandlerIsJob
<1>8. JobOK(t, j, pdn')
  <2> HIDE DEF j
  <2> QED
    BY <1>6, <1>7 DEF JobOK, PlaceOK, Exact
<1>9. OutsideTyped'
  BY <1>2, <1>3 DEF OutsideTyped, CurrentInv, CallType, TypeInv, TypeOK, Grows
<1>10. CallInv'
  <2>1. job' = [job EXCEPT ![t] = j]
    BY <1>2 DEF Request, Begin, s
  <2> HIDE DEF j
  <2> QED
    BY <1>1, <1>2, <1>3, <1>7, <2>1, CallsKept
<1>11. Request(t, j, why)
  BY <1>2 DEF s
<1> HIDE DEF j
<1> QED
  BY <1>1, <1>3, <1>7, <1>8, <1>9, <1>10, <1>11, RequestTypes

LEMMA CcrTTypes ==
  ASSUME TypeInv, NEW t \in Worker, CcrT(t)
  PROVE  TypeInv'
<1>1. t \in Thread
  BY DEF Thread
<1>2. PICK s \in 1 .. Len(pdn), why \in SUBSET Cause :
        /\ Request(t, Handler("find", "clear", About(s), None, None), why)
        /\ current' = [current EXCEPT ![pdn[s].ue] = IF @ = s THEN None ELSE @]
        /\ Ended(s)
        /\ UNCHANGED call
  BY DEF CcrT, Cause
<1> DEFINE j == Handler("find", "clear", About(s), None, None)
<1>3. /\ j.kind = "clear" /\ j.from = None /\ JobOK(t, j, pdn)
  BY <1>1, AboutJob
<1>4. pdn \in Seq(Pdn) /\ pdn' \in Seq(Pdn) /\ Grows(pdn, pdn')
      /\ bearers' \subseteq bearers
  BY <1>1, <1>2, Typed, PdnChanged DEF Ended
<1>5. JobOK(t, j, pdn')
  BY <1>3, <1>4, MoreSessions
<1>6. OutsideTyped'
  <2>1. current' \in [Ue -> Session \cup {None}]
    BY <1>2, SessionOf DEF TypeInv, TypeOK
  <2>2. \A u \in Ue : current'[u] \in {current[u], None}
    BY <1>2 DEF TypeInv, TypeOK
  <2>3. CurrentInv'
    BY <1>4, <2>2, CurrentKept
  <2> QED
    BY <1>2, <1>4, <2>1, <2>3 DEF OutsideTyped, TypeInv, TypeOK, CallType
<1>7. Request(t, j, why) /\ job' = [job EXCEPT ![t] = j]
  BY <1>2 DEF Request, Begin
<1> HIDE DEF j
<1>8. CallInv'
  BY <1>1, <1>2, <1>3, <1>4, <1>7, CallsKept
<1> QED
  BY <1>1, <1>3, <1>4, <1>5, <1>6, <1>7, <1>8, RequestTypes

LEMMA AarTypes ==
  ASSUME TypeInv, NEW t \in Worker, Aar(t)
  PROVE  TypeInv'
<1>1. t \in Thread
  BY DEF Thread
<1>2. PICK u \in Ue, c \in Call, why \in SUBSET Cause :
        LET s == current[u] IN
        /\ s # None
        /\ pdn[s].at = "up"
        /\ call[c] \in {[s |-> None, at |-> "new"], [s |-> s, at |-> "up"]}
        /\ Request(t, Handler("get", "call", About(s), c, None), why)
        /\ call' = [call EXCEPT ![c] = [s |-> s, at |-> "asked"]]
        /\ UNCHANGED <<pdn, current, bearers>>
  BY DEF Aar, Cause
<1> DEFINE s == current[u]
           j == Handler("get", "call", About(s), c, None)
<1>3. s \in 1 .. Len(pdn) /\ s \in Session /\ s # None
  BY <1>2, SessionOf DEF TypeInv, CurrentInv
<1>4. /\ j.kind = "call" /\ j.from = None /\ JobOK(t, j, pdn) /\ j.c = c
  <2> HIDE DEF s
  <2> QED
    BY <1>1, <1>3, AboutJob
<1>5. pdn \in Seq(Pdn) /\ pdn' = pdn /\ Grows(pdn, pdn')
  BY <1>1, <1>2, Typed, SameSessions
<1>6. /\ call' \in [Call -> CallType]
      /\ call'[c] = [s |-> s, at |-> "asked"]
      /\ \A d \in Call \ {c} : call'[d] = call[d]
  BY <1>2, <1>3 DEF TypeInv, TypeOK, CallType
<1>7. OutsideTyped'
  BY <1>2, <1>5, <1>6 DEF OutsideTyped, CurrentInv, TypeInv, TypeOK
<1>8. Request(t, j, why) /\ job' = [job EXCEPT ![t] = j]
  BY <1>2 DEF Request, Begin
<1> HIDE DEF j, s
<1>9. CallInv'
  <2>1. job'[t] = j /\ \A v \in Thread \ {t} : job'[v] = job[v]
    BY <1>1, <1>8 DEF TypeInv, TypeOK
  <2>2. \A v \in Thread : job[v].kind \in {"call", "str"} => job[v].c \in Call
    BY DEF TypeInv, JobOK, PlaceOK
  <2>3. \A d \in Call : call[d].at # "new" => call'[d].at # "new"
    BY <1>6
  <2>4. \A d \in Call : /\ call'[d].at = "new" <=> call'[d].s = None
                        /\ call'[d].s # None => call'[d].s \in 1 .. Len(pdn')
    BY <1>3, <1>5, <1>6 DEF TypeInv, CallInv
  <2>5. \A v \in Thread : job'[v].kind \in {"call", "str"} =>
                            call'[job'[v].c].at # "new"
    BY <1>4, <1>6, <2>1, <2>2, <2>3 DEF TypeInv, CallInv
  <2>6. \A b \in bearers' : b[1] \in 1 .. Len(pdn') /\ call'[b[2]].at # "new"
    <3>1. \A b \in bearers : b[2] \in Call
      BY DEF TypeInv, TypeOK, Bearer
    <3> QED
      BY <1>2, <1>5, <2>3, <3>1 DEF TypeInv, CallInv
  <2> QED
    BY <2>4, <2>5, <2>6 DEF CallInv
<1> QED
  BY <1>1, <1>4, <1>5, <1>7, <1>8, <1>9, RequestTypes

LEMMA StrTypes ==
  ASSUME TypeInv, NEW t \in Worker, Str(t)
  PROVE  TypeInv'
<1>1. t \in Thread
  BY DEF Thread
<1>2. PICK c \in Call :
        /\ call[c].at \in {"asked", "up", "refused"}
        /\ Request(t, Handler("get", "str", About(call[c].s), c, None), {})
        /\ call' = [call EXCEPT ![c].at = "ending"]
        /\ UNCHANGED <<pdn, current, bearers>>
  BY DEF Str
<1> DEFINE s == call[c].s
           j == Handler("get", "str", About(s), c, None)
<1>3. s \in 1 .. Len(pdn) /\ call[c].at # "new"
  BY <1>2 DEF TypeInv, CallInv
<1>4. /\ j.kind = "str" /\ j.from = None /\ JobOK(t, j, pdn) /\ j.c = c
  <2> HIDE DEF s
  <2> QED
    BY <1>1, <1>3, AboutJob
<1>5. pdn \in Seq(Pdn) /\ pdn' = pdn /\ Grows(pdn, pdn')
  BY <1>1, <1>2, Typed, SameSessions
<1>6. /\ call' \in [Call -> CallType]
      /\ \A d \in Call : /\ call'[d].s = call[d].s
                         /\ call'[d].at = "new" <=> call[d].at = "new"
  <2>1. call \in [Call -> CallType]
    BY DEF TypeInv, TypeOK, CallType
  <2>2. /\ [call[c] EXCEPT !.at = "ending"] \in CallType
        /\ [call[c] EXCEPT !.at = "ending"].s = call[c].s
        /\ [call[c] EXCEPT !.at = "ending"].at = "ending"
    BY <2>1 DEF CallType
  <2>3. call' = [call EXCEPT ![c] = [call[c] EXCEPT !.at = "ending"]]
    BY <1>2
  <2> QED
    BY <1>3, <2>1, <2>2, <2>3
<1>7. OutsideTyped'
  BY <1>2, <1>5, <1>6 DEF OutsideTyped, CurrentInv, TypeInv, TypeOK
<1>8. Request(t, j, {}) /\ job' = [job EXCEPT ![t] = j]
  BY <1>2 DEF Request, Begin
<1> HIDE DEF j, s
<1>9. CallInv'
  BY <1>1, <1>2, <1>3, <1>4, <1>5, <1>6, <1>8, CallsKept
<1>10. {} \in SUBSET Cause
  OBVIOUS
<1> QED
  BY <1>1, <1>4, <1>5, <1>7, <1>8, <1>9, <1>10, RequestTypes

\* A RAR that arrives late brings no bearer of another call or session.
LEMMA Arrives ==
  ASSUME TypeInv, Arrive
  PROVE  /\ UNCHANGED <<pdn, current, call, clock, rows, job, mail, cause,
                       requests, faults>>
         /\ bearers' \subseteq Bearer
         /\ \A b \in bearers' : \E a \in bearers : a[1] = b[1] /\ a[2] = b[2]
<1>1. PICK b \in bearers :
        \/ bearers' = (bearers \ {b}) \cup {<<b[1], b[2], "late">>}
        \/ bearers' \subseteq bearers
  BY DEF Arrive
<1>2. <<b[1], b[2], "late">> \in Bearer
  BY DEF TypeInv, TypeOK, Bearer
<1>3. bearers \subseteq Bearer
  BY DEF TypeInv, TypeOK
<1>4. \A c \in bearers' : /\ c \in Bearer
                         /\ \E a \in bearers : a[1] = c[1] /\ a[2] = c[2]
  BY <1>1, <1>2, <1>3
<1> QED
  BY <1>4 DEF Arrive

LEMMA OutsideTypes ==
  ASSUME TypeInv, Detach \/ Tick \/ Arrive
  PROVE  TypeInv'
<1>1. CASE Detach
  <2>1. PICK s \in 1 .. Len(pdn) : Ended(s)
    BY <1>1 DEF Detach
  <2>2. /\ pdn \in Seq(Pdn) /\ pdn' \in Seq(Pdn) /\ Grows(pdn, pdn')
        /\ bearers' \subseteq bearers
    BY <2>1, PdnChanged DEF Ended, TypeInv, TypeOK
  <2>3. UNCHANGED <<current, call, rows, job, mail>> /\ Counted'
    BY <1>1 DEF Detach, Counted, TypeInv, TypeOK
  <2>4. OutsideTyped'
    BY <2>2, <2>3, CurrentKept DEF OutsideTyped, CallType, TypeInv, TypeOK
  <2>5. /\ \A h \in Site : RowsOK(rows[h], pdn')
        /\ \A t \in Thread : JobOK(t, job[t], pdn')
        /\ \A h, g \in Site : MailOK(mail[h][g], pdn')
    BY <2>2, MoreSessions DEF TypeInv
  <2>6. CallInv'
    BY <2>2, <2>3 DEF CallInv, TypeInv, TypeOK, Grows
  <2>7. HandInv'
    BY <2>3 DEF HandInv, TypeInv
  <2> QED
    BY <2>3, <2>4, <2>5, <2>6, <2>7
       DEF TypeInv, TypeOK, OutsideTyped, Counted, CallType
<1>2. CASE Tick
  BY <1>2 DEF Tick, TypeInv, TypeOK, CurrentInv, CallInv, HandInv, outside
<1>3. CASE Arrive
  <2>1. \A b \in bearers' : b[1] \in 1 .. Len(pdn) /\ call[b[2]].at # "new"
    BY <1>3, Arrives DEF TypeInv, CallInv
  <2> QED
    BY <1>3, <2>1, Arrives DEF TypeInv, TypeOK, CurrentInv, CallInv, HandInv
<1> QED
  BY <1>1, <1>2, <1>3

\* The steps there are.
LEMMA StepKinds ==
  ASSUME Next
  PROVE  \/ Detach \/ Tick \/ Arrive
         \/ \E t \in Worker : \/ CcrI(t) \/ CcrT(t) \/ Aar(t) \/ Str(t)
                              \/ Dies(t)
         \/ \E t \in Thread : \/ Get(t) \/ Find(t) \/ Commit(t) \/ Delete(t)
                              \/ QueueCopy(t) \/ Sent(t) \/ Answer(t)
                              \/ Another(t) \/ List(t) \/ Sweep(t)
                              \/ DbFails(t) \/ Respond(t)
         \/ \E t \in Api, h \in Site : Deliver(t, h)
         \/ \E h, g \in Site : GiveUp(h, g)
BY DEF Next, Store, Thread, Sent

LEMMA TypeKept == TypeInv /\ [Next]_vars => TypeInv'
<1> SUFFICES ASSUME TypeInv, [Next]_vars
             PROVE  TypeInv'
  OBVIOUS
<1>1. CASE Next
  BY <1>1, StepKinds, OutsideTypes, CcrITypes, CcrTTypes, AarTypes, StrTypes,
     GetTypes, FindTypes, CommitTypes, DeleteTypes, QueueTypes, SentTypes,
     AnswerTypes, SweepTypes, DiesTypes, FailsTypes, RespondTypes,
     DeliverTypes, GiveUpTypes DEF Thread
<1>2. CASE UNCHANGED vars
  BY <1>2 DEF vars, outside, TypeInv, TypeOK, CurrentInv, CallInv, HandInv
<1> QED
  BY <1>1, <1>2

LEMMA TypeAlways == Spec => []TypeInv
<1>1. Init => TypeInv
  BY InitTypeInv
<1>2. TypeInv /\ [Next]_vars => TypeInv'
  BY TypeKept
<1> QED
  BY <1>1, <1>2, PTL DEF Spec

\* Type correctness, for all UEs, addresses, calls, sites and threads.
THEOREM TypeCorrect == Spec => []TypeOK
<1>1. TypeInv => TypeOK
  BY DEF TypeInv
<1> QED
  BY <1>1, TypeAlways, PTL

-----------------------------------------------------------------------------
(***************************************************************************)
(* The rows a handler is at work on.                                       *)
(***************************************************************************)

\* Conflicts.
LEMMA ConflictLess ==
  ASSUME NEW K, NEW L, NEW M, NEW N, Conflict(K, L),
         \A k \in K : k \in M \/ (k[1] = None /\ k[2] = None),
         \A l \in L : l \in N \/ (l[1] = None /\ l[2] = None)
  PROVE  Conflict(M, N) /\ Conflict(N, M)
BY DEF Conflict

LEMMA OverlapsLess ==
  ASSUME NEW t, NEW K, NEW L, NEW from, Overlaps(t, K, from),
         \A k \in K : k \in L \/ (k[1] = None /\ k[2] = None)
  PROVE  Overlaps(t, L, from)
<1>1. \A N : Conflict(K, N) => Conflict(L, N)
  BY DEF Conflict
<1> QED
  BY <1>1 DEF Overlaps

LEMMA KeysOf ==
  ASSUME NEW j
  PROVE  /\ <<j.cols.ue, j.cols.ip>> \in Keys(j)
         /\ <<j.old.cols.ue, j.old.cols.ip>> \in Keys(j)
         /\ \A x \in j.todo : <<x.cols.ue, x.cols.ip>> \in Keys(j)
         /\ \A k \in Keys(j) :
              \/ k = <<j.cols.ue, j.cols.ip>>
              \/ k = <<j.old.cols.ue, j.old.cols.ip>>
              \/ \E x \in j.todo : k = <<x.cols.ue, x.cols.ip>>
<1>1. \A x \in j.todo \cup {j.old} :
        x.cols \in {j.cols} \cup {y.cols : y \in j.todo \cup {j.old}}
  OBVIOUS
<1>2. j.cols \in {j.cols} \cup {y.cols : y \in j.todo \cup {j.old}}
  OBVIOUS
<1> QED
  BY <1>1, <1>2 DEF Keys

LEMMA OwnKept ==
  ASSUME NEW p, NEW R, NEW Q, RowsOK(R, p), RowsOK(Q, p), NEW j \in Job,
         j.at # "idle" /\ j.kind # "sweep" => Real(j.cols, p),
         NEW K, ~Conflict(K, Keys(j)), Touched(R, Q, K), Own(R, j)
  PROVE  Own(Q, j)
<1>1. \A x \in R \cup Q : x.cols.ue \in Ue /\ x.cols.ip \in Ip
  BY DEF RowsOK, Real
<1>2. None \notin Ue /\ None \notin Ip
  BY EmergencyAssumption
<1>3. \A x \in R \cup Q, k \in Keys(j) :
        k[1] = x.cols.ue \/ k[2] = x.cols.ip => (x \in R <=> x \in Q)
  <2> TAKE x \in R \cup Q, k \in Keys(j)
  <2> SUFFICES ASSUME k[1] = x.cols.ue \/ k[2] = x.cols.ip,
                      x \in (R \ Q) \cup (Q \ R)
               PROVE  FALSE
    OBVIOUS
  <2>1. <<x.cols.ue, x.cols.ip>> \in K
    BY DEF Touched
  <2>2. /\ x.cols.ue \in Ue /\ x.cols.ip \in Ip
        /\ <<x.cols.ue, x.cols.ip>>[1] = x.cols.ue
        /\ <<x.cols.ue, x.cols.ip>>[2] = x.cols.ip
    BY <1>1
  <2> QED
    BY <2>1, <2>2, <1>2 DEF Conflict
<1>4. \A x \in R : x = j.old \/ x \in j.todo => x \in Q
  BY <1>3, KeysOf
<1>5. \A x \in R \cup Q :
        x.cols.ue = j.cols.ue \/ x.cols.ip = j.cols.ip => (x \in R <=> x \in Q)
  BY <1>3, KeysOf
<1>6. {y \in R : y.cols.ip = j.cols.ip} = {y \in Q : y.cols.ip = j.cols.ip}
  BY <1>5
<1>7. ASSUME NEW x \in R, x.cols = j.cols
      PROVE  x \in Q
  BY <1>5, <1>7
<1>8. ASSUME NEW x \in R, j.cols = [x.cols EXCEPT !.rx = j.c]
      PROVE  x \in Q
  <2>1. x.cols \in Columns
    BY DEF RowsOK, Row
  <2>2. j.cols.ue = x.cols.ue
    BY <1>8, <2>1 DEF Columns
  <2> QED
    BY <1>5, <2>2
<1> QED
  BY <1>4, <1>5, <1>6, <1>7, <1>8 DEF Own

LEMMA ApartKept ==
  ASSUME TypeInv, ApartInv, NEW t \in Thread, NEW j,
         job' = [job EXCEPT ![t] = j], cause \subseteq cause',
         Apart' => KeysKept(t, j)
  PROVE  ApartInv'
<1> SUFFICES ASSUME Apart', NEW v \in Thread, NEW u \in Thread, v # u,
                    job'[v].at # "idle", job'[u].at # "idle",
                    \/ SiteOf[v] = SiteOf[u]
                    \/ job'[v].from = None /\ job'[u].from = None,
                    Conflict(Keys(job'[v]), Keys(job'[u]))
             PROVE  FALSE
  <2> QED
    BY DEF ApartInv, Busy, Keys, Conflict
<1>1. Apart
  BY DEF Apart
<1>2. job'[t] = j /\ \A w \in Thread \ {t} : job'[w] = job[w]
  BY DEF TypeInv, TypeOK
<1>3. ASSUME NEW w \in Thread, w # t, job[w].at # "idle", j.at # "idle",
             \/ SiteOf[w] = SiteOf[t]
             \/ job[w].from = None /\ j.from = None,
             Conflict(Keys(j), Keys(job[w]))
      PROVE  FALSE
  <2>1. CASE Busy(t) /\ j.from = job[t].from
             /\ \A k \in Keys(j) :
                  k \in Keys(job[t]) \/ (k[1] = None /\ k[2] = None)
    <3>1. Conflict(Keys(job[t]), Keys(job[w]))
      BY <1>3, <2>1, ConflictLess
    <3> QED
      BY <1>1, <1>3, <2>1, <3>1 DEF ApartInv, Busy
  <2>2. CASE ~Overlaps(t, Keys(j), j.from)
    BY <1>3, <2>2 DEF Overlaps, Busy
  <2> QED
    BY <1>3, <2>1, <2>2 DEF KeysKept
<1>4. CASE v = t
  BY <1>2, <1>3, <1>4
<1>5. CASE u = t
  <2>1. Conflict(Keys(j), Keys(job[v]))
    BY <1>2, <1>5, ConflictLess
  <2> QED
    BY <1>2, <1>3, <1>5, <2>1
<1>6. CASE v # t /\ u # t
  BY <1>1, <1>2, <1>6 DEF ApartInv, Busy
<1> QED
  BY <1>4, <1>5, <1>6

LEMMA SameMail ==
  ASSUME UNCHANGED mail, NEW t
  PROVE  MailGoesOn(t)
BY DEF MailGoesOn, CopyKept

LEMMA MailKept ==
  ASSUME TypeInv, ApartInv, MailInv, NEW t \in Thread, NEW j,
         job' = [job EXCEPT ![t] = j], cause \subseteq cause',
         Apart' => KeysKept(t, j), MailGoesOn(t)
  PROVE  MailInv'
<1> SUFFICES ASSUME Apart', NEW v \in Thread, NEW h \in Site, NEW g \in Site,
                    job'[v].at # "idle", job'[v].from = None, h # SiteOf[v],
                    NEW i \in 1 .. Len(mail'[h][g]),
                    Conflict(Keys(job'[v]), {<<mail'[h][g][i].cols.ue,
                                               mail'[h][g][i].cols.ip>>})
             PROVE  FALSE
  <2> QED
    BY DEF MailInv, Busy, Keys, Conflict
<1> DEFINE c == mail'[h][g][i]
           L == {<<c.cols.ue, c.cols.ip>>}
<1>1. Apart
  BY DEF Apart
<1>2. job'[t] = j /\ \A w \in Thread \ {t} : job'[w] = job[w]
  BY DEF TypeInv, TypeOK
<1>3. CopyKept(t, c, h, g) /\ Conflict(Keys(job'[v]), L)
  BY DEF MailGoesOn
<1> HIDE DEF c
<1>4. ASSUME NEW k \in 1 .. Len(mail[h][g]), c = mail[h][g][k]
      PROVE  FALSE
  <2>1. CASE v # t
    BY <1>1, <1>2, <1>3, <1>4, <2>1 DEF MailInv, Busy
  <2>2. CASE v = t /\ Busy(t) /\ j.from = job[t].from
             /\ \A l \in Keys(j) :
                  l \in Keys(job[t]) \/ (l[1] = None /\ l[2] = None)
    <3>1. Conflict(Keys(job[t]), L)
      BY <1>2, <1>3, <2>2, ConflictLess
    <3>2. Conflict(Keys(job[t]), {<<mail[h][g][k].cols.ue,
                                    mail[h][g][k].cols.ip>>})
      BY <3>1, <1>4
    <3>3. job[t].from = None /\ h # SiteOf[t]
      BY <1>2, <2>2
    <3> QED
      BY <1>1, <1>4, <2>2, <3>2, <3>3 DEF MailInv
  <2>3. CASE v = t /\ ~Overlaps(t, Keys(j), j.from)
    BY <1>2, <1>3, <1>4, <2>3 DEF Overlaps
  <2> QED
    BY <1>2, <2>1, <2>2, <2>3 DEF KeysKept
<1>5. CASE h = SiteOf[t] /\ Busy(t) /\ job[t].from = None
           /\ <<c.cols.ue, c.cols.ip>> \in Keys(job[t])
  <2>1. v # t /\ job'[v] = job[v]
    BY <1>2, <1>5
  <2>2. Conflict(Keys(job[v]), Keys(job[t]))
    BY <1>3, <1>5, <2>1, ConflictLess
  <2> QED
    BY <1>1, <1>5, <2>1, <2>2 DEF ApartInv, Busy
<1> QED
  BY <1>3, <1>4, <1>5 DEF CopyKept

LEMMA RowsStep ==
  ASSUME TypeInv, TypeInv', RowsInv, NEW t \in Thread, NEW j \in Job,
         job' = [job EXCEPT ![t] = j], cause \subseteq cause',
         Grows(pdn, pdn'), Others(t), MailGoesOn(t), Apart' => Rightly(t, j)
  PROVE  RowsInv'
<1>1. Apart' => Apart /\ KeysKept(t, j)
  BY DEF Apart, Rightly
<1>2. job'[t] = j /\ \A u \in Thread \ {t} : job'[u] = job[u]
  BY DEF TypeInv, TypeOK
<1>3. /\ pdn \in Seq(Pdn) /\ pdn' \in Seq(Pdn) /\ SiteOf[t] \in Site
      /\ \A u \in Thread : SiteOf[u] \in Site
  BY Typed DEF TypeInv, TypeOK
<1>4. ApartInv' /\ MailInv'
  BY <1>1, ApartKept, MailKept DEF RowsInv
<1>5. \A h \in Site \ {SiteOf[t]} : rows'[h] = rows[h]
  BY DEF Others
<1>6. ExactInv'
  <2> SUFFICES ASSUME Apart'
               PROVE  /\ \A h \in Site : \A x \in rows'[h] :
                           Exact(x.cols, pdn')
                      /\ \A u \in Thread : ExactJob(job'[u], pdn')
                      /\ \A h, g \in Site : \A i \in 1 .. Len(mail'[h][g]) :
                           mail'[h][g][i].kind = "set" =>
                             Exact(mail'[h][g][i].cols, pdn')
    BY DEF ExactInv
  <2>1. \A k : Exact(k, pdn) => Exact(k, pdn')
    BY <1>3, MoreSessions
  <2>2. ASSUME NEW h \in Site, NEW x \in rows'[h]
        PROVE  Exact(x.cols, pdn')
    <3>1. CASE h = SiteOf[t]
      BY <3>1 DEF Rightly
    <3>2. CASE h # SiteOf[t]
      BY <1>1, <1>5, <2>1, <3>2 DEF RowsInv, ExactInv
    <3> QED
      BY <3>1, <3>2
  <2>3. ASSUME NEW u \in Thread
        PROVE  ExactJob(job'[u], pdn')
    BY <1>1, <1>2, <2>1 DEF RowsInv, ExactInv, ExactJob, Rightly
  <2> QED
    BY <2>2, <2>3 DEF Rightly, CopyExact
<1>7. UniqueInv'
  BY <1>1, <1>5 DEF RowsInv, UniqueInv, Rightly
<1>8. OwnInv'
  <2> SUFFICES ASSUME Apart', NEW u \in Thread
               PROVE  Own(rows'[SiteOf[u]], job'[u])
    BY DEF OwnInv
  <2>1. CASE u = t
    BY <1>2, <2>1 DEF Rightly
  <2> DEFINE R == rows[SiteOf[t]]
             Q == rows'[SiteOf[t]]
  <2>2. Own(rows[SiteOf[u]], job[u])
    BY <1>1 DEF RowsInv, OwnInv
  <2>3. CASE u # t /\ (SiteOf[u] # SiteOf[t] \/ Q = R)
    BY <1>2, <1>3, <1>5, <2>2, <2>3
  <2>4. CASE u # t /\ SiteOf[u] = SiteOf[t] /\ Q # R /\ Busy(u)
    <3>1. Busy(t) /\ Touched(R, Q, Keys(job[t]))
      BY <2>4 DEF Rightly
    <3>2. ~Conflict(Keys(job[t]), Keys(job[u]))
      BY <1>1, <2>4, <3>1 DEF RowsInv, ApartInv
    <3>3. RowsOK(R, pdn') /\ RowsOK(Q, pdn')
      BY <1>3, MoreSessions DEF TypeInv
    <3>4. /\ job[u] \in Job
          /\ job[u].at # "idle" /\ job[u].kind # "sweep" =>
               Real(job[u].cols, pdn')
      BY <1>3, Typed, MoreSessions DEF JobOK
    <3>5. Own(R, job[u])
      BY <2>2, <2>4
    <3> HIDE DEF R, Q
    <3>6. Own(Q, job[u])
      BY <3>1, <3>2, <3>3, <3>4, <3>5, OwnKept
    <3> QED
      BY <1>2, <2>4, <3>6 DEF Q
  <2>5. CASE u # t /\ ~Busy(u)
    <3>1. job[u].at = "idle" /\ job[u].kind = "set"
      BY <2>5, Typed DEF Busy, JobOK, PlaceOK
    <3> QED
      BY <1>2, <2>5, <3>1 DEF Own
  <2> QED
    BY <2>1, <2>3, <2>4, <2>5
<1> QED
  BY <1>4, <1>6, <1>7, <1>8 DEF RowsInv

\* A step that writes neither rows nor mail.
LEMMA RowsRead ==
  ASSUME TypeInv, TypeInv', RowsInv, NEW t \in Thread, NEW j \in Job,
         job' = [job EXCEPT ![t] = j], cause \subseteq cause',
         Grows(pdn, pdn'), UNCHANGED <<rows, mail>>,
         Apart' => /\ KeysKept(t, j) /\ Own(rows[SiteOf[t]], j)
                   /\ ExactJob(j, pdn')
  PROVE  RowsInv'
<1>1. Others(t) /\ MailGoesOn(t)
  BY SameMail DEF Others
<1>2. SiteOf[t] \in Site /\ pdn \in Seq(Pdn) /\ pdn' \in Seq(Pdn)
  BY Typed DEF TypeInv, TypeOK
<1>3. \A k : Exact(k, pdn) => Exact(k, pdn')
  BY <1>2, MoreSessions
<1>4. ASSUME Apart'
      PROVE  Rightly(t, j)
  <2>1. Apart
    BY <1>4 DEF Apart
  <2>2. /\ Unique(rows[SiteOf[t]])
        /\ \A x \in rows[SiteOf[t]] : Exact(x.cols, pdn')
        /\ \A h, g \in Site : \A i \in 1 .. Len(mail[h][g]) :
             CopyExact(mail[h][g][i], pdn')
    BY <1>2, <1>3, <2>1 DEF RowsInv, UniqueInv, ExactInv, CopyExact
  <2> QED
    BY <1>4, <2>2 DEF Rightly
<1> QED
  BY <1>1, <1>4, RowsStep

\* Nobody does anything: only copies may go, and sessions change.
LEMMA RowsStay ==
  ASSUME TypeInv, TypeInv', RowsInv, UNCHANGED <<rows, job>>,
         cause \subseteq cause', Grows(pdn, pdn'),
         \A h, g \in Site : \A i \in 1 .. Len(mail'[h][g]) :
           \E k \in 1 .. Len(mail[h][g]) : mail'[h][g][i] = mail[h][g][k]
  PROVE  RowsInv'
<1>1. Apart' => Apart
  BY DEF Apart
<1>2. \A k : Exact(k, pdn) => Exact(k, pdn')
  BY MoreSessions DEF TypeInv, TypeOK
<1>3. ApartInv' /\ UniqueInv' /\ OwnInv'
  BY <1>1 DEF RowsInv, ApartInv, UniqueInv, OwnInv, Busy
<1>4. MailInv'
  <2> SUFFICES ASSUME Apart', NEW t \in Thread, NEW h \in Site, NEW g \in Site,
                      Busy(t), job[t].from = None, h # SiteOf[t],
                      NEW i \in 1 .. Len(mail'[h][g])
               PROVE  ~Conflict(Keys(job[t]), {<<mail'[h][g][i].cols.ue,
                                                 mail'[h][g][i].cols.ip>>})
    BY DEF MailInv, Busy
  <2>1. PICK k \in 1 .. Len(mail[h][g]) : mail'[h][g][i] = mail[h][g][k]
    OBVIOUS
  <2>2. ~Conflict(Keys(job[t]), {<<mail[h][g][k].cols.ue,
                                   mail[h][g][k].cols.ip>>})
    BY <1>1 DEF RowsInv, MailInv
  <2> QED
    BY <2>1, <2>2
<1>5. ExactInv'
  <2> SUFFICES ASSUME Apart'
               PROVE  /\ \A h \in Site : \A x \in rows[h] : Exact(x.cols, pdn')
                      /\ \A t \in Thread : ExactJob(job[t], pdn')
                      /\ \A h, g \in Site : \A i \in 1 .. Len(mail'[h][g]) :
                           mail'[h][g][i].kind = "set" =>
                             Exact(mail'[h][g][i].cols, pdn')
    BY DEF ExactInv
  <2>1. ExactInv /\ Apart
    BY <1>1 DEF RowsInv
  <2>2. \A h, g \in Site : \A i \in 1 .. Len(mail'[h][g]) :
          mail'[h][g][i].kind = "set" => Exact(mail'[h][g][i].cols, pdn')
    <3> SUFFICES ASSUME NEW h \in Site, NEW g \in Site,
                        NEW i \in 1 .. Len(mail'[h][g]),
                        mail'[h][g][i].kind = "set"
                 PROVE  Exact(mail'[h][g][i].cols, pdn')
      OBVIOUS
    <3>1. PICK k \in 1 .. Len(mail[h][g]) : mail'[h][g][i] = mail[h][g][k]
      OBVIOUS
    <3> QED
      BY <1>2, <2>1, <3>1 DEF ExactInv
  <2> QED
    BY <1>2, <2>1, <2>2 DEF ExactInv, ExactJob
<1> QED
  BY <1>3, <1>4, <1>5 DEF RowsInv

\* Beginning a handler.
LEMMA BlamedApart ==
  ASSUME NEW t, NEW K, NEW from, NEW why,
         cause' = cause \cup (why \cup OverlapOf(t, K, from)), Apart'
  PROVE  ~Overlaps(t, K, from)
BY DEF OverlapOf, Apart

LEMMA RowsBegin ==
  ASSUME TypeInv, TypeInv', RowsInv, NEW t \in Thread, NEW j \in Job, NEW why,
         Begin(t, j, why), j.at \in {"get", "find"}, j.kind # "sweep",
         j.at = "find" => j.kind # "call",
         Grows(pdn, pdn'), UNCHANGED <<rows, mail>>,
         Apart' => ExactJob(j, pdn')
  PROVE  RowsInv'
<1>1. job' = [job EXCEPT ![t] = j] /\ cause \subseteq cause'
  BY DEF Begin, Blame
<1>2. ASSUME Apart'
      PROVE  KeysKept(t, j)
  BY <1>2, BlamedApart DEF Begin, Blame, KeysKept
<1>3. Own(rows[SiteOf[t]], j)
  BY DEF Own
<1> QED
  BY <1>1, <1>2, <1>3, RowsRead

\* What begins a request.
LEMMA CcrIParts ==
  ASSUME NEW t, CcrI(t)
  PROVE  \E u \in Ue, ip \in Ip, why \in SUBSET Cause :
           /\ Free(ip, u)
           /\ Begin(t, Handler("find", "set", Filled(Len(pdn) + 1, u, ip),
                              None, None), why)
           /\ pdn' = Append(pdn, [ue |-> u, ip |-> ip, at |-> "asked"])
           /\ UNCHANGED <<current, call, bearers, clock, rows, mail>>
<1>1. {"reused"} \cup {"anew"} \subseteq Cause
  BY DEF Cause
<1>2. \A A, B : (IF A THEN {"reused"} ELSE {})
                  \cup (IF B THEN {"anew"} ELSE {}) \in SUBSET Cause
  BY <1>1
<1> QED
  BY <1>2 DEF CcrI, Request

LEMMA CcrTParts ==
  ASSUME NEW t, CcrT(t)
  PROVE  \E s \in 1 .. Len(pdn), why \in SUBSET Cause :
           /\ pdn[s].at = "up" /\ Ended(s)
           /\ Request(t, Handler("find", "clear", About(s), None, None), why)
           /\ current' = [current EXCEPT ![pdn[s].ue] =
                            IF @ = s THEN None ELSE @]
           /\ UNCHANGED call
BY DEF CcrT, Cause

LEMMA AarParts ==
  ASSUME NEW t, Aar(t)
  PROVE  \E u \in Ue, c \in Call, why \in SUBSET Cause :
           LET s == current[u] IN
           /\ s # None
           /\ pdn[s].at = "up"
           /\ call[c] \in {[s |-> None, at |-> "new"], [s |-> s, at |-> "up"]}
           /\ Request(t, Handler("get", "call", About(s), c, None), why)
           /\ call' = [call EXCEPT ![c] = [s |-> s, at |-> "asked"]]
           /\ UNCHANGED <<pdn, current, bearers>>
BY DEF Aar, Cause

LEMMA CcrIRows ==
  ASSUME TypeInv, TypeInv', RowsInv, NEW t \in Worker, CcrI(t)
  PROVE  RowsInv'
<1>1. PICK u \in Ue, ip \in Ip, why \in SUBSET Cause :
        /\ Begin(t, Handler("find", "set", Filled(Len(pdn) + 1, u, ip),
                           None, None), why)
        /\ pdn' = Append(pdn, [ue |-> u, ip |-> ip, at |-> "asked"])
        /\ UNCHANGED <<rows, mail>>
  BY CcrIParts
<1> DEFINE s == Len(pdn) + 1
           j == Handler("find", "set", Filled(s, u, ip), None, None)
<1>2. /\ pdn \in Seq(Pdn) /\ Grows(pdn, pdn') /\ Len(pdn') = s /\ s \in Session
      /\ pdn'[s] = [ue |-> u, ip |-> ip, at |-> "asked"]
  BY <1>1, PdnAsked DEF TypeInv, TypeOK, Session
<1>3. /\ Filled(s, u, ip) \in Columns /\ Exact(Filled(s, u, ip), pdn')
  BY <1>2, FilledOK DEF Exact, Real, Filled, Session
<1>4. /\ j \in Job /\ j.at = "find" /\ j.kind = "set"
      /\ j.cols = Filled(s, u, ip)
  BY <1>3, HandlerIsJob
<1> HIDE DEF j, s
<1>5. t \in Thread /\ Begin(t, j, why) /\ UNCHANGED <<rows, mail>>
  BY <1>1 DEF Thread, j, s
<1> QED
  BY <1>2, <1>3, <1>4, <1>5, RowsBegin DEF ExactJob

LEMMA RequestRows ==
  ASSUME TypeInv, TypeInv', RowsInv, NEW t \in Thread, NEW why,
         NEW s \in 1 .. Len(pdn), NEW c \in Call \cup {None},
         NEW at \in {"get", "find"}, NEW kind \in {"clear", "call", "str"},
         at = "get" <=> kind # "clear",
         Request(t, Handler(at, kind, About(s), c, None), why),
         Grows(pdn, pdn')
  PROVE  RowsInv'
<1> DEFINE j == Handler(at, kind, About(s), c, None)
<1>1. About(s) \in Columns /\ Exact(About(s), pdn)
  BY AboutOK
<1>2. Exact(About(s), pdn')
  BY <1>1, MoreSessions DEF TypeInv, TypeOK
<1>3. j \in Job /\ j.at = at /\ j.kind = kind /\ j.cols = About(s)
  BY <1>1, HandlerIsJob
<1>4. Begin(t, j, why) /\ UNCHANGED <<rows, mail>>
  BY DEF Request
<1> HIDE DEF j
<1> QED
  BY <1>2, <1>3, <1>4, RowsBegin DEF ExactJob

LEMMA CcrTRows ==
  ASSUME TypeInv, TypeInv', RowsInv, NEW t \in Worker, CcrT(t)
  PROVE  RowsInv'
<1>1. PICK s \in 1 .. Len(pdn), why \in SUBSET Cause :
        Request(t, Handler("find", "clear", About(s), None, None), why)
        /\ Ended(s)
  BY CcrTParts
<1>2. Grows(pdn, pdn')
  BY <1>1, PdnChanged DEF Ended, TypeInv, TypeOK
<1> QED
  BY <1>1, <1>2, RequestRows DEF Thread

LEMMA CallRows ==
  ASSUME TypeInv, TypeInv', RowsInv, NEW t \in Worker, Aar(t) \/ Str(t)
  PROVE  RowsInv'
<1>1. UNCHANGED pdn /\ Grows(pdn, pdn')
  BY SameSessions DEF Aar, Str, TypeInv, TypeOK
<1>2. CASE Aar(t)
  <2>1. PICK u \in Ue, c \in Call, why \in SUBSET Cause :
          current[u] # None
          /\ Request(t, Handler("get", "call", About(current[u]), c, None), why)
    BY <1>2, AarParts
  <2>2. current[u] \in 1 .. Len(pdn)
    BY <2>1 DEF TypeInv, CurrentInv
  <2> QED
    BY <1>1, <2>1, <2>2, RequestRows DEF Thread
<1>3. CASE Str(t)
  <2>1. PICK c \in Call :
          call[c].at # "new"
          /\ Request(t, Handler("get", "str", About(call[c].s), c, None), {})
    BY <1>3 DEF Str
  <2>2. call[c].s \in 1 .. Len(pdn)
    BY <2>1 DEF TypeInv, CallInv
  <2> QED
    BY <1>1, <2>1, <2>2, RequestRows DEF Thread
<1> QED
  BY <1>2, <1>3

LEMMA CopyJob ==
  ASSUME NEW x \in Copy, NEW h \in Site
  PROVE  LET j == Handler("find", x.kind, x.cols, None, h)
         IN  /\ j \in Job /\ j.at = "find" /\ j.kind = x.kind
             /\ j.cols = x.cols /\ j.c = None /\ j.from = h
<1> DEFINE kind == x.kind
           cols == x.cols
<1>1. /\ kind \in {"set", "clear", "call", "str", "sweep"}
      /\ cols \in Columns
  BY DEF Copy
<1> HIDE DEF kind, cols
<1>2. LET j == Handler("find", kind, cols, None, h)
      IN  /\ j \in Job /\ j.at = "find" /\ j.kind = kind
          /\ j.cols = cols /\ j.c = None /\ j.from = h
  BY <1>1, NoRowIsRow DEF Handler, Job
<1> QED
  BY <1>2 DEF kind, cols

LEMMA DeliverRows ==
  ASSUME TypeInv, TypeInv', RowsInv, NEW t \in Api, NEW h \in Site,
         Deliver(t, h)
  PROVE  RowsInv'
<1> DEFINE m == mail[h][SiteOf[t]]
           x == Head(m)
           j == Handler("find", x.kind, x.cols, None, h)
<1>1. /\ t \in Thread /\ SiteOf[t] \in Site /\ m # << >> /\ Begin(t, j, {})
      /\ UNCHANGED <<rows, mail, pdn>>
  BY Typed DEF Deliver, Thread, outside
<1>2. m \in Seq(Copy) /\ pdn \in Seq(Pdn)
  BY <1>1 DEF TypeInv, TypeOK
<1>3. x \in Copy /\ 1 \in 1 .. Len(m) /\ x = m[1]
  BY <1>1, <1>2
<1>4. x.kind \in {"set", "clear"} /\ x.cols \in Columns
  BY <1>3 DEF Copy
<1>5. /\ j \in Job /\ j.at = "find" /\ j.kind = x.kind /\ j.cols = x.cols
      /\ j.from = h
  <2> HIDE DEF x
  <2> QED
    BY <1>3, CopyJob
<1>6. ASSUME Apart'
      PROVE  ExactJob(j, pdn')
  <2>1. Apart
    BY <1>1, <1>6 DEF Apart, Begin, Blame
  <2>2. x.kind = "set" => Exact(x.cols, pdn)
    BY <1>1, <1>3, <2>1 DEF RowsInv, ExactInv
  <2> QED
    BY <1>1, <1>4, <1>5, <2>2 DEF ExactJob
<1>7. Grows(pdn, pdn')
  BY <1>1, <1>2, SameSessions
<1> HIDE DEF j
<1> QED
  BY <1>1, <1>4, <1>5, <1>6, <1>7, RowsBegin

\* Getting and finding a row.
LEMMA NewJob ==
  ASSUME TypeInv, TypeInv', NEW t \in Thread, NEW j,
         job' = [job EXCEPT ![t] = j]
  PROVE  j \in Job /\ job'[t] = j /\ JobOK(t, j, pdn')
BY DEF TypeInv, TypeOK

LEMMA LoadsParts ==
  ASSUME TypeInv, NEW t \in Thread, NEW j, Loads(t, j)
  PROVE  /\ job' = [job EXCEPT ![t] = j] /\ cause \subseteq cause'
         /\ UNCHANGED <<outside, rows, mail>> /\ Grows(pdn, pdn')
         /\ Apart' => KeysKept(t, j)
<1>1. /\ job' = [job EXCEPT ![t] = j] /\ cause \subseteq cause'
      /\ UNCHANGED <<outside, rows, mail>>
  BY DEF Loads, Becomes, Blame
<1>2. Grows(pdn, pdn')
  BY <1>1, SameSessions DEF TypeInv, TypeOK, outside
<1>3. Apart' => KeysKept(t, j)
  BY DEF Loads, Blame, OverlapOf, Apart, KeysKept
<1> QED
  BY <1>1, <1>2, <1>3

LEMMA RxOnly ==
  ASSUME NEW k \in Columns, NEW c
  PROVE  LET l == [k EXCEPT !.rx = c]
         IN  /\ l.ue = k.ue /\ l.s = k.s /\ l.ip = k.ip
             /\ \A p : Real(k, p) => Real(l, p)
             /\ \A p : Exact(k, p) => Exact(l, p)
BY DEF Columns, Exact, Real

LEMMA GetRows ==
  ASSUME TypeInv, TypeInv', RowsInv, NEW t \in Thread, Get(t)
  PROVE  RowsInv'
<1> DEFINE o == job[t]
           R == rows[SiteOf[t]]
           X == Caller(SiteOf[t], o)
           x == First(X)
           j == IF x = NoRow
                THEN [o EXCEPT !.at = "answer", !.ok = o.kind = "str"]
                ELSE IF o.kind = "call"
                THEN [o EXCEPT !.at = "find",
                               !.cols = [x.cols EXCEPT !.rx = o.c]]
                ELSE [o EXCEPT !.at = "send", !.cols = x.cols]
<1>1. o.at = "get" /\ Loads(t, j)
  BY DEF Get
<1>2. /\ job' = [job EXCEPT ![t] = j] /\ cause \subseteq cause'
      /\ UNCHANGED <<outside, rows, mail>> /\ Grows(pdn, pdn')
      /\ Apart' => KeysKept(t, j)
  <2> HIDE DEF j
  <2> QED
    BY <1>1, LoadsParts
<1>3. /\ o \in Job /\ o.kind \in {"call", "str"} /\ R \subseteq Row
  BY <1>1, Typed DEF JobOK, PlaceOK
<1>4. j \in Job
  <2> HIDE DEF j
  <2> QED
    BY <1>2, NewJob
<1>5. ASSUME Apart'
      PROVE  Own(R, j) /\ ExactJob(j, pdn)
  <2>1. /\ ExactJob(o, pdn) /\ \A y \in R : Exact(y.cols, pdn)
    BY <1>2, <1>5, Typed DEF Apart, RowsInv, ExactInv
  <2>2. CASE x = NoRow
    <3>1. j.at = "answer" /\ j.kind = o.kind /\ j.cols = o.cols
      BY <1>3, <2>2 DEF Job
    <3> HIDE DEF j
    <3> QED
      BY <1>1, <1>3, <2>1, <3>1 DEF Own, ExactJob
  <2>3. CASE x # NoRow /\ o.kind = "str"
    <3>1. j.at = "send" /\ j.kind = "str"
      BY <1>3, <2>3 DEF Job
    <3> HIDE DEF j
    <3> QED
      BY <3>1 DEF Own, ExactJob
  <2>4. CASE x # NoRow /\ o.kind = "call"
    <3>1. X = {y \in R : y.cols.ip = o.cols.ip}
      BY <2>4 DEF Caller
    <3>2. x \in X
      BY <2>4, <3>1, ByIdTyped
    <3>3. x \in R /\ x.cols.ip = o.cols.ip
      BY <3>1, <3>2
    <3>4. /\ j.at = "find" /\ j.kind = "call" /\ j.c = o.c
          /\ j.cols = [x.cols EXCEPT !.rx = j.c]
      BY <1>3, <2>4 DEF Job
    <3>5. x.cols \in Columns
      BY <1>3, <3>3 DEF Row
    <3> HIDE DEF j
    <3>6. j.cols.ip = o.cols.ip /\ Exact(j.cols, pdn)
      BY <2>1, <3>3, <3>4, <3>5, RxOnly
    <3>7. x = First({y \in R : y.cols.ip = j.cols.ip})
      BY <3>1, <3>6
    <3> HIDE DEF x, X, R
    <3> QED
      BY <3>3, <3>4, <3>6, <3>7 DEF Own, ExactJob
  <2> QED
    BY <1>3, <2>2, <2>3, <2>4
<1>6. pdn' = pdn
  BY <1>2 DEF outside
<1> HIDE DEF j
<1> QED
  BY <1>2, <1>4, <1>5, <1>6, RowsRead

LEMMA FindRows ==
  ASSUME TypeInv, TypeInv', RowsInv, NEW t \in Thread, Find(t)
  PROVE  RowsInv'
<1> DEFINE o == job[t]
           R == rows[SiteOf[t]]
           X == Sought(SiteOf[t], o)
           x == First(X)
           at == IF o.kind # "clear" THEN "commit"
                 ELSE IF x = NoRow THEN After(o) ELSE "delete"
           j == [o EXCEPT !.old = x, !.at = at]
<1>1. o.at = "find" /\ Loads(t, j)
  BY DEF Find
<1>2. /\ job' = [job EXCEPT ![t] = j] /\ cause \subseteq cause'
      /\ UNCHANGED <<outside, rows, mail>> /\ Grows(pdn, pdn')
      /\ Apart' => KeysKept(t, j)
  <2> HIDE DEF j
  <2> QED
    BY <1>1, LoadsParts
<1>3. /\ o \in Job /\ o.kind \in {"set", "clear", "call"} /\ R \subseteq Row
      /\ o.from # None => o.kind # "call"
  BY <1>1, Typed DEF JobOK, PlaceOK
<1>4. j \in Job
  <2> HIDE DEF j
  <2> QED
    BY <1>2, NewJob
<1>5. /\ x \in Row
      /\ x = NoRow <=> X = {}
      /\ x # NoRow => x \in X
  <2>1. X \subseteq R
    BY DEF Sought
  <2> HIDE DEF o
  <2> QED
    BY <2>1, ByIdTyped
<1>6. /\ at \in {"commit", "delete", "respond", "answer"}
      /\ at = "commit" => o.kind \in {"set", "call"}
      /\ at = "delete" => o.kind = "clear" /\ x # NoRow
  BY <1>3 DEF After
<1>7. /\ j.at = at /\ j.kind = o.kind /\ j.c = o.c /\ j.cols = o.cols
      /\ j.old = x /\ j.todo = o.todo
  <2> HIDE DEF x, at
  <2> QED
    BY <1>3 DEF Job
<1>8. ASSUME Apart'
      PROVE  Own(R, j) /\ ExactJob(j, pdn)
  <2>1. /\ ExactJob(o, pdn) /\ Own(R, o)
    BY <1>1, <1>2, <1>8, Typed DEF Apart, RowsInv, ExactInv, OwnInv, Own
  <2>2. ExactJob(j, pdn)
    <3> HIDE DEF j, at, x
    <3> QED
      BY <1>1, <1>7, <2>1 DEF ExactJob
  <2>3. CASE at = "commit" /\ o.kind = "set"
    <3>1. X = {y \in R : y.cols.ue = o.cols.ue}
      BY <2>3 DEF Sought
    <3>2. x = NoRow => \A y \in R : y.cols.ue # o.cols.ue
      BY <1>5, <3>1
    <3>3. x # NoRow => x \in R /\ x.cols.ue = o.cols.ue
      BY <1>5, <3>1
    <3> HIDE DEF j, at, x, X, R, o
    <3> QED
      BY <1>7, <2>2, <2>3, <3>2, <3>3 DEF Own
  <2>4. CASE at = "commit" /\ o.kind = "call"
    <3>1. X = {y \in R : y.cols.ip = o.cols.ip}
      BY <2>4 DEF Sought
    <3>2. x \in R /\ o.cols = [x.cols EXCEPT !.rx = o.c]
      BY <1>1, <2>1, <2>4, <3>1 DEF Own
    <3>3. x # NoRow
      BY <3>2, Typed, NoRowIsRow DEF RowsOK
    <3> HIDE DEF j, at, x, X, R, o
    <3> QED
      BY <1>7, <2>2, <2>4, <3>2, <3>3 DEF Own
  <2>5. CASE at = "delete"
    <3>1. X = {y \in R : y.cols.ue = o.cols.ue}
      BY <1>6, <2>5 DEF Sought
    <3>2. x \in R /\ x.cols.ue = o.cols.ue
      BY <1>5, <1>6, <2>5, <3>1
    <3> HIDE DEF j, at, x, X, R, o
    <3> QED
      BY <1>6, <1>7, <2>1, <2>2, <2>5, <3>2 DEF Own
  <2>6. CASE at \in {"respond", "answer"}
    <3> HIDE DEF j, at, x, X, R, o
    <3> QED
      BY <1>3, <1>7, <2>2, <2>6 DEF Own
  <2> QED
    BY <1>6, <2>3, <2>4, <2>5, <2>6
<1>9. pdn' = pdn
  BY <1>2 DEF outside
<1> HIDE DEF j
<1> QED
  BY <1>2, <1>4, <1>8, <1>9, RowsRead

\* Writing a row.
LEMMA SameKeys ==
  ASSUME NEW j, NEW o, j.cols = o.cols, j.old.cols = o.old.cols,
         j.todo = o.todo
  PROVE  Keys(j) = Keys(o)
<1>1. {x.cols : x \in j.todo \cup {j.old}} = {x.cols : x \in o.todo \cup {o.old}}
  OBVIOUS
<1> QED
  BY <1>1 DEF Keys

LEMMA CommitRightly ==
  ASSUME TypeInv, TypeInv', RowsInv, NEW t \in Thread, Commit(t), Apart
  PROVE  \E j \in Job : /\ job' = [job EXCEPT ![t] = j]
                        /\ UNCHANGED <<outside, mail, cause>>
                        /\ Others(t)
                        /\ Rightly(t, j)
<1> DEFINE R == rows[SiteOf[t]]
           Q == rows'[SiteOf[t]]
           o == job[t]
           stored == IF o.from = None THEN "copy" ELSE "respond"
<1>1. /\ o.at = "commit" /\ o \in Job /\ o.kind \in {"set", "call"}
      /\ RowsOK(R, pdn) /\ R \subseteq Row /\ o.cols \in Columns /\ Busy(t)
      /\ UNCHANGED <<outside, mail, cause>> /\ o.old \in Row
  BY Typed, JobFields
     DEF Commit, Writes, JobOK, PlaceOK, RowsOK, Busy
<1>2. Own(R, o) /\ Unique(R) /\ \A x \in R : Exact(x.cols, pdn)
  BY Typed DEF RowsInv, OwnInv, UniqueInv, ExactInv
<1>3. Exact(o.cols, pdn) /\ ExactJob(o, pdn)
  BY <1>1 DEF RowsInv, ExactInv, ExactJob
<1>4. \A h, g \in Site : \A i \in 1 .. Len(mail'[h][g]) :
        CopyExact(mail'[h][g][i], pdn')
  BY <1>1 DEF RowsInv, ExactInv, CopyExact, outside
<1>5. stored \in Places /\ stored \in {"copy", "respond"}
  BY DEF Places
<1>6. <<o.cols.ue, o.cols.ip>> \in Keys(o)
      /\ <<o.old.cols.ue, o.old.cols.ip>> \in Keys(o)
  BY KeysOf
<1>7. CASE o.old = NoRow
  <2> DEFINE y == Fresh(t)
             j == [o EXCEPT !.old = [o.old EXCEPT !.id = y.id], !.at = stored]
  <2>1. /\ Q = R \cup {y} /\ job' = [job EXCEPT ![t] = j] /\ Others(t)
    BY <1>7, CommitRows
  <2>2. y \in Row /\ y.cols = o.cols
    BY <1>1, FreshOK DEF Fresh
  <2>3. /\ j.at = stored /\ j.kind = o.kind /\ j.c = o.c /\ j.from = o.from
        /\ j.cols = o.cols /\ j.todo = o.todo
        /\ j.old.id = y.id /\ j.old.cols = o.old.cols
    BY <1>1 DEF Job, Row
  <2>4. j \in Job
    <3> HIDE DEF j
    <3> QED
      BY <2>1, NewJob
  <2> HIDE DEF j, y, stored
  <2>5. KeysKept(t, j)
    BY <1>1, <2>3, SameKeys DEF KeysKept
  <2>6. Touched(R, Q, Keys(o))
    BY <1>6, <2>1, <2>2 DEF Touched
  <2>7. o.kind = "set" /\ \A x \in R : x.cols.ue # o.cols.ue
    BY <1>1, <1>2, <1>7 DEF Own
  <2>8. Unique(Q)
    BY <1>2, <2>1, <2>2, <2>7 DEF Unique
  <2>9. Own(Q, j)
    BY <1>5, <2>1, <2>2, <2>3, <2>7 DEF Own
  <2>10. (\A x \in Q : Exact(x.cols, pdn)) /\ ExactJob(j, pdn)
    BY <1>2, <1>3, <2>1, <2>2, <2>3 DEF ExactJob
  <2> QED
    BY <1>1, <1>4, <2>1, <2>4, <2>5, <2>6, <2>8, <2>9, <2>10
       DEF Rightly, outside
<1>8. CASE o.old # NoRow
  <2> DEFINE j == [o EXCEPT !.at = stored]
             y == Rewritten(t, o.old)
  <2>1. o.old \in R
    BY <1>1, <1>2, <1>8 DEF Own
  <2>2. /\ Q = {Rewritten(t, x) : x \in R}
        /\ job' = [job EXCEPT ![t] = j] /\ Others(t)
    BY <1>8, <2>1, CommitRows
  <2>3. /\ y.id = o.old.id /\ y.cols = o.cols
    <3>1. Merged(o.old.cols, o.old.cols, o.cols) = o.cols
      BY <1>1, MergedOK DEF Row
    <3> QED
      BY <1>1, <3>1 DEF Rewritten, Row
  <2>4. \A x \in R : Rewritten(t, x) = IF x = o.old THEN y ELSE x
    BY <1>1, <2>1 DEF Rewritten, RowsOK
  <2>5. j = GoesTo(o, stored)
    BY DEF GoesTo
  <2> HIDE DEF j, y, stored
  <2>6. Q = (R \ {o.old}) \cup {y}
    BY <2>1, <2>2, <2>4
  <2>7. /\ j.at = stored /\ SameWork(j, o) /\ j.old = o.old /\ j.todo = o.todo
        /\ j \in Job
    BY <1>1, <1>5, <2>5, JobGoes
  <2>8. KeysKept(t, j)
    BY <1>1, <2>7, SameKeys DEF KeysKept, SameWork
  <2>9. o.old.cols.ue = o.cols.ue
    <3>1. o.old.cols \in Columns
      BY <1>1 DEF Row
    <3>2. CASE o.kind = "set"
      BY <1>1, <1>2, <1>8, <3>2 DEF Own
    <3>3. CASE o.kind = "call"
      <4>1. o.cols = [o.old.cols EXCEPT !.rx = o.c]
        BY <1>1, <1>2, <1>8, <3>3 DEF Own
      <4> HIDE DEF o
      <4> QED
        BY <3>1, <4>1, RxOnly
    <3> QED
      BY <1>1, <3>2, <3>3
  <2>10. Touched(R, Q, Keys(o))
    BY <1>6, <2>3, <2>6 DEF Touched
  <2>11. Unique(Q)
    BY <1>2, <2>1, <2>3, <2>6, <2>9 DEF Unique
  <2>12. Own(Q, j)
    BY <1>1, <1>5, <2>3, <2>6, <2>7 DEF Own, SameWork
  <2>13. (\A x \in Q : Exact(x.cols, pdn)) /\ ExactJob(j, pdn)
    BY <1>2, <1>3, <2>3, <2>6, <2>7 DEF ExactJob, SameWork
  <2> QED
    BY <1>1, <1>4, <2>2, <2>7, <2>8, <2>10, <2>11, <2>12, <2>13
       DEF Rightly, outside
<1> QED
  BY <1>7, <1>8

LEMMA CommitRowsKept ==
  ASSUME TypeInv, TypeInv', RowsInv, NEW t \in Thread, Commit(t)
  PROVE  RowsInv'
<1>1. UNCHANGED <<outside, mail, cause>> /\ Grows(pdn, pdn')
  BY SameSessions DEF Commit, Writes, TypeInv, TypeOK, outside
<1>2. CASE Apart
  BY <1>1, <1>2, CommitRightly, SameMail, RowsStep
<1>3. CASE ~Apart
  BY <1>1, <1>3 DEF Apart, RowsInv, ApartInv, MailInv, ExactInv, UniqueInv,
                    OwnInv
<1> QED
  BY <1>2, <1>3

LEMMA DeleteRowsKept ==
  ASSUME TypeInv, TypeInv', RowsInv, NEW t \in Thread, Delete(t)
  PROVE  RowsInv'
<1> DEFINE R == rows[SiteOf[t]]
           Q == rows'[SiteOf[t]]
           o == job[t]
           at == IF o.from = None THEN "copy" ELSE "respond"
           j == [o EXCEPT !.at = at]
<1>1. /\ o.at = "delete" /\ o \in Job /\ o.kind \in {"clear", "sweep"}
      /\ RowsOK(R, pdn) /\ R \subseteq Row /\ Busy(t)
      /\ UNCHANGED <<outside, mail, cause>> /\ Grows(pdn, pdn')
      /\ o.from # None => o.kind = "clear"
  BY Typed, SameSessions
     DEF Delete, Writes, JobOK, PlaceOK, RowsOK, Busy, outside
<1>2. /\ Q = {x \in R : x.id # o.old.id} /\ job' = [job EXCEPT ![t] = j]
      /\ Others(t)
  BY DeleteRows
<1>3. j = GoesTo(o, at) /\ at \in Places /\ at \in {"copy", "respond"}
  BY DEF GoesTo, Places
<1> HIDE DEF j
<1>4. /\ j \in Job /\ j.at = at /\ SameWork(j, o) /\ j.old = o.old
      /\ j.todo = o.todo
  BY <1>1, <1>3, JobGoes
<1>5. ASSUME Apart'
      PROVE  Rightly(t, j)
  <2>1. Apart
    BY <1>1, <1>5 DEF Apart
  <2>2. Own(R, o) /\ Unique(R) /\ \A x \in R : Exact(x.cols, pdn)
    BY <2>1, Typed DEF RowsInv, OwnInv, UniqueInv, ExactInv
  <2>3. \A h, g \in Site : \A i \in 1 .. Len(mail'[h][g]) :
          CopyExact(mail'[h][g][i], pdn')
    BY <1>1, <2>1 DEF RowsInv, ExactInv, CopyExact, outside
  <2>4. o.old \in R /\ Q = R \ {o.old}
    BY <1>1, <1>2, <2>2 DEF Own, RowsOK
  <2>5. Touched(R, Q, Keys(o))
    BY <2>4, KeysOf DEF Touched
  <2>6. KeysKept(t, j)
    BY <1>1, <1>4, SameKeys DEF KeysKept, SameWork
  <2>7. Own(Q, j)
    BY <1>1, <1>3, <1>4, <2>2, <2>4 DEF Own, SameWork
  <2>8. Unique(Q) /\ (\A x \in Q : Exact(x.cols, pdn)) /\ ExactJob(j, pdn)
    BY <1>1, <1>4, <2>2, <2>4 DEF Unique, ExactJob, SameWork
  <2> QED
    BY <1>1, <2>3, <2>5, <2>6, <2>7, <2>8 DEF Rightly, outside
<1> QED
  BY <1>1, <1>2, <1>4, <1>5, SameMail, RowsStep

\* Steps that write neither rows nor mail.
LEMMA OnwardOwn ==
  ASSUME NEW R, NEW o, NEW j, Own(R, o), SameWork(j, o), j.todo = o.todo,
         j.at \in {"answer", "send", "sweep", "respond"}
  PROVE  Own(R, j)
BY DEF Own, SameWork

LEMMA NobodysKeys ==
  ASSUME NEW t \in Thread
  PROVE  /\ \A L : ~Conflict(Keys(Sweeper(t)), L)
         /\ \A from : ~Overlaps(t, Keys(Sweeper(t)), from)
         /\ \A R, p : Own(R, Sweeper(t)) /\ ExactJob(Sweeper(t), p)
         /\ \A R, p : Own(R, Idle) /\ ExactJob(Idle, p)
<1>1. /\ Sweeper(t).cols = Nothing /\ Sweeper(t).old = NoRow
      /\ Sweeper(t).todo = {}
      /\ \/ Sweeper(t).at = "idle" /\ Sweeper(t).kind = "set"
         \/ Sweeper(t).at = "list" /\ Sweeper(t).kind = "sweep"
      /\ Idle.at = "idle" /\ Idle.kind = "set"
  BY DEF Sweeper, Handler, Idle
<1>2. \A k \in Keys(Sweeper(t)) : k = <<None, None>>
  BY <1>1, KeysOf, NoRowIsRow
<1>3. \A L : ~Conflict(Keys(Sweeper(t)), L)
  BY <1>2 DEF Conflict
<1> QED
  BY <1>1, <1>3 DEF Overlaps, Own, ExactJob

LEMMA RowsOnward ==
  ASSUME TypeInv, TypeInv', RowsInv, NEW t \in Thread, NEW j,
         job' = [job EXCEPT ![t] = j], cause \subseteq cause',
         Grows(pdn, pdn'), UNCHANGED <<rows, mail>>,
         \/ j \in {Idle, Sweeper(t)}
         \/ /\ Busy(t) /\ SameWork(j, job[t]) /\ j.old = job[t].old
            /\ j.todo = job[t].todo
            /\ j.at \in {"answer", "send", "sweep", "respond"}
  PROVE  RowsInv'
<1>1. j \in Job
  BY NewJob
<1>2. ASSUME Apart'
      PROVE  KeysKept(t, j) /\ Own(rows[SiteOf[t]], j) /\ ExactJob(j, pdn')
  <2>1. CASE j \in {Idle, Sweeper(t)}
    BY <2>1, NobodysKeys, IdleOK DEF KeysKept
  <2>2. CASE /\ Busy(t) /\ SameWork(j, job[t]) /\ j.old = job[t].old
             /\ j.todo = job[t].todo
             /\ j.at \in {"answer", "send", "sweep", "respond"}
    <3>1. Apart
      BY <1>2 DEF Apart
    <3>2. KeysKept(t, j)
      BY <2>2, SameKeys DEF KeysKept, SameWork
    <3>3. Own(rows[SiteOf[t]], j)
      BY <2>2, <3>1, OnwardOwn DEF RowsInv, OwnInv
    <3>4. ExactJob(job[t], pdn)
      BY <3>1 DEF RowsInv, ExactInv
    <3>5. \A k : Exact(k, pdn) => Exact(k, pdn')
      BY MoreSessions DEF TypeInv, TypeOK
    <3>6. ExactJob(j, pdn')
      BY <2>2, <3>4, <3>5 DEF ExactJob, SameWork, Busy
    <3> QED
      BY <3>2, <3>3, <3>6
  <2> QED
    BY <2>1, <2>2
<1> QED
  BY <1>1, <1>2, RowsRead

LEMMA SentRows ==
  ASSUME TypeInv, TypeInv', RowsInv, NEW t \in Thread, Sent(t)
  PROVE  RowsInv'
<1> DEFINE o == job[t]
<1>1. PICK ok \in BOOLEAN : job' = [job EXCEPT ![t] = Answered(o, ok)]
  BY SentIs
<1> DEFINE j == Answered(o, ok)
<1>2. /\ o.at = "send" /\ job' = [job EXCEPT ![t] = j] /\ Busy(t)
      /\ UNCHANGED <<pdn, rows, mail, cause>> /\ Grows(pdn, pdn') /\ o \in Job
  BY <1>1, SentIs, SameSessions DEF Busy, TypeInv, TypeOK
<1>3. j.at = "answer" /\ SameWork(j, o) /\ j.old = o.old /\ j.todo = o.todo
  BY <1>2, JobAnswers
<1> HIDE DEF j
<1> QED
  BY <1>2, <1>3, RowsOnward

LEMMA AnswerRows ==
  ASSUME TypeInv, TypeInv', RowsInv, NEW t \in Thread, Answer(t)
  PROVE  RowsInv'
<1>1. /\ job' = [job EXCEPT ![t] = Sweeper(t)]
      /\ UNCHANGED <<rows, mail, cause>> /\ Grows(pdn, pdn')
  BY AnswerOutside DEF Answer, Becomes
<1> QED
  BY <1>1, RowsOnward

LEMMA AnotherRows ==
  ASSUME TypeInv, TypeInv', RowsInv, NEW t \in Thread, Another(t)
  PROVE  RowsInv'
<1>1. /\ job' = [job EXCEPT ![t] = Sweeper(t)]
      /\ UNCHANGED <<rows, mail, cause>> /\ Grows(pdn, pdn')
  BY SameSessions DEF Another, Becomes, Reads, outside, TypeInv, TypeOK
<1> QED
  BY <1>1, RowsOnward

LEMMA FailsRows ==
  ASSUME TypeInv, TypeInv', RowsInv, NEW t \in Thread, DbFails(t)
  PROVE  RowsInv'
<1> DEFINE o == job[t]
           again == o.at = "list" \/ (o.at = "find" /\ o.from # None)
<1>1. /\ o.at \in {"get", "find", "commit", "delete", "list"} /\ Busy(t)
      /\ cause \subseteq cause' /\ UNCHANGED <<rows, mail>>
      /\ Grows(pdn, pdn')
  BY SameSessions DEF DbFails, Blame, outside, Busy, TypeInv, TypeOK
<1>2. o \in Job /\ JobOK(t, o, pdn)
  BY Typed
<1>3. CASE again
  <2>1. job' = [job EXCEPT ![t] = Idle]
    BY <1>3 DEF DbFails, Becomes
  <2> QED
    BY <1>1, <2>1, RowsOnward
<1>4. CASE ~again /\ o.at \in {"get", "find"}
  <2>1. PICK ok \in BOOLEAN : job' = [job EXCEPT ![t] = Answered(o, ok)]
    BY <1>4 DEF DbFails, Becomes, Answered
  <2> DEFINE j == Answered(o, ok)
  <2>2. j.at = "answer" /\ SameWork(j, o) /\ j.old = o.old /\ j.todo = o.todo
    BY <1>2, JobAnswers
  <2> HIDE DEF j
  <2> QED
    BY <1>1, <2>1, <2>2, RowsOnward DEF j
<1>5. CASE ~again /\ o.at \in {"commit", "delete"}
  <2> DEFINE at == After(o)
             j == GoesTo(o, at)
  <2>1. job' = [job EXCEPT ![t] = j]
    BY <1>5 DEF DbFails, Becomes, GoesTo
  <2>2. at \in {"answer", "send", "sweep", "respond"} /\ at \in Places
    BY DEF After, Places
  <2> HIDE DEF at
  <2>3. j.at = at /\ SameWork(j, o) /\ j.old = o.old /\ j.todo = o.todo
    BY <1>2, <2>2, JobGoes
  <2> HIDE DEF j
  <2> QED
    BY <1>1, <2>1, <2>2, <2>3, RowsOnward
<1> QED
  BY <1>1, <1>3, <1>4, <1>5

LEMMA DiesRows ==
  ASSUME TypeInv, TypeInv', RowsInv, NEW t \in Thread, Dies(t)
  PROVE  RowsInv'
<1>1. /\ job' = [job EXCEPT ![t] = Idle] /\ cause \subseteq cause'
      /\ UNCHANGED <<rows, mail>>
  BY DEF Dies, Becomes, Blame
<1>2. Grows(pdn, pdn')
  BY PdnChanged, SameSessions DEF Dies, TypeInv, TypeOK
<1> QED
  BY <1>1, <1>2, RowsOnward

\* What a queue holds after a copy is queued.
LEMMA QueuedCopies ==
  ASSUME TypeInv, NEW t \in Thread, QueueCopy(t), NEW h \in Site, NEW g \in Site
  PROVE  LET m == mail[h][g]
             n == mail'[h][g]
             C == CopyOf(h, job[t])
         IN  \/ n = m
             \/ \E c \in Copy :
                  /\ h = SiteOf[t] /\ g # h /\ C = <<c>>
                  /\ Len(n) = Len(m) + 1 /\ Len(m) \in Nat /\ n[Len(n)] = c
                  /\ \A i \in 1 .. Len(n) : \/ i = Len(n)
                                            \/ i \in 1 .. Len(m) /\ n[i] = m[i]
<1> DEFINE m == mail[h][g]
           n == mail'[h][g]
           C == CopyOf(h, job[t])
<1>1. m \in Seq(Copy)
  BY DEF TypeInv, TypeOK
<1> DEFINE D == CopyOf(SiteOf[t], job[t])
<1>2. \A f, e \in Site : IF f = SiteOf[t] /\ e # f
                          THEN mail'[f][e] = mail[f][e] \o D
                          ELSE mail'[f][e] = mail[f][e]
  BY QueueMail
<1> HIDE DEF D
<1>4. CASE ~(h = SiteOf[t] /\ g # h)
  BY <1>2, <1>4
<1>3. CASE h = SiteOf[t] /\ g # h
  <2>1. n = m \o C
    <3>1. mail'[h][g] = mail[h][g] \o D
      BY <1>2, <1>3
    <3>2. D = C
      BY <1>3 DEF D
    <3> QED
      BY <3>1, <3>2
  <2>2. C = << >> \/ \E c \in Copy : C = <<c>>
    BY CopyOfOK DEF QueueCopy
  <2> HIDE DEF m, n, C
  <2>3. CASE C = << >>
    BY <1>1, <2>1, <2>3, ConcatEmptySeq DEF m, n
  <2>4. ASSUME NEW c \in Copy, C = <<c>>
        PROVE  /\ Len(n) = Len(m) + 1 /\ Len(m) \in Nat /\ n[Len(n)] = c
               /\ \A i \in 1 .. Len(n) : \/ i = Len(n)
                                         \/ i \in 1 .. Len(m) /\ n[i] = m[i]
    <3>1. /\ Len(n) = Len(m) + 1 /\ Len(m) \in Nat /\ n[Len(m) + 1] = c
          /\ \A i \in 1 .. Len(m) : n[i] = m[i]
      BY <1>1, <2>1, <2>4, QueueEnds
    <3>2. \A i \in 1 .. Len(m) + 1 : i \in 1 .. Len(m) \/ i = Len(m) + 1
      BY <3>1
    <3> QED
      BY <3>1, <3>2
  <2> QED
    BY <1>3, <2>2, <2>3, <2>4 DEF m, n, C
<1> QED
  BY <1>3, <1>4

LEMMA QueueRows ==
  ASSUME TypeInv, TypeInv', RowsInv, NEW t \in Thread, QueueCopy(t)
  PROVE  RowsInv'
<1> DEFINE o == job[t]
           j == GoesTo(o, After(o))
           Came(c, h, g) ==
             \/ \E k \in 1 .. Len(mail[h][g]) : c = mail[h][g][k]
             \/ /\ h = SiteOf[t]
                /\ \/ /\ c.kind = "set" /\ c.cols = o.cols
                      /\ o.kind \in {"set", "call"}
                   \/ c.kind = "clear" /\ c.cols = o.old.cols
<1>1. /\ o.at = "copy" /\ o \in Job /\ JobOK(t, o, pdn) /\ o.from = None
      /\ job' = [job EXCEPT ![t] = j] /\ UNCHANGED <<outside, rows, cause>>
      /\ Busy(t) /\ o.kind # "str"
  BY Typed DEF QueueCopy, Goes, GoesTo, JobOK, PlaceOK, Busy
<1>2. Grows(pdn, pdn') /\ UNCHANGED pdn /\ SiteOf[t] \in Site /\ Others(t)
  BY <1>1, SameSessions, Typed DEF TypeInv, TypeOK, outside, Others
<1>3. After(o) \in Places /\ After(o) \in {"answer", "send", "sweep"}
  BY <1>1 DEF After, Places
<1>4. /\ j \in Job /\ j.at = After(o) /\ SameWork(j, o) /\ j.old = o.old
      /\ j.todo = o.todo
  BY <1>1, <1>3, JobGoes
<1> HIDE DEF j
<1>5. ASSUME NEW h \in Site, NEW g \in Site, NEW i \in 1 .. Len(mail'[h][g])
      PROVE  Came(mail'[h][g][i], h, g)
  <2> DEFINE m == mail[h][g]
             n == mail'[h][g]
  <2>1. CASE n = m
    BY <2>1
  <2>2. ASSUME NEW c \in Copy, h = SiteOf[t], CopyOf(h, o) = <<c>>,
               n[Len(n)] = c,
               \A k \in 1 .. Len(n) : \/ k = Len(n)
                                      \/ k \in 1 .. Len(m) /\ n[k] = m[k]
        PROVE  Came(n[i], h, g)
    <3>1. \/ c.kind = "set" /\ c.cols = o.cols /\ o.kind \in {"set", "call"}
          \/ c.kind = "clear" /\ c.cols = o.old.cols
      <4>1. PICK d \in Copy :
              /\ CopyOf(h, o) = <<d>>
              /\ \/ /\ d.kind = "set" /\ d.cols = o.cols
                    /\ o.kind \in {"set", "call"}
                 \/ d.kind = "clear" /\ d.cols = o.old.cols
        <5>1. CopyOf(h, o) # << >>
          BY <2>2
        <5> QED
          BY <1>1, <5>1, CopyOfOK
      <4>2. d = c
        BY <2>2, <4>1
      <4> QED
        BY <4>1, <4>2
    <3>2. CASE i = Len(n)
      BY <2>2, <3>1, <3>2
    <3>3. CASE i \in 1 .. Len(m) /\ n[i] = m[i]
      BY <3>3
    <3> QED
      BY <2>2, <3>2, <3>3
  <2> QED
    BY <2>1, <2>2, QueuedCopies
<1>6. MailGoesOn(t)
  BY <1>1, <1>5, KeysOf DEF MailGoesOn, CopyKept
<1>7. ASSUME Apart'
      PROVE  Rightly(t, j)
  <2>1. Apart
    BY <1>1, <1>7 DEF Apart
  <2>2. /\ Own(rows[SiteOf[t]], o) /\ Unique(rows[SiteOf[t]])
        /\ \A x \in rows[SiteOf[t]] : Exact(x.cols, pdn)
        /\ ExactJob(o, pdn)
    BY <1>2, <2>1 DEF RowsInv, OwnInv, UniqueInv, ExactInv, ExactJob
  <2>3. ASSUME NEW h \in Site, NEW g \in Site, NEW i \in 1 .. Len(mail'[h][g])
        PROVE  CopyExact(mail'[h][g][i], pdn)
    <3>1. CASE \E k \in 1 .. Len(mail[h][g]) : mail'[h][g][i] = mail[h][g][k]
      BY <2>1, <3>1 DEF RowsInv, ExactInv, CopyExact
    <3> QED
      BY <1>1, <1>5, <2>2, <3>1 DEF CopyExact, ExactJob
  <2>4. KeysKept(t, j)
    BY <1>1, <1>4, SameKeys DEF KeysKept, SameWork
  <2>5. Own(rows[SiteOf[t]], j)
    BY <1>3, <1>4, <2>2, OnwardOwn
  <2>6. ExactJob(j, pdn)
    BY <1>1, <1>4, <2>2 DEF ExactJob, SameWork
  <2> QED
    BY <1>1, <1>2, <2>2, <2>3, <2>4, <2>5, <2>6 DEF Rightly
<1>8. cause \subseteq cause'
  BY <1>1
<1> QED
  BY <1>1, <1>2, <1>4, <1>6, <1>7, <1>8, RowsStep

LEMMA ListRows ==
  ASSUME TypeInv, TypeInv', RowsInv, NEW t \in Thread, List(t)
  PROVE  RowsInv'
<1> DEFINE o == job[t]
           R == rows[SiteOf[t]]
           X == {x \in R : Expired(x)}
           K == {<<x.cols.ue, x.cols.ip>> : x \in X}
           j == [o EXCEPT !.at = "sweep", !.todo = X]
<1>1. /\ o.at = "list" /\ o \in Job /\ o.kind = "sweep" /\ o.from = None
      /\ job' = [job EXCEPT ![t] = IF X = {} THEN Idle ELSE j]
      /\ UNCHANGED <<pdn, rows, mail>> /\ cause \subseteq cause'
      /\ Grows(pdn, pdn')
  BY Typed, SameSessions DEF List, Becomes, Blame, outside, JobOK, PlaceOK
<1>2. Apart' => ~Overlaps(t, K, None)
  BY DEF List, Blame, OverlapOf, Apart
<1>3. CASE X = {}
  <2>1. job' = [job EXCEPT ![t] = Idle]
    BY <1>1, <1>3
  <2> QED
    BY <1>1, <2>1, RowsOnward
<1>4. CASE X # {}
  <2>1. job' = [job EXCEPT ![t] = j] /\ X \subseteq R
    BY <1>1, <1>4
  <2>2. /\ j.at = "sweep" /\ j.kind = "sweep" /\ j.from = None
        /\ j.cols = o.cols /\ j.old = o.old /\ j.todo = X
    BY <1>1 DEF Job
  <2> HIDE DEF j, X
  <2>3. j \in Job
    BY <2>1, NewJob
  <2>4. ASSUME Apart'
        PROVE  KeysKept(t, j) /\ Own(R, j) /\ ExactJob(j, pdn')
    <3>1. Own(R, o)
      BY <1>1, <2>4 DEF Apart, RowsInv, OwnInv
    <3>2. j.cols = Nothing /\ j.old = NoRow
      BY <1>1, <2>2, <3>1 DEF Own
    <3>3. \A k \in Keys(j) : k \in K \/ (k[1] = None /\ k[2] = None)
      <4> TAKE k \in Keys(j)
      <4>1. /\ <<j.cols.ue, j.cols.ip>> = <<None, None>>
            /\ <<j.old.cols.ue, j.old.cols.ip>> = <<None, None>>
        BY <3>2, NoRowIsRow
      <4>2. k = <<None, None>> \/ \E x \in j.todo : k = <<x.cols.ue, x.cols.ip>>
        BY <4>1, KeysOf
      <4> QED
        BY <2>2, <4>2
    <3>4. ~Overlaps(t, Keys(j), None)
      BY <1>2, <2>4, <3>3, OverlapsLess
    <3> QED
      BY <2>1, <2>2, <3>2, <3>4 DEF KeysKept, Own, ExactJob
  <2> QED
    BY <1>1, <2>1, <2>3, <2>4, RowsRead
<1> QED
  BY <1>3, <1>4

\* The row that is looked up once more.
LEMMA LookedUp ==
  ASSUME TypeInv, NEW t \in Thread, job[t].todo # {},
         job[t].todo \subseteq rows[SiteOf[t]]
  PROVE  LET x == First(job[t].todo) IN
         /\ x \in job[t].todo /\ x # NoRow
         /\ First(ById(SiteOf[t], x.id)) = x
<1> DEFINE T == job[t].todo
           R == rows[SiteOf[t]]
           x == First(T)
<1>1. R \subseteq Row /\ RowsOK(R, pdn)
  BY Typed
<1>2. x \in T
  <2>1. T \in SUBSET Row /\ T # {}
    BY <1>1
  <2> HIDE DEF T
  <2> QED
    BY <2>1, FirstIsOne
<1>3. x \in R /\ x.id # 0 /\ x # NoRow
  BY <1>1, <1>2, NoRowIsRow DEF RowsOK
<1> HIDE DEF x, T
<1>4. ById(SiteOf[t], x.id) = {x}
  BY <1>1, <1>3 DEF ById, RowsOK
<1>5. First({x}) = x
  <2>1. {x} \in SUBSET Row /\ {x} # {}
    BY <1>1, <1>3
  <2> QED
    BY <2>1, FirstIsOne
<1> QED
  BY <1>2, <1>3, <1>4, <1>5 DEF x, T

LEMMA SweepRows ==
  ASSUME TypeInv, TypeInv', RowsInv, NEW t \in Thread, Sweep(t)
  PROVE  RowsInv'
<1> DEFINE o == job[t]
           R == rows[SiteOf[t]]
           x == First(o.todo)
           y == First(ById(SiteOf[t], x.id))
           at == IF y = NoRow THEN o.at ELSE "delete"
           j == Sweeps(o, x, y, at)
<1>1. /\ o.at = "sweep" /\ o \in Job /\ o.kind = "sweep" /\ Busy(t)
      /\ UNCHANGED <<pdn, rows, mail, cause>> /\ Grows(pdn, pdn')
      /\ R \subseteq Row
  BY Typed, SameSessions DEF Sweep, Reads, outside, JobOK, PlaceOK, Busy
<1>2. job' = [job EXCEPT ![t] = IF o.todo = {} THEN Idle ELSE j]
  BY DEF Sweep, Becomes, Sweeps
<1>3. CASE o.todo = {}
  <2>1. job' = [job EXCEPT ![t] = Idle]
    BY <1>2, <1>3
  <2> QED
    BY <1>1, <2>1, RowsOnward
<1>4. CASE o.todo # {}
  <2>1. job' = [job EXCEPT ![t] = j]
    BY <1>2, <1>4
  <2>2. y \in Row
    <3>1. ById(SiteOf[t], x.id) \subseteq R
      BY DEF ById
    <3> HIDE DEF x
    <3> QED
      BY <3>1, ByIdTyped
  <2>3. at \in {"sweep", "delete"}
    BY <1>1
  <2> HIDE DEF x, y, at
  <2>4. /\ j.at = at /\ SameWork(j, o) /\ j.old = y /\ j.todo = o.todo \ {x}
    BY <1>1, <2>2, <2>3, JobSweeps
  <2> HIDE DEF j
  <2>5. j \in Job
    BY <2>1, NewJob
  <2>6. ASSUME Apart'
        PROVE  KeysKept(t, j) /\ Own(R, j) /\ ExactJob(j, pdn')
    <3>1. o.cols = Nothing /\ o.todo \subseteq R
      BY <1>1, <2>6 DEF Apart, RowsInv, OwnInv, Own
    <3>2. x \in o.todo /\ y = x /\ x # NoRow
      BY <1>4, <3>1, LookedUp DEF x, y
    <3>3. at = "delete"
      BY <3>2 DEF at
    <3>4. Own(R, j) /\ ExactJob(j, pdn')
      BY <1>1, <2>4, <3>1, <3>2, <3>3 DEF Own, ExactJob, SameWork
    <3>5. \A k \in Keys(j) : k \in Keys(o) \/ (k[1] = None /\ k[2] = None)
      <4> TAKE k \in Keys(j)
      <4>1. \/ k = <<o.cols.ue, o.cols.ip>>
            \/ k = <<x.cols.ue, x.cols.ip>>
            \/ \E z \in o.todo : k = <<z.cols.ue, z.cols.ip>>
        <5>1. \/ k = <<j.cols.ue, j.cols.ip>>
              \/ k = <<j.old.cols.ue, j.old.cols.ip>>
              \/ \E z \in j.todo : k = <<z.cols.ue, z.cols.ip>>
          BY KeysOf
        <5>2. j.cols = o.cols /\ j.old = x /\ j.todo \subseteq o.todo
          BY <2>4, <3>2 DEF SameWork
        <5> QED
          BY <5>1, <5>2
      <4>2. /\ <<o.cols.ue, o.cols.ip>> \in Keys(o)
            /\ \A z \in o.todo : <<z.cols.ue, z.cols.ip>> \in Keys(o)
        BY KeysOf
      <4> QED
        BY <3>2, <4>1, <4>2
    <3>6. j.from = o.from
      BY <2>4 DEF SameWork
    <3> QED
      BY <1>1, <3>4, <3>5, <3>6 DEF KeysKept
  <2> QED
    BY <1>1, <2>1, <2>5, <2>6, RowsRead
<1> QED
  BY <1>3, <1>4

\* A queue whose head is taken off.
LEMMA PoppedCopies ==
  ASSUME TypeInv, NEW h \in Site, NEW g \in Site, mail[h][g] # << >>,
         Pop(h, g), UNCHANGED pdn,
         NEW f \in Site, NEW e \in Site, NEW i \in 1 .. Len(mail'[f][e])
  PROVE  \E k \in 1 .. Len(mail[f][e]) : mail'[f][e][i] = mail[f][e][k]
<1>1. mail'[f][e] = IF f = h /\ e = g THEN Tail(mail[h][g]) ELSE mail[f][e]
  BY PopTypes
<1>2. mail[h][g] \in Seq(Copy)
  BY DEF TypeInv, TypeOK
<1>3. CASE f = h /\ e = g
  <2> DEFINE m == mail[h][g]
  <2>1. mail'[f][e] = Tail(m)
    BY <1>1, <1>3
  <2>2. \A k \in 1 .. Len(Tail(m)) : Tail(m)[k] = m[k + 1]
                                     /\ k + 1 \in 1 .. Len(m)
    <3> HIDE DEF m
    <3> QED
      BY <1>2, QueueBegins DEF m
  <2> QED
    BY <1>3, <2>1, <2>2
<1> QED
  BY <1>1, <1>3

LEMMA RespondParts ==
  ASSUME TypeInv, NEW t \in Thread, Respond(t)
  PROVE  /\ job[t].from \in Site /\ SiteOf[t] \in Site
         /\ mail[job[t].from][SiteOf[t]] # << >>
         /\ Head(mail[job[t].from][SiteOf[t]]) =
              [kind |-> job[t].kind, cols |-> job[t].cols]
         /\ job' = [job EXCEPT ![t] = Idle]
         /\ UNCHANGED <<outside, clock, rows, cause, requests>>
         /\ \/ Pop(job[t].from, SiteOf[t])
            \/ UNCHANGED mail
<1>1. /\ job[t].at = "respond" /\ job' = [job EXCEPT ![t] = Idle]
      /\ UNCHANGED <<outside, clock, rows, cause, requests>>
      /\ \/ Pop(job[t].from, SiteOf[t])
         \/ UNCHANGED mail
  BY DEF Respond, Becomes
<1>2. job[t].from # None /\ job[t].from \in Site /\ SiteOf[t] \in Site
  BY <1>1, Typed DEF JobOK, PlaceOK, Job
<1>3. /\ mail[job[t].from][SiteOf[t]] # << >>
      /\ Head(mail[job[t].from][SiteOf[t]]) =
           [kind |-> job[t].kind, cols |-> job[t].cols]
  BY <1>2 DEF TypeInv, HandInv
<1> QED
  BY <1>1, <1>2, <1>3

LEMMA RespondRows ==
  ASSUME TypeInv, TypeInv', RowsInv, NEW t \in Thread, Respond(t)
  PROVE  RowsInv'
<1>1. /\ job' = [job EXCEPT ![t] = Idle] /\ Idle \in Job
      /\ UNCHANGED <<pdn, rows, cause>> /\ Grows(pdn, pdn') /\ Others(t)
  BY RespondParts, IdleOK, SameSessions DEF outside, TypeInv, TypeOK, Others
<1>2. CASE UNCHANGED mail
  BY <1>1, <1>2, RowsOnward
<1>3. CASE Pop(job[t].from, SiteOf[t])
  <2>1. \A h, g \in Site : \A i \in 1 .. Len(mail'[h][g]) :
          \E k \in 1 .. Len(mail[h][g]) : mail'[h][g][i] = mail[h][g][k]
    BY <1>1, <1>3, RespondParts, PoppedCopies
  <2>2. MailGoesOn(t)
    BY <2>1 DEF MailGoesOn, CopyKept
  <2>3. ASSUME Apart'
        PROVE  Rightly(t, Idle)
    <3>1. Apart /\ SiteOf[t] \in Site
      BY <1>1, <2>3, Typed DEF Apart
    <3>2. ASSUME NEW h \in Site, NEW g \in Site,
                 NEW i \in 1 .. Len(mail'[h][g])
          PROVE  CopyExact(mail'[h][g][i], pdn)
      <4>1. PICK k \in 1 .. Len(mail[h][g]) :
              mail'[h][g][i] = mail[h][g][k]
        BY <2>1
      <4> QED
        BY <3>1, <4>1 DEF RowsInv, ExactInv, CopyExact
    <3>3. /\ Unique(rows[SiteOf[t]])
          /\ \A x \in rows[SiteOf[t]] : Exact(x.cols, pdn)
      BY <3>1 DEF RowsInv, UniqueInv, ExactInv
    <3> QED
      BY <1>1, <3>2, <3>3, NobodysKeys, IdleOK DEF Rightly, KeysKept
  <2> QED
    BY <1>1, <2>2, <2>3, RowsStep
<1> QED
  BY <1>2, <1>3, RespondParts

LEMMA OthersRows ==
  ASSUME TypeInv, TypeInv', RowsInv,
         Detach \/ Tick \/ Arrive \/ \E h, g \in Site : GiveUp(h, g)
  PROVE  RowsInv'
<1>1. CASE Detach \/ Tick \/ Arrive
  <2>1. UNCHANGED <<rows, job, mail, cause>>
    BY <1>1 DEF Detach, Tick, Arrive
  <2>2. Grows(pdn, pdn')
    BY <1>1, PdnChanged, SameSessions
       DEF Detach, Ended, Tick, Arrive, outside, TypeInv, TypeOK
  <2> QED
    BY <2>1, <2>2, RowsStay
<1>2. ASSUME NEW h \in Site, NEW g \in Site, GiveUp(h, g)
      PROVE  RowsInv'
  <2>1. /\ mail[h][g] # << >> /\ Pop(h, g) /\ cause \subseteq cause'
        /\ UNCHANGED <<pdn, rows, job>> /\ Grows(pdn, pdn')
    BY <1>2, SameSessions DEF GiveUp, Blame, outside, TypeInv, TypeOK
  <2>2. \A f, e \in Site : \A i \in 1 .. Len(mail'[f][e]) :
          \E k \in 1 .. Len(mail[f][e]) : mail'[f][e][i] = mail[f][e][k]
    BY <2>1, PoppedCopies
  <2> QED
    BY <2>1, <2>2, RowsStay
<1> QED
  BY <1>1, <1>2

LEMMA InitRows == Init => RowsInv
<1> SUFFICES ASSUME Init
             PROVE  RowsInv
  OBVIOUS
<1>1. /\ \A t \in Thread : job[t] = Idle
      /\ \A h \in Site : rows[h] = {}
      /\ \A h, g \in Site : mail[h][g] = << >>
      /\ \A t \in Thread : SiteOf[t] \in Site
  BY EmergencyAssumption DEF Init
<1>2. ApartInv /\ MailInv
  BY <1>1, IdleOK DEF ApartInv, MailInv, Busy
<1>3. ExactInv /\ UniqueInv
  BY <1>1, IdleOK DEF ExactInv, ExactJob, UniqueInv, Unique
<1>4. OwnInv
  BY <1>1, IdleOK DEF OwnInv, Own
<1> QED
  BY <1>2, <1>3, <1>4 DEF RowsInv

LEMMA RowsKept == TypeInv /\ RowsInv /\ [Next]_vars => RowsInv'
<1> SUFFICES ASSUME TypeInv, RowsInv, [Next]_vars
             PROVE  RowsInv'
  OBVIOUS
<1>1. TypeInv'
  BY TypeKept
<1>2. CASE Next
  <2>1. Worker \subseteq Thread
    BY DEF Thread
  <2> QED
    BY <1>1, <1>2, <2>1, StepKinds, OthersRows, CcrIRows, CcrTRows, CallRows,
       GetRows, FindRows, CommitRowsKept, DeleteRowsKept, QueueRows, SentRows,
       AnswerRows, AnotherRows, ListRows, SweepRows, DiesRows, FailsRows,
       RespondRows, DeliverRows
<1>3. CASE UNCHANGED vars
  <2>1. UNCHANGED <<pdn, rows, job, mail, cause>> /\ Grows(pdn, pdn')
    BY <1>3, SameSessions DEF vars, outside, TypeInv, TypeOK
  <2> QED
    BY <1>1, <2>1, RowsStay
<1> QED
  BY <1>2, <1>3

LEMMA RowsAlways == Spec => [](TypeInv /\ RowsInv)
<1>1. Init => TypeInv /\ RowsInv
  BY InitTypeInv, InitRows
<1>2. TypeInv /\ RowsInv /\ [Next]_vars => (TypeInv /\ RowsInv)'
  BY TypeKept, RowsKept
<1> QED
  BY <1>1, <1>2, PTL DEF Spec

-----------------------------------------------------------------------------
(***************************************************************************)
(* Whose bearer it is.                                                     *)
(***************************************************************************)

LEMMA OneAsks ==
  ASSUME TypeInv, ApartInv, Apart, NEW t \in Thread, NEW u \in Thread,
         Asks(job[t]), Asks(job[u]), job[t].cols.s = job[u].cols.s
  PROVE  t = u
<1> SUFFICES ASSUME t # u
             PROVE  FALSE
  OBVIOUS
<1>1. Exact(job[t].cols, pdn) /\ Exact(job[u].cols, pdn)
  BY Typed DEF Asks, JobOK
<1>2. <<job[t].cols.ue, job[t].cols.ip>> \in Keys(job[t])
      /\ <<job[u].cols.ue, job[u].cols.ip>> \in Keys(job[u])
  BY KeysOf
<1>3. job[t].cols.ue = job[u].cols.ue /\ job[t].cols.ue # None
  BY <1>1, EmergencyAssumption DEF Exact, Real
<1>4. Conflict(Keys(job[t]), Keys(job[u]))
  BY <1>2, <1>3 DEF Conflict
<1> QED
  BY <1>4 DEF ApartInv, Asks, Busy

LEMMA OverStays ==
  ASSUME HomeInv, Apart, SessionsGoOn
  PROVE  \A i \in 1 .. Len(pdn) : pdn[i].at = "over" => pdn'[i].at = "over"
BY DEF HomeInv, AskedInv, SessionsGoOn

\* What is at home stays there.
LEMMA StaysHome ==
  ASSUME TypeInv, Grows(pdn, pdn'),
         \A c \in Call : call[c].at # "new" => call'[c].s = call[c].s
  PROVE  /\ \A c \in Call : call[c].at # "new" =>
              pdn'[call'[c].s].ue = pdn[call[c].s].ue
         /\ \A b \in bearers : AtHome(b, pdn, call) => AtHome(b, pdn', call')
<1>1. \A c \in Call : call[c].at # "new" => call[c].s \in 1 .. Len(pdn)
  BY DEF TypeInv, CallInv
<1>2. \A c \in Call : call[c].at # "new" =>
        pdn'[call'[c].s].ue = pdn[call[c].s].ue
  BY <1>1 DEF Grows
<1>3. \A b \in bearers : /\ b[1] \in 1 .. Len(pdn) /\ b[2] \in Call
                         /\ call[b[2]].at # "new"
  BY DEF TypeInv, TypeOK, CallInv, Bearer
<1> QED
  BY <1>2, <1>3 DEF AtHome, Grows

LEMMA HomeStep ==
  ASSUME TypeInv, TypeInv', RowsInv, RowsInv', HomeInv, cause \subseteq cause',
         Grows(pdn, pdn'), SessionsGoOn,
         \A i \in Len(pdn) + 1 .. Len(pdn') :
           \E v \in Thread : /\ job[v].at = "idle" /\ job'[v].at # "idle"
                             /\ job'[v].from = None
                             /\ job'[v].cols.ip = pdn'[i].ip,
         \A c \in Call : call[c].at # "new" => call'[c].s = call[c].s,
         Apart' =>
           /\ AddressOK(pdn) => AddressOK(pdn') \/ Len(pdn') = Len(pdn)
           /\ \A u \in Thread :
                Asks(job'[u]) =>
                  \/ Asks(job[u]) /\ job'[u].cols = job[u].cols
                  \/ pdn'[job'[u].cols.s].at = "asked"
           /\ \A u \in Thread :
                job'[u].kind = "call" =>
                  \/ job'[u] = job[u]
                  \/ Serves(job'[u], pdn', call')
           /\ \A b \in bearers' : b \in bearers \/ AtHome(b, pdn', call')
  PROVE  HomeInv'
<1> SUFFICES ASSUME Apart'
             PROVE  HomeInv'
  BY DEF HomeInv, AskedInv, AddressInv, ServesInv
<1>1. /\ Apart /\ ApartInv
      /\ \A i \in 1 .. Len(pdn) : pdn[i].at = "over" => pdn'[i].at = "over"
  BY OverStays DEF Apart, RowsInv
<1>2. /\ pdn \in Seq(Pdn) /\ Len(pdn) \in Nat /\ Len(pdn') \in Nat
      /\ \A i \in 1 .. Len(pdn') :
           i \in 1 .. Len(pdn) \/ i \in Len(pdn) + 1 .. Len(pdn')
      /\ \A i \in 1 .. Len(pdn) : i \in 1 .. Len(pdn')
  BY DEF TypeInv, TypeOK, Grows
<1>3. AskedInv'
  <2> SUFFICES ASSUME NEW u \in Thread, Asks(job'[u])
               PROVE  pdn'[job'[u].cols.s].at = "asked"
    BY DEF AskedInv, Asks
  <2>1. CASE Asks(job[u]) /\ job'[u].cols = job[u].cols
    <3> DEFINE i == job[u].cols.s
    <3>1. i \in 1 .. Len(pdn) /\ pdn[i].at = "asked"
      BY <1>1, <2>1, Typed DEF Asks, JobOK, Exact, Real, HomeInv, AskedInv
    <3>2. \A v \in Thread : Asks(job[v]) /\ job[v].cols.s = i => v = u
      BY <1>1, <2>1, OneAsks
    <3>3. pdn'[i].at = pdn[i].at
      BY <3>1, <3>2 DEF SessionsGoOn
    <3> QED
      BY <2>1, <3>1, <3>3
  <2> QED
    BY <2>1
<1>4. AddressInv'
  <2>1. AddressOK(pdn)
    BY <1>1 DEF HomeInv, AddressInv
  <2>2. CASE Len(pdn') = Len(pdn)
    <3>1. AddressOK(pdn')
      BY <1>1, <2>1, <2>2 DEF AddressOK, Grows
    <3> QED
      BY <3>1 DEF AddressInv
  <2> QED
    BY <2>1, <2>2 DEF AddressInv
<1>5. ASSUME NEW u \in Thread, job[u].kind = "call", job'[u] = job[u]
      PROVE  Serves(job[u], pdn', call')
  <2> DEFINE o == job[u]
  <2>1. /\ o.at # "idle" /\ o.from = None /\ o.c \in Call
        /\ call[o.c].at # "new" /\ Serves(o, pdn, call)
        /\ Real(o.cols, pdn)
    BY <1>1, <1>5, Typed
       DEF JobOK, PlaceOK, TypeInv, CallInv, HomeInv, ServesInv
  <2>2. pdn'[call'[o.c].s].ue = pdn[call[o.c].s].ue
    BY <2>1, StaysHome
  <2>3. ASSUME NEW s \in Len(pdn) + 1 .. Len(pdn'), pdn'[s].ip = o.cols.ip
        PROVE  FALSE
    <3>1. PICK v \in Thread : /\ job[v].at = "idle" /\ job'[v].at # "idle"
                              /\ job'[v].from = None
                              /\ job'[v].cols.ip = pdn'[s].ip
      OBVIOUS
    <3>2. v # u
      BY <2>1, <3>1
    <3>3. /\ <<o.cols.ue, o.cols.ip>> \in Keys(o)
          /\ <<job'[v].cols.ue, job'[v].cols.ip>> \in Keys(job'[v])
      BY KeysOf
    <3>4. o.cols.ip # None
      BY <2>1, EmergencyAssumption DEF Real
    <3>5. Conflict(Keys(job'[v]), Keys(o))
      BY <2>3, <3>1, <3>3, <3>4 DEF Conflict
    <3>6. \A w, z \in Thread :
            /\ w # z /\ job'[w].at # "idle" /\ job'[z].at # "idle"
            /\ job'[w].from = None /\ job'[z].from = None
            => ~Conflict(Keys(job'[w]), Keys(job'[z]))
      <4> QED
        BY DEF RowsInv, ApartInv, Busy, Keys, Conflict
    <3> QED
      BY <1>5, <2>1, <3>1, <3>2, <3>5, <3>6
  <2>4. ASSUME o.at = "get", NEW s \in 1 .. Len(pdn'), pdn'[s].at # "over",
               pdn'[s].ip = o.cols.ip
        PROVE  pdn'[s].ue = pdn'[call'[o.c].s].ue
    <3>1. s \in 1 .. Len(pdn)
      BY <1>2, <2>3, <2>4
    <3>2. pdn[s].at # "over" /\ pdn[s].ip = o.cols.ip /\ pdn'[s].ue = pdn[s].ue
      BY <1>1, <2>4, <3>1 DEF Grows
    <3> QED
      BY <2>1, <2>2, <2>4, <3>1, <3>2 DEF Serves
  <2>5. ASSUME o.at \in {"find", "commit", "copy", "send"},
               pdn'[o.cols.s].at # "over"
        PROVE  pdn'[o.cols.s].ue = pdn'[call'[o.c].s].ue
    <3>1. /\ o.cols.s \in 1 .. Len(pdn) /\ pdn[o.cols.s].at # "over"
          /\ pdn'[o.cols.s].ue = pdn[o.cols.s].ue
      BY <1>1, <2>1, <2>5 DEF Real, Grows
    <3> QED
      BY <2>1, <2>2, <2>5, <3>1 DEF Serves
  <2> HIDE DEF o
  <2>6. Serves(o, pdn', call')
    BY <2>4, <2>5 DEF Serves
  <2> QED
    BY <2>6 DEF o
<1>6. ServesInv'
  <2>1. \A u \in Thread : job'[u].kind = "call" =>
                            Serves(job'[u], pdn', call')
    BY <1>5
  <2>2. \A b \in bearers' : AtHome(b, pdn', call')
    BY <1>1, StaysHome DEF HomeInv, ServesInv
  <2> QED
    BY <2>1, <2>2 DEF ServesInv
<1> QED
  BY <1>3, <1>4, <1>6 DEF HomeInv

LEMMA FindJob ==
  ASSUME TypeInv, NEW t \in Thread, Find(t)
  PROVE  \E j \in Job :
           /\ Within(t, j) /\ Onward(t, j) /\ j.ok = job[t].ok
           /\ UNCHANGED <<rows, mail>>
           /\ job[t].at = "find"
           /\ j.at \in {"commit", "delete", "respond", "answer"}
           /\ j.at = "commit" <=> j.kind \in {"set", "call"}
           /\ j.at = "respond" => \A x \in rows[SiteOf[t]] :
                                    x.cols.ue # j.cols.ue
<1> DEFINE o == job[t]
           R == rows[SiteOf[t]]
           x == First(Sought(SiteOf[t], o))
           at == IF o.kind # "clear" THEN "commit"
                 ELSE IF x = NoRow THEN After(o) ELSE "delete"
           j == LoadsRow(o, x, at)
<1>1. o.at = "find" /\ Loads(t, j)
  BY DEF Find, LoadsRow
<1>2. Within(t, j) /\ UNCHANGED <<rows, mail>>
  <2> HIDE DEF j
  <2> QED
    BY <1>1, LoadsParts DEF Within
<1>3. /\ o \in Job /\ o.kind \in {"set", "clear", "call"} /\ Busy(t)
  BY <1>1, Typed DEF JobOK, PlaceOK, Busy
<1>4. x \in Row /\ (x = NoRow <=> Sought(SiteOf[t], o) = {})
  <2>1. Sought(SiteOf[t], o) \subseteq R
    BY DEF Sought
  <2> HIDE DEF o
  <2> QED
    BY <2>1, ByIdTyped
<1>5. /\ at \in {"commit", "delete", "respond", "answer"} /\ at \in Places
      /\ at = "commit" <=> o.kind \in {"set", "call"}
      /\ at = "respond" => o.kind = "clear" /\ x = NoRow
  BY <1>3 DEF After, Places
<1> HIDE DEF x, at
<1>6. j \in Job /\ j.at = at /\ SameWork(j, o) /\ j.ok = o.ok
  BY <1>3, <1>4, <1>5, JobLoads
<1>7. at = "respond" => \A y \in R : y.cols.ue # o.cols.ue
  BY <1>4, <1>5 DEF Sought
<1> HIDE DEF j, o
<1>8. Onward(t, j)
  BY <1>1, <1>3, <1>5, <1>6 DEF Onward, o
<1> QED
  BY <1>1, <1>2, <1>5, <1>6, <1>7, <1>8 DEF SameWork, o

LEMMA CommitJob ==
  ASSUME TypeInv, NEW t \in Thread, Commit(t)
  PROVE  \E j \in Job :
           /\ Within(t, j) /\ Onward(t, j) /\ j.ok = job[t].ok
           /\ UNCHANGED <<mail, cause>> /\ Others(t)
           /\ job[t].at = "commit"
           /\ Own(rows[SiteOf[t]], job[t]) =>
                /\ j.at = IF j.from = None THEN "copy" ELSE "respond"
                /\ \E z \in rows'[SiteOf[t]] :
                     /\ z.cols = j.cols
                     /\ \A x \in rows'[SiteOf[t]] :
                          x = z \/ x \in rows[SiteOf[t]]
<1> DEFINE R == rows[SiteOf[t]]
           Q == rows'[SiteOf[t]]
           o == job[t]
           stored == IF o.from = None THEN "copy" ELSE "respond"
<1>1. /\ o.at = "commit" /\ o \in Job /\ o.kind \in {"set", "call"}
      /\ UNCHANGED <<outside, mail, cause>> /\ Busy(t) /\ o.old \in Row
      /\ RowsOK(R, pdn) /\ R \subseteq Row /\ o.cols \in Columns
  BY Typed, JobFields DEF Commit, Writes, JobOK, PlaceOK, Busy
<1>2. stored \in Places /\ stored \in {"copy", "respond"}
  BY DEF Places
<1>3. After(o) \in Places /\ After(o) \in {"respond", "send", "answer"}
  BY <1>1 DEF After, Places
<1>4. Others(t)
  BY CommitRows
<1>5. CASE o.old = NoRow
  <2> DEFINE y == Fresh(t)
             j == [o EXCEPT !.old = [o.old EXCEPT !.id = y.id], !.at = stored]
  <2>1. Q = R \cup {y} /\ job' = [job EXCEPT ![t] = j]
    BY <1>5, CommitRows
  <2>2. y.cols = o.cols
    BY <1>1, FreshOK DEF Fresh
  <2>3. j.at = stored /\ SameWork(j, o) /\ j.ok = o.ok
    BY <1>1 DEF Job, SameWork
  <2> HIDE DEF j, y, stored
  <2>4. j \in Job
    <3>1. j \in Job
      <4>1. TypeInv'
        BY CommitTypes
      <4> QED
        BY <2>1, <4>1, NewJob
    <3> QED
      BY <3>1
  <2>5. Onward(t, j) /\ Within(t, j)
    BY <1>1, <1>2, <2>1, <2>3 DEF Onward, Within
  <2>6. j.at = IF j.from = None THEN "copy" ELSE "respond"
    BY <2>3 DEF SameWork, stored
  <2>7. y \in Q /\ y.cols = j.cols /\ \A x \in Q : x = y \/ x \in R
    BY <2>1, <2>2, <2>3 DEF SameWork
  <2> QED
    BY <1>1, <1>4, <2>3, <2>4, <2>5, <2>6, <2>7
<1>6. CASE o.old # NoRow /\ \E x \in R : x.id = o.old.id
  <2> DEFINE j == GoesTo(o, stored)
             y == Rewritten(t, o.old)
  <2>1. /\ Q = {Rewritten(t, x) : x \in R} /\ job' = [job EXCEPT ![t] = j]
    BY <1>6, CommitRows DEF GoesTo
  <2> HIDE DEF stored
  <2>2. j \in Job /\ j.at = stored /\ SameWork(j, o) /\ j.ok = o.ok
    BY <1>1, <1>2, JobGoes
  <2>3. ASSUME Own(R, o)
        PROVE  /\ y \in Q /\ y.cols = o.cols
               /\ \A x \in Q : x = y \/ x \in R
    <3>1. o.old \in R
      BY <1>1, <1>6, <2>3 DEF Own
    <3>2. Merged(o.old.cols, o.old.cols, o.cols) = o.cols
      BY <1>1, MergedOK DEF Row
    <3>3. y.cols = o.cols
      BY <1>1, <3>2 DEF Rewritten, Row
    <3>4. \A x \in R : Rewritten(t, x) = IF x = o.old THEN y ELSE x
      BY <1>1, <3>1 DEF Rewritten, RowsOK
    <3> HIDE DEF y
    <3> QED
      BY <2>1, <3>1, <3>3, <3>4
  <2> HIDE DEF j, y
  <2>4. Onward(t, j) /\ Within(t, j)
    BY <1>1, <1>2, <2>1, <2>2 DEF Onward, Within
  <2>5. j.at = IF j.from = None THEN "copy" ELSE "respond"
    BY <2>2 DEF SameWork, stored
  <2>6. j.cols = o.cols
    BY <2>2 DEF SameWork
  <2> QED
    BY <1>1, <1>4, <2>2, <2>3, <2>4, <2>5, <2>6
<1>7. CASE o.old # NoRow /\ ~\E x \in R : x.id = o.old.id
  <2> DEFINE j == GoesTo(o, After(o))
  <2>1. job' = [job EXCEPT ![t] = j]
    BY <1>7 DEF Commit, Goes, GoesTo, ById
  <2>2. j \in Job /\ j.at = After(o) /\ SameWork(j, o) /\ j.ok = o.ok
    BY <1>1, <1>3, JobGoes
  <2>3. ~Own(R, o)
    BY <1>1, <1>7 DEF Own
  <2> HIDE DEF j
  <2>4. Onward(t, j) /\ Within(t, j)
    BY <1>1, <1>3, <2>1, <2>2 DEF Onward, Within
  <2> QED
    BY <1>1, <1>4, <2>2, <2>3, <2>4
<1> QED
  BY <1>5, <1>6, <1>7

LEMMA DeleteJob ==
  ASSUME TypeInv, NEW t \in Thread, Delete(t)
  PROVE  \E j \in Job :
           /\ Within(t, j)
           /\ Busy(t) /\ SameWork(j, job[t]) /\ j.old = job[t].old
           /\ j.kind \in {"clear", "sweep"} /\ job[t].at = "delete"
           /\ j.at = IF j.from = None THEN "copy" ELSE "respond"
           /\ UNCHANGED <<mail, cause>> /\ Others(t)
           /\ rows'[SiteOf[t]] =
                {x \in rows[SiteOf[t]] : x.id # job[t].old.id}
<1> DEFINE o == job[t]
           at == IF o.from = None THEN "copy" ELSE "respond"
           j == GoesTo(o, at)
<1>1. /\ o.at = "delete" /\ o \in Job /\ o.kind \in {"clear", "sweep"}
      /\ Busy(t) /\ UNCHANGED <<outside, mail, cause>>
  BY Typed DEF Delete, Writes, JobOK, PlaceOK, Busy
<1>2. /\ rows'[SiteOf[t]] = {x \in rows[SiteOf[t]] : x.id # o.old.id}
      /\ job' = [job EXCEPT ![t] = j] /\ Others(t)
  BY DeleteRows DEF GoesTo
<1>3. at \in Places
  BY DEF Places
<1>4. /\ j \in Job /\ j.at = at /\ SameWork(j, o) /\ j.old = o.old
  BY <1>1, <1>3, JobGoes
<1> HIDE DEF j
<1> QED
  BY <1>1, <1>2, <1>4 DEF Within, SameWork

LEMMA QueueJob ==
  ASSUME TypeInv, NEW t \in Thread, QueueCopy(t)
  PROVE  \E j \in Job :
           /\ Within(t, j) /\ Onward(t, j) /\ j.ok = job[t].ok
           /\ job[t].at = "copy" /\ j.at \in {"answer", "send", "sweep"}
           /\ j.from = None
           /\ UNCHANGED <<rows, cause>>
<1> DEFINE o == job[t]
           j == GoesTo(o, After(o))
<1>1. /\ o.at = "copy" /\ o \in Job /\ JobOK(t, o, pdn) /\ o.from = None
      /\ job' = [job EXCEPT ![t] = j] /\ UNCHANGED <<outside, rows, cause>>
      /\ Busy(t) /\ o.kind # "str"
  BY Typed DEF QueueCopy, Goes, GoesTo, JobOK, PlaceOK, Busy
<1>2. After(o) \in Places /\ After(o) \in {"answer", "send", "sweep"}
  BY <1>1 DEF After, Places
<1>3. /\ j \in Job /\ j.at = After(o) /\ SameWork(j, o) /\ j.ok = o.ok
  BY <1>1, <1>2, JobGoes
<1> HIDE DEF j
<1>4. Onward(t, j) /\ Within(t, j)
  BY <1>1, <1>2, <1>3 DEF Onward, Within
<1> QED
  BY <1>1, <1>2, <1>3, <1>4 DEF SameWork

LEMMA SweepJob ==
  ASSUME TypeInv, NEW t \in Thread, Another(t) \/ List(t) \/ Sweep(t)
  PROVE  \E j \in Job :
           /\ Within(t, j) /\ UNCHANGED <<rows, mail>>
           /\ \/ ~Busy(t)
              \/ job[t].kind = "sweep"
           /\ \/ j \in {Idle, Sweeper(t)}
              \/ /\ Busy(t) /\ SameWork(j, job[t]) /\ j.kind = "sweep"
                 /\ j.at \in {"sweep", "delete"}
<1> DEFINE o == job[t]
           R == rows[SiteOf[t]]
<1>1. o \in Job /\ JobOK(t, o, pdn) /\ Idle \in Job /\ Sweeper(t) \in Job
  BY Typed, IdleOK, SweeperOK
<1>2. CASE Another(t)
  <2>1. Within(t, Sweeper(t)) /\ UNCHANGED <<rows, mail>> /\ ~Busy(t)
    BY <1>2 DEF Another, Becomes, Reads, Within
  <2> QED
    BY <1>1, <2>1
<1>3. CASE List(t)
  <2> DEFINE X == {x \in R : Expired(x)}
             j == [o EXCEPT !.at = "sweep", !.todo = X]
  <2>1. /\ job' = [job EXCEPT ![t] = IF X = {} THEN Idle ELSE j]
        /\ UNCHANGED <<outside, rows, mail>> /\ cause \subseteq cause'
        /\ o.at = "list" /\ o.kind = "sweep" /\ Busy(t) /\ X \in SUBSET Row
    BY <1>1, <1>3, Typed DEF List, Becomes, Blame, JobOK, PlaceOK, Busy
  <2>2. /\ j \in Job /\ j.at = "sweep" /\ SameWork(j, o)
    BY <1>1, <2>1 DEF Job, SameWork
  <2>3. CASE X = {}
    <3>1. Within(t, Idle)
      BY <2>1, <2>3 DEF Within
    <3> QED
      BY <1>1, <2>1, <3>1
  <2>4. CASE X # {}
    <3>1. Within(t, j)
      BY <2>1, <2>4 DEF Within
    <3> HIDE DEF j, X
    <3> QED
      BY <2>1, <2>2, <3>1 DEF SameWork
  <2> QED
    BY <2>3, <2>4
<1>4. CASE Sweep(t)
  <2> DEFINE x == First(o.todo)
             y == First(ById(SiteOf[t], x.id))
             at == IF y = NoRow THEN o.at ELSE "delete"
             j == Sweeps(o, x, y, at)
  <2>1. /\ job' = [job EXCEPT ![t] = IF o.todo = {} THEN Idle ELSE j]
        /\ UNCHANGED <<outside, rows, mail, cause>>
        /\ o.at = "sweep" /\ o.kind = "sweep" /\ Busy(t)
    BY <1>1, <1>4 DEF Sweep, Becomes, Reads, Sweeps, JobOK, PlaceOK, Busy
  <2>2. y \in Row
    <3>1. ById(SiteOf[t], x.id) \subseteq R
      BY DEF ById
    <3> HIDE DEF x
    <3> QED
      BY <3>1, ByIdTyped
  <2>3. at \in {"sweep", "delete"}
    BY <2>1
  <2> HIDE DEF x, y, at
  <2>4. j \in Job /\ j.at = at /\ SameWork(j, o)
    BY <1>1, <2>2, <2>3, JobSweeps
  <2> HIDE DEF j
  <2>5. CASE o.todo = {}
    <3>1. Within(t, Idle)
      BY <2>1, <2>5 DEF Within
    <3> QED
      BY <1>1, <2>1, <3>1
  <2>6. CASE o.todo # {}
    <3>1. Within(t, j)
      BY <2>1, <2>6 DEF Within
    <3> QED
      BY <2>1, <2>3, <2>4, <3>1 DEF SameWork
  <2> QED
    BY <2>5, <2>6
<1> QED
  BY <1>2, <1>3, <1>4

LEMMA FailsJob ==
  ASSUME TypeInv, NEW t \in Thread, DbFails(t)
  PROVE  \E j \in Job :
           /\ Within(t, j) /\ UNCHANGED <<rows, mail>>
           /\ \/ j = Idle /\ (job[t].from # None \/ job[t].kind = "sweep")
              \/ Onward(t, j) /\ "lost" \in cause'
<1> DEFINE o == job[t]
           again == o.at = "list" \/ (o.at = "find" /\ o.from # None)
<1>1. /\ UNCHANGED <<outside, rows, mail>> /\ cause \subseteq cause'
      /\ o \in Job /\ JobOK(t, o, pdn) /\ Idle \in Job
  BY Typed, IdleOK DEF DbFails, Blame
<1>2. CASE again /\ job' = [job EXCEPT ![t] = Idle]
  <2>1. o.from # None \/ o.kind = "sweep"
    BY <1>1, <1>2 DEF JobOK, PlaceOK
  <2> QED
    BY <1>1, <1>2, <2>1 DEF Within
<1>3. ASSUME NEW ok \in BOOLEAN, o.at \in {"get", "find"},
             job' = [job EXCEPT ![t] = [o EXCEPT !.at = "answer", !.ok = ok]],
             "lost" \in cause'
      PROVE  \E j \in Job : /\ Within(t, j) /\ UNCHANGED <<rows, mail>>
                            /\ Onward(t, j) /\ "lost" \in cause'
  <2> DEFINE j == Answered(o, ok)
  <2>1. job' = [job EXCEPT ![t] = j]
    BY <1>3 DEF Answered
  <2>2. j \in Job /\ j.at = "answer" /\ SameWork(j, o)
    BY <1>1, JobAnswers
  <2> HIDE DEF j
  <2>3. Onward(t, j) /\ Within(t, j)
    BY <1>1, <1>3, <2>1, <2>2 DEF Onward, Within, Busy
  <2> QED
    BY <1>1, <1>3, <2>2, <2>3
<1>4. ASSUME o.at \in {"commit", "delete"},
             job' = [job EXCEPT ![t] = [o EXCEPT !.at = After(o)]],
             "lost" \in cause'
      PROVE  \E j \in Job : /\ Within(t, j) /\ UNCHANGED <<rows, mail>>
                            /\ Onward(t, j) /\ "lost" \in cause'
  <2> DEFINE j == GoesTo(o, After(o))
  <2>1. job' = [job EXCEPT ![t] = j]
    BY <1>4 DEF GoesTo
  <2>2. /\ After(o) \in Places
        /\ After(o) \in {"respond", "send", "sweep", "answer"}
        /\ After(o) = "send" => o.kind = "call"
    BY <1>1, <1>4, AfterOK DEF Places
  <2>3. j \in Job /\ j.at = After(o) /\ SameWork(j, o)
    BY <1>1, <2>2, JobGoes
  <2> HIDE DEF j
  <2>4. o.at = "delete" => o.kind # "call"
    BY <1>1 DEF JobOK, PlaceOK
  <2>5. Onward(t, j) /\ Within(t, j)
    BY <1>1, <1>4, <2>1, <2>2, <2>3, <2>4 DEF Onward, Within, Busy
  <2> QED
    BY <1>1, <1>4, <2>3, <2>5
<1> QED
  BY <1>1, <1>2, <1>3, <1>4, FailsWhere

\* Steps that leave the PGWs and calls alone.
LEMMA HomeAlone ==
  ASSUME TypeInv, TypeInv', RowsInv, RowsInv', HomeInv, UNCHANGED outside,
         cause \subseteq cause',
         \A u \in Thread :
           \/ job'[u] = job[u]
           \/ /\ Asks(job'[u]) => Asks(job[u]) /\ job'[u].cols = job[u].cols
              /\ Apart' /\ job'[u].kind = "call" => Serves(job'[u], pdn, call)
  PROVE  HomeInv'
<1>1. /\ UNCHANGED <<pdn, call, bearers>> /\ Grows(pdn, pdn')
      /\ Len(pdn') = Len(pdn) /\ SessionsGoOn
      /\ \A i \in Len(pdn) + 1 .. Len(pdn') : FALSE
  BY SameSessions DEF outside, SessionsGoOn, TypeInv, TypeOK
<1> QED
  BY <1>1, HomeStep

LEMMA HomeWithin ==
  ASSUME TypeInv, TypeInv', RowsInv, RowsInv', HomeInv, NEW t \in Thread,
         NEW j, Within(t, j),
         Asks(j) => Asks(job[t]) /\ j.cols = job[t].cols,
         Apart' /\ j.kind = "call" => Serves(j, pdn, call)
  PROVE  HomeInv'
<1>1. job'[t] = j /\ \A u \in Thread \ {t} : job'[u] = job[u]
  BY DEF Within, TypeInv, TypeOK
<1> QED
  BY <1>1, HomeAlone DEF Within

LEMMA NotAsking ==
  ASSUME NEW t
  PROVE  /\ ~Asks(Idle) /\ ~Asks(Sweeper(t))
         /\ Idle.kind # "call" /\ Sweeper(t).kind # "call"
BY DEF Asks, Idle, Sweeper, Handler

LEMMA HomeOnward ==
  ASSUME TypeInv, TypeInv', RowsInv, RowsInv', HomeInv, NEW t \in Thread,
         NEW j, Within(t, j),
         \/ j \in {Idle, Sweeper(t)}
         \/ Onward(t, j)
         \/ j.kind \in {"set", "clear", "sweep"} /\ ~Asks(j)
  PROVE  HomeInv'
<1>1. CASE \/ j \in {Idle, Sweeper(t)}
           \/ j.kind \in {"set", "clear", "sweep"} /\ ~Asks(j)
  BY <1>1, NotAsking, HomeWithin
<1>2. CASE Onward(t, j)
  <2>1. Asks(j) => Asks(job[t]) /\ j.cols = job[t].cols
    BY <1>2 DEF Asks, Onward, SameWork, Busy
  <2>2. ASSUME Apart', j.kind = "call"
        PROVE  Serves(j, pdn, call)
    <3>1. Apart
      BY <2>2 DEF Apart, Within
    <3>2. /\ job[t].kind = "call" /\ job[t].c = j.c /\ job[t].cols = j.cols
          /\ j.at # "get" /\ j.at # "find"
          /\ j.at \in {"commit", "copy", "send"} =>
               job[t].at \in {"find", "commit", "copy"}
      BY <1>2, <2>2 DEF Onward, SameWork
    <3>3. Serves(job[t], pdn, call)
      BY <3>1, <3>2 DEF HomeInv, ServesInv
    <3> QED
      BY <3>2, <3>3 DEF Serves
  <2> QED
    BY <2>1, <2>2, HomeWithin
<1> QED
  BY <1>1, <1>2

\* The row that Get finds: its own handler's, for an AAR.
LEMMA GetJob ==
  ASSUME TypeInv, NEW t \in Thread, Get(t)
  PROVE  \E j \in Job :
           /\ Within(t, j) /\ Busy(t) /\ UNCHANGED <<rows, mail>>
           /\ job[t].at = "get" /\ job[t].kind \in {"call", "str"}
           /\ j.kind = job[t].kind /\ j.c = job[t].c /\ j.from = job[t].from
           /\ Apart' => KeysKept(t, j)
           /\ \/ j.at = "answer" /\ j.cols = job[t].cols
              \/ /\ j.kind = "call" /\ j.at = "find"
                 /\ \E x \in rows[SiteOf[t]] :
                      /\ x.cols.ip = job[t].cols.ip
                      /\ j.cols = [x.cols EXCEPT !.rx = j.c]
                      /\ j.cols.ue = x.cols.ue /\ j.cols.s = x.cols.s
                      /\ j.cols.ip = x.cols.ip
              \/ j.kind = "str" /\ j.at = "send"
<1> DEFINE o == job[t]
           R == rows[SiteOf[t]]
           X == Caller(SiteOf[t], o)
           x == First(X)
           j == IF x = NoRow
                THEN [o EXCEPT !.at = "answer", !.ok = o.kind = "str"]
                ELSE IF o.kind = "call"
                THEN [o EXCEPT !.at = "find",
                               !.cols = [x.cols EXCEPT !.rx = o.c]]
                ELSE [o EXCEPT !.at = "send", !.cols = x.cols]
<1>1. o.at = "get" /\ Loads(t, j) /\ Busy(t)
  BY DEF Get, Busy
<1>2. /\ Within(t, j) /\ UNCHANGED <<rows, mail>>
      /\ Apart' => KeysKept(t, j)
      /\ job' = [job EXCEPT ![t] = j]
  <2> HIDE DEF j
  <2> QED
    BY <1>1, LoadsParts DEF Within
<1>3. /\ o \in Job /\ o.kind \in {"call", "str"} /\ R \subseteq Row
  BY <1>1, Typed DEF JobOK, PlaceOK
<1>4. j \in Job
  <2>1. TypeInv'
    BY GetTypes
  <2> HIDE DEF j
  <2> QED
    BY <1>2, <2>1, NewJob
<1>5. x # NoRow => x \in X
  <2>1. X \subseteq R
    BY DEF Caller
  <2> HIDE DEF X
  <2> QED
    BY <2>1, ByIdTyped
<1>6. j.kind = o.kind /\ j.c = o.c /\ j.from = o.from
  <2> HIDE DEF x
  <2> QED
    BY <1>3 DEF Job
<1>7. CASE x = NoRow
  <2>1. j.at = "answer" /\ j.cols = o.cols
    BY <1>3, <1>7 DEF Job
  <2> HIDE DEF j
  <2> QED
    BY <1>1, <1>2, <1>3, <1>4, <1>6, <2>1
<1>8. CASE x # NoRow /\ o.kind = "call"
  <2>1. x \in R /\ x.cols.ip = o.cols.ip
    BY <1>5, <1>8 DEF Caller
  <2>2. j.at = "find" /\ j.cols = [x.cols EXCEPT !.rx = j.c]
    BY <1>3, <1>8 DEF Job
  <2>3. x.cols \in Columns
    BY <1>3, <2>1 DEF Row
  <2> HIDE DEF j, x
  <2>4. j.cols.ue = x.cols.ue /\ j.cols.s = x.cols.s /\ j.cols.ip = x.cols.ip
    BY <2>2, <2>3, RxOnly
  <2> QED
    BY <1>1, <1>2, <1>3, <1>4, <1>6, <1>8, <2>1, <2>2, <2>4
<1>9. CASE x # NoRow /\ o.kind = "str"
  <2>1. j.at = "send"
    BY <1>3, <1>9 DEF Job
  <2> HIDE DEF j
  <2> QED
    BY <1>1, <1>2, <1>3, <1>4, <1>6, <1>9, <2>1
<1> QED
  BY <1>3, <1>7, <1>8, <1>9

LEMMA GetHome ==
  ASSUME TypeInv, TypeInv', RowsInv, RowsInv', HomeInv, NEW t \in Thread,
         Get(t)
  PROVE  HomeInv'
<1> DEFINE o == job[t]
<1>1. PICK j \in Job :
        /\ Within(t, j) /\ Busy(t) /\ UNCHANGED <<rows, mail>>
        /\ o.at = "get" /\ o.kind \in {"call", "str"}
        /\ j.kind = o.kind /\ j.c = o.c /\ j.from = o.from
        /\ \/ j.at = "answer" /\ j.cols = o.cols
           \/ /\ j.kind = "call" /\ j.at = "find"
              /\ \E x \in rows[SiteOf[t]] :
                   /\ x.cols.ip = o.cols.ip
                   /\ j.cols.s = x.cols.s
           \/ j.kind = "str" /\ j.at = "send"
  BY GetJob
<1>2. ~Asks(j)
  BY <1>1 DEF Asks
<1>3. ASSUME Apart', j.kind = "call"
      PROVE  Serves(j, pdn, call)
  <2>1. Apart
    BY <1>1, <1>3 DEF Apart, Within
  <2>2. CASE j.at = "answer"
    BY <2>2 DEF Serves
  <2>3. CASE j.at = "find"
    <3>1. PICK x \in rows[SiteOf[t]] : x.cols.ip = o.cols.ip /\ j.cols.s = x.cols.s
      BY <1>1, <2>3
    <3>2. Exact(x.cols, pdn)
      BY <2>1, Typed DEF RowsInv, ExactInv
    <3>3. Serves(o, pdn, call)
      BY <1>1, <1>3, <2>1 DEF HomeInv, ServesInv
    <3> QED
      BY <1>1, <2>3, <3>1, <3>2, <3>3 DEF Serves, Exact, Real
  <2> QED
    BY <1>1, <1>3, <2>2, <2>3
<1> QED
  BY <1>1, <1>2, <1>3, HomeWithin

LEMMA InnerHome ==
  ASSUME TypeInv, TypeInv', RowsInv, RowsInv', HomeInv, NEW t \in Thread,
         \/ Find(t) \/ Commit(t) \/ Delete(t) \/ QueueCopy(t)
         \/ Another(t) \/ List(t) \/ Sweep(t) \/ DbFails(t) \/ Respond(t)
  PROVE  HomeInv'
<1>1. CASE Find(t)
  BY <1>1, FindJob, HomeOnward
<1>2. CASE Commit(t)
  BY <1>2, CommitJob, HomeOnward
<1>3. CASE Delete(t)
  <2>1. PICK j \in Job : Within(t, j) /\ j.kind \in {"clear", "sweep"}
    BY <1>3, DeleteJob
  <2> QED
    BY <2>1, HomeOnward DEF Asks
<1>4. CASE QueueCopy(t)
  BY <1>4, QueueJob, HomeOnward
<1>5. CASE Another(t) \/ List(t) \/ Sweep(t)
  <2>1. PICK j \in Job : Within(t, j) /\ (j \in {Idle, Sweeper(t)} \/ j.kind = "sweep")
    BY <1>5, SweepJob
  <2> QED
    BY <2>1, HomeOnward DEF Asks
<1>6. CASE DbFails(t)
  BY <1>6, FailsJob, HomeOnward
<1>7. CASE Respond(t)
  <2>1. Within(t, Idle)
    BY <1>7, RespondParts DEF Within
  <2> QED
    BY <2>1, HomeOnward
<1> QED
  BY <1>1, <1>2, <1>3, <1>4, <1>5, <1>6, <1>7

LEMMA DeliverJob ==
  ASSUME TypeInv, NEW t \in Api, NEW h \in Site, Deliver(t, h)
  PROVE  \E j \in Job :
           /\ t \in Thread /\ Within(t, j) /\ UNCHANGED <<rows, mail>> /\ ~Busy(t)
           /\ j.at = "find" /\ j.from # None /\ j.kind \in {"set", "clear"}
<1> DEFINE m == mail[h][SiteOf[t]]
           x == Head(m)
           j == Handler("find", x.kind, x.cols, None, h)
<1>1. /\ t \in Thread /\ SiteOf[t] \in Site /\ m # << >> /\ Begin(t, j, {})
      /\ UNCHANGED <<outside, rows, mail>>
  BY Typed DEF Deliver, Thread
<1>2. m \in Seq(Copy)
  BY <1>1 DEF TypeInv, TypeOK
<1>3. x \in Copy
  BY <1>1, <1>2
<1>4. x.kind \in {"set", "clear"} /\ h # None
  BY <1>3, EmergencyAssumption DEF Copy
<1>5. /\ j \in Job /\ j.at = "find" /\ j.kind = x.kind /\ j.from = h
  <2> HIDE DEF x
  <2> QED
    BY <1>3, CopyJob
<1> HIDE DEF j
<1> QED
  BY <1>1, <1>4, <1>5 DEF Within, Begin, Blame

LEMMA DeliverHome ==
  ASSUME TypeInv, TypeInv', RowsInv, RowsInv', HomeInv, NEW t \in Api,
         NEW h \in Site, Deliver(t, h)
  PROVE  HomeInv'
BY DeliverJob, HomeOnward DEF Asks

\* Steps of the PGWs and P-CSCFs.
LEMMA EndedSessions ==
  ASSUME TypeInv, NEW s \in 1 .. Len(pdn), pdn[s].at = "up", Ended(s)
  PROVE  /\ Grows(pdn, pdn') /\ Len(pdn') = Len(pdn) /\ SessionsGoOn
         /\ bearers' \subseteq bearers
<1>1. pdn' = [pdn EXCEPT ![s].at = "over"] /\ bearers' \subseteq bearers
  BY DEF Ended
<1>2. /\ Len(pdn') = Len(pdn) /\ Grows(pdn, pdn')
      /\ \A i \in 1 .. Len(pdn) :
           pdn'[i].at = IF i = s THEN "over" ELSE pdn[i].at
  BY <1>1, PdnChanged DEF TypeInv, TypeOK
<1> QED
  BY <1>1, <1>2 DEF SessionsGoOn

LEMMA DetachHome ==
  ASSUME TypeInv, TypeInv', RowsInv, RowsInv', HomeInv, Detach
  PROVE  HomeInv'
<1>1. PICK s \in 1 .. Len(pdn) : pdn[s].at = "up" /\ Ended(s)
  BY DEF Detach
<1>2. UNCHANGED <<job, call, cause>>
  BY DEF Detach
<1>3. /\ Grows(pdn, pdn') /\ Len(pdn') = Len(pdn) /\ SessionsGoOn
      /\ bearers' \subseteq bearers
      /\ \A i \in Len(pdn) + 1 .. Len(pdn') : FALSE
  BY <1>1, EndedSessions DEF TypeInv, TypeOK
<1> QED
  BY <1>2, <1>3, HomeStep

LEMMA ArriveHome ==
  ASSUME TypeInv, TypeInv', RowsInv, RowsInv', HomeInv, Arrive
  PROVE  HomeInv'
<1>1. UNCHANGED <<pdn, job, call, cause>>
  BY Arrives
<1>2. /\ Grows(pdn, pdn') /\ SessionsGoOn
      /\ \A i \in Len(pdn) + 1 .. Len(pdn') : FALSE
  BY <1>1, SameSessions DEF SessionsGoOn, TypeInv, TypeOK
<1>3. Apart' => \A b \in bearers' : AtHome(b, pdn', call')
  BY <1>1, Arrives DEF Apart, HomeInv, ServesInv, AtHome
<1> QED
  BY <1>1, <1>2, <1>3, HomeStep

LEMMA CcrTHome ==
  ASSUME TypeInv, TypeInv', RowsInv, RowsInv', HomeInv, NEW t \in Worker,
         CcrT(t)
  PROVE  HomeInv'
<1>1. PICK s \in 1 .. Len(pdn), why \in SUBSET Cause :
        /\ pdn[s].at = "up" /\ Ended(s)
        /\ Request(t, Handler("find", "clear", About(s), None, None), why)
        /\ UNCHANGED call
  BY CcrTParts
<1> DEFINE j == Handler("find", "clear", About(s), None, None)
<1>2. j.kind = "clear"
  BY DEF Handler
<1>3. t \in Thread /\ job' = [job EXCEPT ![t] = j] /\ cause \subseteq cause'
  BY <1>1 DEF Request, Begin, Blame, Thread
<1> HIDE DEF j
<1>4. job'[t] = j /\ \A u \in Thread \ {t} : job'[u] = job[u]
  BY <1>3 DEF TypeInv, TypeOK
<1>5. \A u \in Thread : job'[u] = job[u] \/ job'[u].kind = "clear"
  BY <1>2, <1>4
<1>6. /\ Grows(pdn, pdn') /\ Len(pdn') = Len(pdn) /\ SessionsGoOn
      /\ bearers' \subseteq bearers
      /\ \A i \in Len(pdn) + 1 .. Len(pdn') : FALSE
  BY <1>1, EndedSessions DEF TypeInv, TypeOK
<1>7. \A u \in Thread :
        /\ Asks(job'[u]) => Asks(job[u]) /\ job'[u].cols = job[u].cols
        /\ job'[u].kind = "call" => job'[u] = job[u]
  BY <1>5 DEF Asks
<1> QED
  BY <1>1, <1>3, <1>6, <1>7, HomeStep

LEMMA AarHome ==
  ASSUME TypeInv, TypeInv', RowsInv, RowsInv', HomeInv, NEW t \in Worker,
         Aar(t)
  PROVE  HomeInv'
<1>1. PICK u \in Ue, c \in Call, why \in SUBSET Cause :
        LET s == current[u] IN
        /\ s # None
        /\ pdn[s].at = "up"
        /\ call[c] \in {[s |-> None, at |-> "new"], [s |-> s, at |-> "up"]}
        /\ Request(t, Handler("get", "call", About(s), c, None), why)
        /\ call' = [call EXCEPT ![c] = [s |-> s, at |-> "asked"]]
        /\ UNCHANGED <<pdn, current, bearers>>
  BY AarParts
<1> DEFINE s == current[u]
           j == Handler("get", "call", About(s), c, None)
<1>2. s \in 1 .. Len(pdn) /\ pdn[s].at = "up"
  BY <1>1 DEF TypeInv, CurrentInv
<1>3. t \in Thread /\ job' = [job EXCEPT ![t] = j] /\ cause \subseteq cause'
  BY <1>1 DEF Request, Begin, Blame, Thread
<1> HIDE DEF s
<1>4. /\ j.kind = "call" /\ j.at = "get" /\ j.c = c /\ j.cols = About(s)
      /\ About(s).ip = pdn[s].ip
  BY <1>2, AboutOK DEF Handler, Exact
<1> HIDE DEF j
<1>5. job'[t] = j /\ \A v \in Thread \ {t} : job'[v] = job[v]
  BY <1>3 DEF TypeInv, TypeOK
<1>6. /\ call'[c].s = s
      /\ \A d \in Call : call[d].at # "new" => call'[d].s = call[d].s
  <2>1. call' = [call EXCEPT ![c] = [s |-> s, at |-> "asked"]]
    BY <1>1 DEF s
  <2>2. call[c].at # "new" => call[c].s = s
    BY <1>1 DEF s
  <2>3. DOMAIN call = Call
    BY DEF TypeInv, TypeOK
  <2> QED
    BY <2>1, <2>2, <2>3
<1>7. /\ UNCHANGED <<pdn, bearers>> /\ Grows(pdn, pdn')
      /\ Len(pdn') = Len(pdn) /\ SessionsGoOn
      /\ \A i \in Len(pdn) + 1 .. Len(pdn') : FALSE
  BY <1>1, SameSessions DEF SessionsGoOn, TypeInv, TypeOK
<1>8. ASSUME Apart'
      PROVE  Serves(j, pdn', call')
  <2>1. AddressOK(pdn)
    BY <1>3, <1>8 DEF Apart, HomeInv, AddressInv
  <2> QED
    BY <1>2, <1>4, <1>6, <1>7, <2>1 DEF Serves, AddressOK
<1>9. ~Asks(j)
  BY <1>4 DEF Asks
<1>10. /\ \A v \in Thread : Asks(job'[v]) => Asks(job[v]) /\ job'[v].cols = job[v].cols
       /\ Apart' => \A v \in Thread : job'[v] = job[v] \/ Serves(job'[v], pdn', call')
  BY <1>5, <1>8, <1>9
<1> QED
  BY <1>3, <1>6, <1>7, <1>10, HomeStep

LEMMA StrHome ==
  ASSUME TypeInv, TypeInv', RowsInv, RowsInv', HomeInv, NEW t \in Worker,
         Str(t)
  PROVE  HomeInv'
<1>1. PICK c \in Call :
        /\ Request(t, Handler("get", "str", About(call[c].s), c, None), {})
        /\ call' = [call EXCEPT ![c].at = "ending"]
        /\ UNCHANGED <<pdn, current, bearers>>
  BY DEF Str
<1> DEFINE j == Handler("get", "str", About(call[c].s), c, None)
<1>2. j.kind = "str"
  BY DEF Handler
<1>3. t \in Thread /\ job' = [job EXCEPT ![t] = j] /\ cause \subseteq cause'
  BY <1>1 DEF Request, Begin, Blame, Thread
<1> HIDE DEF j
<1>4. job'[t] = j /\ \A v \in Thread \ {t} : job'[v] = job[v]
  BY <1>3 DEF TypeInv, TypeOK
<1>5. \A d \in Call : call'[d].s = call[d].s
  <2>1. call \in [Call -> CallType]
    BY DEF TypeInv, TypeOK, CallType
  <2> QED
    BY <1>1, <2>1 DEF CallType
<1>6. /\ UNCHANGED <<pdn, bearers>> /\ Grows(pdn, pdn')
      /\ Len(pdn') = Len(pdn) /\ SessionsGoOn
      /\ \A i \in Len(pdn) + 1 .. Len(pdn') : FALSE
  BY <1>1, SameSessions DEF SessionsGoOn, TypeInv, TypeOK
<1>7. \A v \in Thread :
        /\ Asks(job'[v]) => Asks(job[v]) /\ job'[v].cols = job[v].cols
        /\ job'[v].kind = "call" => job'[v] = job[v]
  BY <1>2, <1>4 DEF Asks
<1> QED
  BY <1>3, <1>5, <1>6, <1>7, HomeStep

LEMMA SentHome ==
  ASSUME TypeInv, TypeInv', RowsInv, RowsInv', HomeInv, NEW t \in Thread,
         Sent(t)
  PROVE  HomeInv'
<1> DEFINE o == job[t]
<1>0. PICK ok \in BOOLEAN : job' = [job EXCEPT ![t] = Answered(o, ok)]
  BY SentIs
<1> DEFINE j == Answered(o, ok)
<1>1. /\ o.at = "send" /\ job' = [job EXCEPT ![t] = j] /\ Busy(t)
      /\ UNCHANGED <<pdn, call, cause>> /\ o.kind \in {"call", "str"}
      /\ o \in Job
  BY <1>0, SentIs DEF Busy
<1>2. j.at = "answer" /\ SameWork(j, o)
  BY <1>1, JobAnswers
<1> HIDE DEF j
<1>3. job'[t] = j /\ \A v \in Thread \ {t} : job'[v] = job[v]
  BY <1>1 DEF TypeInv, TypeOK
<1>4. ~Asks(j) /\ Serves(j, pdn', call')
  BY <1>1, <1>2 DEF Asks, SameWork, Serves
<1>5. /\ Grows(pdn, pdn') /\ Len(pdn') = Len(pdn) /\ SessionsGoOn
      /\ \A i \in Len(pdn) + 1 .. Len(pdn') : FALSE
  BY <1>1, SameSessions DEF SessionsGoOn, TypeInv, TypeOK
<1>6. ASSUME Apart', NEW b \in bearers', b \notin bearers
      PROVE  AtHome(b, pdn', call')
  <2>1. b[1] = o.cols.s /\ b[2] = o.c
    BY <1>6, SentIs
  <2>2. CASE o.kind = "call" /\ pdn[o.cols.s].at = "up"
    <3>1. Serves(o, pdn, call)
      BY <1>1, <1>6, <2>2 DEF Apart, HomeInv, ServesInv
    <3> QED
      BY <1>1, <2>1, <2>2, <3>1 DEF Serves, AtHome
  <2>3. CASE \E a \in bearers : a[1] = b[1] /\ a[2] = b[2]
    BY <1>1, <1>6, <2>3 DEF Apart, HomeInv, ServesInv, AtHome
  <2> QED
    BY <1>6, <2>2, <2>3, SentIs
<1>7. \A v \in Thread :
        /\ Asks(job'[v]) => Asks(job[v]) /\ job'[v].cols = job[v].cols
        /\ job'[v] = job[v] \/ Serves(job'[v], pdn', call')
  BY <1>3, <1>4
<1> QED
  BY <1>1, <1>5, <1>6, <1>7, HomeStep

\* Sessions that are answered, or whose worker dies.
LEMMA AnswerHome ==
  ASSUME TypeInv, TypeInv', RowsInv, RowsInv', HomeInv, NEW t \in Thread,
         Answer(t) \/ (t \in Worker /\ Dies(t))
  PROVE  HomeInv'
<1> DEFINE o == job[t]
           s == o.cols.s
<1>1. PICK at \in {"asked", "up", "over"} :
        pdn' = IF o.kind # "set" THEN pdn ELSE [pdn EXCEPT ![s].at = at]
  BY DEF Answer, Dies
<1>2. /\ job' = [job EXCEPT ![t] = IF Answer(t) THEN Sweeper(t) ELSE Idle]
      /\ cause \subseteq cause' /\ UNCHANGED bearers
      /\ o.at # "idle" /\ o.from = None
  <2>1. CASE Answer(t)
    BY <2>1, Typed DEF Answer, Becomes, JobOK, PlaceOK
  <2>2. CASE ~Answer(t)
    <3>1. Dies(t) /\ t \notin Api
      BY <2>2, EmergencyAssumption
    <3> QED
      BY <2>2, <3>1, Typed DEF Dies, Busy, Becomes, Blame, JobOK
  <2> QED
    BY <2>1, <2>2
<1>3. /\ Grows(pdn, pdn') /\ Len(pdn') = Len(pdn)
      /\ \A i \in 1 .. Len(pdn) :
           pdn'[i].at = pdn[i].at \/ (o.kind = "set" /\ i = s)
  <2>1. CASE o.kind # "set"
    BY <1>1, <2>1, SameSessions DEF TypeInv, TypeOK
  <2>2. CASE o.kind = "set"
    <3>1. pdn' = [pdn EXCEPT ![s].at = at] /\ pdn \in Seq(Pdn)
      BY <1>1, <2>2 DEF TypeInv, TypeOK
    <3> HIDE DEF s
    <3>2. /\ Len(pdn') = Len(pdn) /\ Grows(pdn, pdn')
          /\ \A i \in 1 .. Len(pdn) :
               pdn'[i].at = IF i = s THEN at ELSE pdn[i].at
      BY <3>1, PdnChanged
    <3> QED
      BY <2>2, <3>2
  <2> QED
    BY <2>1, <2>2
<1>4. /\ job'[t] \in {Idle, Sweeper(t)}
      /\ \A v \in Thread \ {t} : job'[v] = job[v]
  BY <1>2 DEF TypeInv, TypeOK
<1>5. ~Asks(job'[t]) /\ job'[t].kind # "call"
  BY <1>4, NotAsking
<1>6. SessionsGoOn
  BY <1>2, <1>3, <1>5 DEF SessionsGoOn, Asks
<1>7. \A c \in Call : call'[c].s = call[c].s
  <2>1. CASE Answer(t)
    BY <2>1, AnswerOutside
  <2>2. CASE ~Answer(t)
    BY <2>2 DEF Dies
  <2> QED
    BY <2>1, <2>2
<1>8. \A v \in Thread :
        /\ Asks(job'[v]) => Asks(job[v]) /\ job'[v].cols = job[v].cols
        /\ job'[v].kind = "call" => job'[v] = job[v]
  BY <1>4, <1>5
<1>9. \A i \in Len(pdn) + 1 .. Len(pdn') : FALSE
  BY <1>3 DEF TypeInv, TypeOK
<1> QED
  BY <1>2, <1>3, <1>6, <1>7, <1>8, <1>9, HomeStep

LEMMA CcrIHome ==
  ASSUME TypeInv, TypeInv', RowsInv, RowsInv', HomeInv, NEW t \in Worker,
         CcrI(t)
  PROVE  HomeInv'
<1>1. PICK u \in Ue, ip \in Ip, why \in SUBSET Cause :
        /\ Free(ip, u)
        /\ Begin(t, Handler("find", "set", Filled(Len(pdn) + 1, u, ip),
                           None, None), why)
        /\ pdn' = Append(pdn, [ue |-> u, ip |-> ip, at |-> "asked"])
        /\ UNCHANGED <<current, call, bearers, clock, rows, mail>>
  BY CcrIParts
<1> DEFINE s == Len(pdn) + 1
           j == Handler("find", "set", Filled(s, u, ip), None, None)
<1>2. /\ pdn \in Seq(Pdn) /\ Len(pdn) \in Nat /\ Grows(pdn, pdn')
      /\ Len(pdn') = s /\ s \in Session
      /\ pdn'[s] = [ue |-> u, ip |-> ip, at |-> "asked"]
      /\ \A i \in 1 .. Len(pdn) : pdn'[i] = pdn[i]
  BY <1>1, PdnAsked DEF TypeInv, TypeOK, Session
<1>3. /\ t \in Thread /\ job' = [job EXCEPT ![t] = j] /\ job[t].at = "idle"
      /\ cause \subseteq cause'
  BY <1>1 DEF Begin, Blame, Thread, Busy
<1>4. j.at = "find" /\ j.from = None /\ j.cols.ip = ip /\ j.cols.s = s
      /\ j.kind = "set"
  BY DEF Handler, Filled
<1> HIDE DEF j
<1>5. job'[t] = j /\ \A v \in Thread \ {t} : job'[v] = job[v]
  BY <1>3 DEF TypeInv, TypeOK
<1>6. SessionsGoOn
  BY <1>2 DEF SessionsGoOn
<1>7. \A i \in Len(pdn) + 1 .. Len(pdn') : i = s
  BY <1>2
<1>8. \A i \in Len(pdn) + 1 .. Len(pdn') :
        \E v \in Thread : /\ job[v].at = "idle" /\ job'[v].at # "idle"
                          /\ job'[v].from = None
                          /\ job'[v].cols.ip = pdn'[i].ip
  BY <1>2, <1>3, <1>4, <1>5, <1>7
<1>9. AddressOK(pdn) => AddressOK(pdn')
  <2>1. \A i \in 1 .. Len(pdn') : i \in 1 .. Len(pdn) \/ i = s
    BY <1>2
  <2>2. \A i \in 1 .. Len(pdn) :
          pdn[i].at # "over" /\ pdn[i].ip = ip => pdn[i].ue = u
    BY <1>1 DEF Free
  <2> HIDE DEF s
  <2> QED
    BY <1>2, <2>1, <2>2 DEF AddressOK
<1>10. \A v \in Thread :
         /\ Asks(job'[v]) => \/ Asks(job[v]) /\ job'[v].cols = job[v].cols
                             \/ pdn'[job'[v].cols.s].at = "asked"
         /\ job'[v].kind = "call" => job'[v] = job[v]
  BY <1>2, <1>4, <1>5
<1> HIDE DEF s
<1> QED
  BY <1>1, <1>2, <1>3, <1>6, <1>8, <1>9, <1>10, HomeStep

LEMMA InitHome == Init => HomeInv
<1> SUFFICES ASSUME Init
             PROVE  HomeInv
  OBVIOUS
<1>1. \A t \in Thread : job[t] = Idle
  BY DEF Init
<1>2. Len(pdn) = 0 /\ bearers = {}
  BY EmptySeq DEF Init
<1>3. \A t : ~Asks(Idle) /\ Idle.kind # "call"
  BY NotAsking
<1> QED
  BY <1>1, <1>2, <1>3
     DEF HomeInv, AskedInv, AddressInv, AddressOK, ServesInv

LEMMA HomeKept ==
  TypeInv /\ RowsInv /\ HomeInv /\ [Next]_vars => HomeInv'
<1> SUFFICES ASSUME TypeInv, RowsInv, HomeInv, [Next]_vars
             PROVE  HomeInv'
  OBVIOUS
<1>1. TypeInv' /\ RowsInv'
  BY TypeKept, RowsKept
<1>2. ASSUME UNCHANGED <<outside, job>>, cause \subseteq cause'
      PROVE  HomeInv'
  BY <1>1, <1>2, HomeAlone
<1>3. CASE Next
  <2>1. CASE Tick
    BY <1>2, <2>1 DEF Tick
  <2>2. ASSUME NEW h \in Site, NEW g \in Site, GiveUp(h, g)
        PROVE  HomeInv'
    BY <1>2, <2>2 DEF GiveUp, Blame
  <2> QED
    BY <1>1, <1>3, <2>1, <2>2, StepKinds, DetachHome, ArriveHome,
       CcrIHome, CcrTHome, AarHome, StrHome, GetHome, InnerHome, SentHome, AnswerHome,
       DeliverHome DEF Thread
<1>4. CASE UNCHANGED vars
  BY <1>2, <1>4 DEF vars
<1> QED
  BY <1>3, <1>4

-----------------------------------------------------------------------------
(***************************************************************************)
(* That what is stored and sent on is of a UE's latest session.            *)
(***************************************************************************)

LEMMA SameLatest ==
  ASSUME TypeInv, Grows(pdn, pdn'), Len(pdn') = Len(pdn)
  PROVE  Newer
<1> SUFFICES ASSUME NEW s \in 1 .. Len(pdn), Latest(pdn, s)
             PROVE  Latest(pdn', s)
  BY DEF Newer
<1>1. Len(pdn) \in Nat
  BY DEF TypeInv, TypeOK
<1>2. \A i \in s + 1 .. Len(pdn) : i \in 1 .. Len(pdn)
  BY <1>1
<1> QED
  BY <1>2 DEF Latest, Grows

LEMMA StaysFine ==
  ASSUME Newer, NEW k, Exact(k, pdn), Fine(k, job, pdn),
         Settling(job, k.ue) => Settling(job', k.ue)
  PROVE  Fine(k, job', pdn')
<1>1. CASE Settling(job, k.ue)
  BY <1>1 DEF Fine
<1>2. CASE Latest(pdn, k.s)
  <2>1. k.s \in 1 .. Len(pdn) /\ pdn[k.s].ue = k.ue
    BY DEF Exact, Real
  <2>2. \/ Latest(pdn', k.s)
        \/ \E v \in Thread : Settles(job'[v], k.ue)
    BY <1>2, <2>1 DEF Newer
  <2> QED
    BY <2>2 DEF Fine, Settling
<1> QED
  BY <1>1, <1>2 DEF Fine

LEMMA SettlingStays ==
  ASSUME SettlingKept
  PROVE  \A u : Settling(job, u) => Settling(job', u)
BY DEF SettlingKept, Settling

\* A copy that was the last about its UE, and a row, stay as fresh as they are.
LEMMA CopyStaysFine ==
  ASSUME RowsInv, Apart, Newer, MailFresh(mail, job, pdn),
         NEW h \in Site, NEW g \in Site, NEW i \in 1 .. Len(mail[h][g]),
         mail[h][g][i].kind = "set", LastOf(mail[h][g], i),
         NEW k, k = mail[h][g][i].cols,
         Settling(job, k.ue) => Settling(job', k.ue)
  PROVE  Fine(k, job', pdn')
<1>1. Exact(k, pdn) /\ Fine(k, job, pdn)
  BY DEF MailFresh, RowsInv, ExactInv
<1> QED
  BY <1>1, StaysFine

LEMMA RowStaysFine ==
  ASSUME RowsInv, Apart, Newer, RowsFresh(rows, mail, job, pdn),
         NEW g \in Site, NEW x \in rows[g],
         Settling(job, x.cols.ue) => Settling(job', x.cols.ue),
         Pending(mail, x.cols.ue, g) => Pending(mail', x.cols.ue, g)
  PROVE  Fine(x.cols, job', pdn') \/ Pending(mail', x.cols.ue, g)
<1>1. Exact(x.cols, pdn)
  BY DEF RowsInv, ExactInv
<1>2. Fine(x.cols, job, pdn) \/ Pending(mail, x.cols.ue, g)
  BY DEF RowsFresh
<1>3. Fine(x.cols, job, pdn) => Fine(x.cols, job', pdn')
  BY <1>1, StaysFine
<1> QED
  BY <1>2, <1>3

LEMMA SameMailFresh ==
  ASSUME RowsInv, Apart, Newer, MailFresh(mail, job, pdn), UNCHANGED mail,
         SettlingKept
  PROVE  MailFresh(mail', job', pdn')
<1> SUFFICES ASSUME NEW h \in Site, NEW g \in Site,
                    NEW i \in 1 .. Len(mail[h][g]),
                    mail[h][g][i].kind = "set", LastOf(mail[h][g], i)
             PROVE  Fine(mail[h][g][i].cols, job', pdn')
  BY DEF MailFresh
<1>1. \A u : Settling(job, u) => Settling(job', u)
  BY SettlingStays
<1> QED
  BY <1>1, CopyStaysFine

LEMMA SameRowsFresh ==
  ASSUME RowsInv, Apart, Newer, RowsFresh(rows, mail, job, pdn),
         UNCHANGED mail, SettlingKept,
         \A g \in Site : \A x \in rows'[g] :
           \/ x \in rows[g]
           \/ Fine(x.cols, job', pdn') \/ Pending(mail', x.cols.ue, g)
  PROVE  RowsFresh(rows', mail', job', pdn')
<1>1. \A u : Settling(job, u) => Settling(job', u)
  BY SettlingStays
<1>2. \A g \in Site : \A x \in rows[g] :
        Fine(x.cols, job', pdn') \/ Pending(mail', x.cols.ue, g)
  BY <1>1, RowStaysFine
<1> QED
  BY <1>2 DEF RowsFresh

\* A handler that does nothing.
LEMMA StandsStill ==
  ASSUME TypeInv, TypeInv', RowsInv, RowsInv', HomeInv, Apart, Apart', Newer,
         Grows(pdn, pdn'), SessionsGoOn, CallsGoOn, JobsFresh,
         NEW u \in Thread, job'[u] = job[u],
         job[u].at = "respond" =>
            \A x \in rows'[SiteOf[u]] :
              x.cols.ue = job[u].cols.ue => x \in rows[SiteOf[u]]
  PROVE  JobFresh(job[u], rows'[SiteOf[u]], pdn', call')
<1> DEFINE o == job[u]
<1>1. /\ o \in Job /\ JobOK(u, o, pdn)
      /\ JobFresh(o, rows[SiteOf[u]], pdn, call)
  BY Typed DEF JobsFresh
<1>2. ASSUME \/ Asks(o)
             \/ o.kind = "call" /\ o.at \in {"get", "find", "commit", "copy"},
             Latest(pdn, o.cols.s)
      PROVE  Latest(pdn', o.cols.s)
  <2>1. Exact(o.cols, pdn) /\ o.at # "idle" /\ o.from = None
    BY <1>1, <1>2 DEF Asks, RowsInv, ExactInv, ExactJob, JobOK, PlaceOK
  <2> SUFFICES ASSUME NEW v \in Thread, job[v].at = "idle",
                      Settles(job'[v], pdn[o.cols.s].ue)
               PROVE  FALSE
    BY <1>2, <2>1 DEF Newer, Exact, Real
  <2>2. /\ v # u /\ job'[v].at # "idle" /\ job'[v].from = None
        /\ job'[v].cols.ue = o.cols.ue /\ o.cols.ue # None
    BY <2>1, EmergencyAssumption DEF Settles, Exact, Real
  <2>3. /\ <<o.cols.ue, o.cols.ip>> \in Keys(o)
        /\ <<job'[v].cols.ue, job'[v].cols.ip>> \in Keys(job'[v])
    BY KeysOf
  <2>4. Conflict(Keys(job'[v]), Keys(o))
    BY <2>2, <2>3 DEF Conflict
  <2>5. \A w, z \in Thread :
          /\ w # z /\ job'[w].at # "idle" /\ job'[z].at # "idle"
          /\ job'[w].from = None /\ job'[z].from = None
          => ~Conflict(Keys(job'[w]), Keys(job'[z]))
    BY DEF RowsInv, ApartInv, Busy, Keys, Conflict
  <2> QED
    BY <2>1, <2>2, <2>4, <2>5
<1>3. o.kind = "call" => /\ call'[o.c].s = call[o.c].s
                         /\ o.at # "idle"
  BY <1>1 DEF JobOK, PlaceOK, TypeInv, CallInv, CallsGoOn
<1>4. ASSUME o.kind = "call", o.at # "idle", pdn'[o.cols.s].at # "over"
      PROVE  pdn[o.cols.s].at # "over"
  <2>1. o.cols.s \in 1 .. Len(pdn)
    BY <1>1, <1>4 DEF JobOK, Real
  <2> QED
    BY <1>4, <2>1, OverStays
<1>5. ASSUME o.at = "respond", NEW x \in rows'[SiteOf[u]],
             x.cols.ue = o.cols.ue
      PROVE  o.kind = "set" /\ x.cols.s = o.cols.s
  BY <1>1, <1>5 DEF JobFresh
<1> HIDE DEF o
<1>6. Asks(o) => o.ok /\ Latest(pdn', o.cols.s)
  BY <1>1, <1>2 DEF JobFresh
<1>7. o.kind = "call" /\ o.at \in {"get", "find", "commit", "copy"} =>
        Latest(pdn', o.cols.s)
  BY <1>1, <1>2 DEF JobFresh
<1>8. JobFresh(o, rows'[SiteOf[u]], pdn', call')
  BY <1>1, <1>3, <1>4, <1>5, <1>6, <1>7 DEF JobFresh
<1> QED
  BY <1>8 DEF o

LEMMA FreshStep ==
  ASSUME TypeInv, TypeInv', RowsInv, RowsInv', HomeInv, FreshInv,
         cause \subseteq cause',
         Sound' => /\ Grows(pdn, pdn') /\ Newer /\ SessionsGoOn /\ CallsGoOn
                   /\ MailFresh(mail', job', pdn')
                   /\ RowsFresh(rows', mail', job', pdn')
                   /\ CurrentGoesOn /\ JobsGoOn /\ BearersGoOn
  PROVE  FreshInv'
<1> SUFFICES ASSUME Sound'
             PROVE  CurrentFresh' /\ JobsFresh' /\ BearersFresh'
  BY DEF FreshInv
<1>1. /\ Apart /\ Apart' /\ CurrentFresh /\ JobsFresh /\ BearersFresh
  BY DEF FreshInv, Sound, Apart
<1>2. CurrentFresh'
  <2> SUFFICES ASSUME NEW u \in Ue, current'[u] # None, ~Latest(pdn', current'[u])
               PROVE  \E t \in Thread : Asks(job'[t]) /\ job'[t].cols.ue = u
    BY DEF CurrentFresh, Asks
  <2>1. /\ current'[u] = current[u]
        /\ \A t \in Thread :
             Asks(job[t]) /\ job[t].cols.ue = u =>
               Asks(job'[t]) /\ job'[t].cols.ue = u
    BY DEF CurrentGoesOn
  <2>2. current[u] \in 1 .. Len(pdn) /\ pdn[current[u]].ue = u
    BY <2>1 DEF TypeInv, CurrentInv
  <2>3. CASE Latest(pdn, current[u])
    <3>1. PICK v \in Thread : Settles(job'[v], u)
      BY <2>1, <2>2, <2>3 DEF Newer
    <3> QED
      BY <3>1 DEF Settles, Asks
  <2>4. CASE \E t \in Thread : Asks(job[t]) /\ job[t].cols.ue = u
    BY <2>1, <2>4
  <2> QED
    BY <1>1, <2>1, <2>3, <2>4 DEF CurrentFresh
<1>3. JobsFresh'
  <2> SUFFICES ASSUME NEW u \in Thread
               PROVE  JobFresh(job'[u], rows'[SiteOf[u]], pdn', call')
    BY DEF JobsFresh
  <2>1. CASE /\ job'[u] = job[u]
             /\ job[u].at = "respond" =>
                  \A x \in rows'[SiteOf[u]] :
                    x.cols.ue = job[u].cols.ue => x \in rows[SiteOf[u]]
    BY <1>1, <2>1, StandsStill
  <2> QED
    BY <2>1 DEF JobsGoOn
<1>4. BearersFresh'
  <2>1. \A b \in bearers : b[2] \in Call /\ call[b[2]].at # "new"
    BY DEF TypeInv, TypeOK, CallInv, Bearer
  <2> QED
    BY <1>1, <2>1 DEF BearersFresh, BearersGoOn, CallsGoOn
<1> QED
  BY <1>2, <1>3, <1>4

\* Steps that write neither rows nor mail.
LEMMA Soundly ==
  ASSUME Sound', cause \subseteq cause'
  PROVE  Sound /\ Apart /\ Apart' /\ "lost" \notin cause'
BY DEF Sound, Apart

LEMMA FreshParts ==
  ASSUME FreshInv, Sound
  PROVE  /\ MailFresh(mail, job, pdn) /\ RowsFresh(rows, mail, job, pdn)
         /\ CurrentFresh /\ JobsFresh /\ BearersFresh
BY DEF FreshInv

LEMMA SameOutside ==
  ASSUME TypeInv, UNCHANGED outside
  PROVE  /\ UNCHANGED <<pdn, current, call, bearers>>
         /\ Grows(pdn, pdn') /\ Len(pdn') = Len(pdn) /\ Newer
         /\ SessionsGoOn /\ CallsGoOn /\ BearersGoOn
<1>1. /\ UNCHANGED <<pdn, current, call, bearers>>
      /\ Grows(pdn, pdn') /\ Len(pdn') = Len(pdn)
  BY SameSessions DEF outside, TypeInv, TypeOK
<1>2. Newer
  BY <1>1, SameLatest
<1> QED
  BY <1>1, <1>2 DEF SessionsGoOn, CallsGoOn, BearersGoOn

LEMMA OneMinds ==
  ASSUME TypeInv, NEW t \in Thread, NEW j, job' = [job EXCEPT ![t] = j]
  PROVE  /\ job'[t] = j /\ \A u \in Thread \ {t} : job'[u] = job[u]
         /\ Minds(job[t], j) =>
              /\ SettlingKept
              /\ \A u, v : Asks(job[v]) /\ job[v].cols.ue = u /\ v \in Thread =>
                             Asks(job'[v]) /\ job'[v].cols.ue = u
<1>1. job'[t] = j /\ \A u \in Thread \ {t} : job'[u] = job[u]
  BY DEF TypeInv, TypeOK
<1>2. ASSUME Minds(job[t], j)
      PROVE  /\ SettlingKept
             /\ \A u, v : Asks(job[v]) /\ job[v].cols.ue = u /\ v \in Thread =>
                            Asks(job'[v]) /\ job'[v].cols.ue = u
  <2>1. ASSUME NEW v \in Thread
        PROVE  Minds(job[v], job'[v])
    <3>1. CASE v = t
      BY <1>1, <1>2, <3>1
    <3>2. CASE v # t
      BY <1>1, <3>2 DEF Minds
    <3> QED
      BY <3>1, <3>2
  <2> QED
    BY <2>1 DEF Minds, SettlingKept
<1> QED
  BY <1>1, <1>2

LEMMA FreshRead ==
  ASSUME TypeInv, TypeInv', RowsInv, RowsInv', HomeInv, FreshInv,
         NEW t \in Thread, NEW j, job' = [job EXCEPT ![t] = j],
         cause \subseteq cause', UNCHANGED <<rows, mail>>,
         Sound' =>
           /\ Grows(pdn, pdn') /\ Newer /\ SessionsGoOn /\ CallsGoOn
           /\ BearersGoOn /\ Minds(job[t], j)
           /\ \A u \in Ue : current'[u] # None =>
                current'[u] = current[u] \/ Latest(pdn', current'[u])
           /\ JobFresh(j, rows[SiteOf[t]], pdn', call')
  PROVE  FreshInv'
<1> SUFFICES ASSUME Sound'
             PROVE  /\ MailFresh(mail', job', pdn')
                    /\ RowsFresh(rows', mail', job', pdn')
                    /\ CurrentGoesOn /\ JobsGoOn
  BY FreshStep
<1>1. /\ Sound /\ Apart /\ MailFresh(mail, job, pdn)
      /\ RowsFresh(rows, mail, job, pdn)
  BY Soundly, FreshParts
<1>2. /\ job'[t] = j /\ \A u \in Thread \ {t} : job'[u] = job[u]
      /\ SettlingKept
      /\ \A u, v : Asks(job[v]) /\ job[v].cols.ue = u /\ v \in Thread =>
                     Asks(job'[v]) /\ job'[v].cols.ue = u
  BY OneMinds
<1>3. MailFresh(mail', job', pdn') /\ RowsFresh(rows', mail', job', pdn')
  BY <1>1, <1>2, SameMailFresh, SameRowsFresh
<1>4. CurrentGoesOn
  BY <1>2 DEF CurrentGoesOn
<1>5. JobsGoOn
  BY <1>2 DEF JobsGoOn
<1> QED
  BY <1>3, <1>4, <1>5

LEMMA FreshWithin ==
  ASSUME TypeInv, TypeInv', RowsInv, RowsInv', HomeInv, FreshInv,
         NEW t \in Thread, NEW j, Within(t, j), UNCHANGED <<rows, mail>>,
         Sound' => Minds(job[t], j) /\ JobFresh(j, rows[SiteOf[t]], pdn, call)
  PROVE  FreshInv'
<1>1. /\ UNCHANGED <<pdn, current, call, bearers>>
      /\ Grows(pdn, pdn') /\ Newer
      /\ SessionsGoOn /\ CallsGoOn /\ BearersGoOn
  BY SameOutside DEF Within
<1> QED
  BY <1>1, FreshRead DEF Within

\* A handler of which nothing is to be minded.
LEMMA NothingFresh ==
  ASSUME NEW j, ~Asks(j), j.kind # "call", j.at # "respond"
  PROVE  \A R, p, k : JobFresh(j, R, p, k)
BY DEF JobFresh

LEMMA NothingMinded ==
  ASSUME NEW o, ~Asks(o)
  PROVE  \A j : Minds(o, j)
BY DEF Minds, Asks, Settles

LEMMA SweeperFresh ==
  ASSUME NEW t \in Thread
  PROVE  \A R, p, k : /\ JobFresh(Idle, R, p, k)
                      /\ JobFresh(Sweeper(t), R, p, k)
<1>1. Idle.at = "idle" /\ Sweeper(t).at \in {"idle", "list"}
  BY IdleOK, SweeperOK
<1> QED
  BY <1>1, NotAsking, NothingFresh

LEMMA FindFresh ==
  ASSUME TypeInv, TypeInv', RowsInv, RowsInv', HomeInv, FreshInv,
         NEW t \in Thread, Find(t)
  PROVE  FreshInv'
<1> DEFINE o == job[t]
           R == rows[SiteOf[t]]
<1>1. PICK j \in Job :
        /\ Within(t, j) /\ Onward(t, j) /\ j.ok = o.ok
        /\ UNCHANGED <<rows, mail>>
        /\ o.at = "find"
        /\ j.at = "commit" <=> j.kind \in {"set", "call"}
        /\ j.at = "respond" => \A x \in R : x.cols.ue # j.cols.ue
  BY FindJob
<1>2. SameWork(j, o) /\ j.at \notin {"idle", "get", "find"}
  BY <1>1 DEF Onward
<1>3. Minds(o, j)
  BY <1>1, <1>2 DEF Minds, Asks, Settles, SameWork
<1>4. ASSUME Sound'
      PROVE  JobFresh(j, R, pdn, call)
  <2>1. JobFresh(o, R, pdn, call)
    BY <1>1, <1>4, Soundly, FreshParts DEF JobsFresh, Within
  <2> QED
    BY <1>1, <1>2, <2>1 DEF JobFresh, SameWork, Asks
<1> QED
  BY <1>1, <1>3, <1>4, FreshWithin

LEMMA SweepFresh ==
  ASSUME TypeInv, TypeInv', RowsInv, RowsInv', HomeInv, FreshInv,
         NEW t \in Thread, Another(t) \/ List(t) \/ Sweep(t)
  PROVE  FreshInv'
<1>1. PICK j \in Job :
        /\ Within(t, j) /\ UNCHANGED <<rows, mail>>
        /\ ~Busy(t) \/ job[t].kind = "sweep"
        /\ \/ j \in {Idle, Sweeper(t)}
           \/ j.kind = "sweep" /\ j.at \in {"sweep", "delete"}
  BY SweepJob
<1>2. ~Asks(job[t])
  BY <1>1 DEF Asks, Busy
<1>3. JobFresh(j, rows[SiteOf[t]], pdn, call)
  <2>1. CASE j \in {Idle, Sweeper(t)}
    BY <2>1, SweeperFresh
  <2>2. CASE j.kind = "sweep" /\ j.at \in {"sweep", "delete"}
    BY <2>2, NothingFresh DEF Asks
  <2> QED
    BY <1>1, <2>1, <2>2
<1> QED
  BY <1>1, <1>2, <1>3, NothingMinded, FreshWithin

LEMMA FailsFresh ==
  ASSUME TypeInv, TypeInv', RowsInv, RowsInv', HomeInv, FreshInv,
         NEW t \in Thread, DbFails(t)
  PROVE  FreshInv'
<1>1. PICK j \in Job :
        /\ Within(t, j) /\ UNCHANGED <<rows, mail>>
        /\ \/ j = Idle /\ (job[t].from # None \/ job[t].kind = "sweep")
           \/ "lost" \in cause'
  BY FailsJob
<1>2. ASSUME Sound'
      PROVE  Minds(job[t], j) /\ JobFresh(j, rows[SiteOf[t]], pdn, call)
  <2>1. j = Idle /\ ~Asks(job[t])
    BY <1>1, <1>2 DEF Asks, Sound
  <2> QED
    BY <2>1, SweeperFresh, NothingMinded
<1> QED
  BY <1>1, <1>2, FreshWithin

LEMMA DeliverFresh ==
  ASSUME TypeInv, TypeInv', RowsInv, RowsInv', HomeInv, FreshInv,
         NEW t \in Api, NEW h \in Site, Deliver(t, h)
  PROVE  FreshInv'
<1>1. PICK j \in Job :
        /\ t \in Thread /\ Within(t, j) /\ UNCHANGED <<rows, mail>> /\ ~Busy(t)
        /\ j.at = "find" /\ j.from # None /\ j.kind \in {"set", "clear"}
  BY DeliverJob
<1>2. ~Asks(job[t]) /\ ~Asks(j)
  BY <1>1 DEF Asks, Busy
<1>3. JobFresh(j, rows[SiteOf[t]], pdn, call)
  BY <1>1, <1>2, NothingFresh
<1> QED
  BY <1>1, <1>2, <1>3, NothingMinded, FreshWithin

LEMMA AloneNow ==
  ASSUME RowsInv, Apart, NEW t \in Thread, job[t].at # "idle",
         job[t].from = None, job[t].cols.ue # None
  PROVE  Alone(job, mail, t)
<1> DEFINE u == job[t].cols.ue
<1>1. ASSUME NEW v \in Thread \ {t}, job[v].at # "idle", job[v].from = None,
             job[v].cols.ue = u
      PROVE  FALSE
  <2>1. /\ <<job[t].cols.ue, job[t].cols.ip>> \in Keys(job[t])
        /\ <<job[v].cols.ue, job[v].cols.ip>> \in Keys(job[v])
    BY KeysOf
  <2>2. Conflict(Keys(job[t]), Keys(job[v]))
    BY <1>1, <2>1 DEF Conflict
  <2> QED
    BY <1>1, <2>2 DEF RowsInv, ApartInv, Busy
<1>2. ASSUME NEW h \in Site, NEW g \in Site, h # SiteOf[t],
             NEW i \in 1 .. Len(mail[h][g]), mail[h][g][i].cols.ue = u
      PROVE  FALSE
  <2>1. <<job[t].cols.ue, job[t].cols.ip>> \in Keys(job[t])
    BY KeysOf
  <2> DEFINE c == mail[h][g][i].cols
  <2>2. Conflict(Keys(job[t]), {<<c.ue, c.ip>>})
    BY <1>2, <2>1 DEF Conflict
  <2>3. ~Conflict(Keys(job[t]), {<<c.ue, c.ip>>})
    BY <1>2 DEF RowsInv, MailInv, Busy
  <2> QED
    BY <2>2, <2>3
<1> QED
  BY <1>1, <1>2 DEF Alone

LEMMA AloneThen ==
  ASSUME RowsInv', Apart', NEW t \in Thread, job'[t].at # "idle",
         job'[t].from = None, job'[t].cols.ue # None
  PROVE  Alone(job', mail', t)
<1> DEFINE u == job'[t].cols.ue
<1>1. ASSUME NEW v \in Thread \ {t}, job'[v].at # "idle", job'[v].from = None,
             job'[v].cols.ue = u
      PROVE  FALSE
  <2>1. /\ <<job'[t].cols.ue, job'[t].cols.ip>> \in Keys(job'[t])
        /\ <<job'[v].cols.ue, job'[v].cols.ip>> \in Keys(job'[v])
    BY KeysOf
  <2>2. Conflict(Keys(job'[t]), Keys(job'[v]))
    BY <1>1, <2>1 DEF Conflict
  <2>3. \A w, z \in Thread :
          /\ w # z /\ job'[w].at # "idle" /\ job'[z].at # "idle"
          /\ job'[w].from = None /\ job'[z].from = None
          => ~Conflict(Keys(job'[w]), Keys(job'[z]))
    BY DEF RowsInv, ApartInv, Busy, Keys, Conflict
  <2> QED
    BY <1>1, <2>2, <2>3
<1>2. ASSUME NEW h \in Site, NEW g \in Site, h # SiteOf[t],
             NEW i \in 1 .. Len(mail'[h][g]), mail'[h][g][i].cols.ue = u
      PROVE  FALSE
  <2>1. <<job'[t].cols.ue, job'[t].cols.ip>> \in Keys(job'[t])
    BY KeysOf
  <2> DEFINE c == mail'[h][g][i].cols
  <2>2. Conflict(Keys(job'[t]), {<<c.ue, c.ip>>})
    BY <1>2, <2>1 DEF Conflict
  <2>3. ~Conflict(Keys(job'[t]), {<<c.ue, c.ip>>})
    BY <1>2 DEF RowsInv, MailInv, Busy, Keys, Conflict
  <2> QED
    BY <2>2, <2>3
<1> QED
  BY <1>1, <1>2 DEF Alone

LEMMA OneLatest ==
  ASSUME TypeInv, NEW r \in 1 .. Len(pdn), NEW s \in 1 .. Len(pdn),
         Latest(pdn, r), Latest(pdn, s), pdn[r].ue = pdn[s].ue
  PROVE  r = s
<1>1. Len(pdn) \in Nat
  BY DEF TypeInv, TypeOK
<1>2. ~(r < s) /\ ~(s < r)
  BY <1>1 DEF Latest
<1> QED
  BY <1>1, <1>2

LEMMA StillLatest ==
  ASSUME TypeInv, Grows(pdn, pdn'), Len(pdn') = Len(pdn),
         NEW s \in 1 .. Len(pdn), Latest(pdn, s)
  PROVE  Latest(pdn', s)
<1>1. Len(pdn) \in Nat
  BY DEF TypeInv, TypeOK
<1>2. \A i \in s + 1 .. Len(pdn) : i \in 1 .. Len(pdn)
  BY <1>1
<1> QED
  BY <1>2 DEF Latest, Grows

\* The row that an AAR finds is of the session that calls.
LEMMA FoundLatest ==
  ASSUME TypeInv, RowsInv, RowsInv', FreshInv, Sound, Apart, Apart',
         NEW t \in Thread, NEW j, job' = [job EXCEPT ![t] = j],
         UNCHANGED <<rows, mail>>,
         job[t].kind = "call", j.at # "idle", j.from = None,
         NEW x \in rows[SiteOf[t]], j.cols.ue = x.cols.ue
  PROVE  x.cols.s \in 1 .. Len(pdn) /\ Latest(pdn, x.cols.s)
<1> DEFINE g == SiteOf[t]
           u == x.cols.ue
<1>1. g \in Site /\ Exact(x.cols, pdn)
  BY Typed DEF RowsInv, ExactInv
<1>2. u # None /\ x.cols.s \in 1 .. Len(pdn)
  BY <1>1, EmergencyAssumption DEF Exact, Real
<1>3. job'[t] = j /\ \A v \in Thread \ {t} : job'[v] = job[v]
  BY DEF TypeInv, TypeOK
<1>4. Alone(job', mail', t)
  BY <1>2, <1>3, AloneThen
<1>5. ~Settling(job, u)
  BY <1>3, <1>4 DEF Settling, Settles, Alone
<1>6. ~Pending(mail, u, g)
  <2> SUFFICES ASSUME NEW h \in Site, NEW i \in 1 .. Len(mail[h][g]),
                      mail[h][g][i].cols.ue = u
               PROVE  FALSE
    BY DEF Pending
  <2>1. mail[g][g] = << >>
    BY <1>1 DEF TypeInv
  <2>2. h # g
    BY <2>1, EmptySeq
  <2> QED
    BY <1>1, <1>3, <1>4, <2>2 DEF Alone
<1>7. Fine(x.cols, job, pdn)
  BY <1>1, <1>6, FreshParts DEF RowsFresh
<1> QED
  BY <1>2, <1>5, <1>7 DEF Fine

LEMMA GetFresh ==
  ASSUME TypeInv, TypeInv', RowsInv, RowsInv', HomeInv, FreshInv,
         NEW t \in Thread, Get(t)
  PROVE  FreshInv'
<1> DEFINE o == job[t]
           R == rows[SiteOf[t]]
<1>1. PICK j \in Job :
        /\ Within(t, j) /\ Busy(t) /\ UNCHANGED <<rows, mail>>
        /\ o.at = "get" /\ o.kind \in {"call", "str"}
        /\ j.kind = o.kind /\ j.c = o.c /\ j.from = o.from
        /\ \/ j.at = "answer" /\ j.cols = o.cols
           \/ /\ j.kind = "call" /\ j.at = "find"
              /\ \E x \in R : /\ x.cols.ip = o.cols.ip
                              /\ j.cols.ue = x.cols.ue
                              /\ j.cols.s = x.cols.s
           \/ j.kind = "str" /\ j.at = "send"
  BY GetJob
<1>2. ~Asks(o) /\ ~Asks(j)
  BY <1>1 DEF Asks
<1>3. o.from = None /\ JobOK(t, o, pdn)
  BY <1>1, Typed DEF JobOK, PlaceOK
<1>4. ASSUME Sound'
      PROVE  JobFresh(j, R, pdn, call)
  <2>1. CASE j.at = "answer" \/ j.kind = "str"
    BY <1>1, <1>2, <2>1 DEF JobFresh
  <2>2. CASE j.kind = "call" /\ j.at = "find"
    <3>1. PICK x \in R : /\ x.cols.ip = o.cols.ip
                         /\ j.cols.ue = x.cols.ue
                         /\ j.cols.s = x.cols.s
      BY <1>1, <2>2
    <3>2. /\ Sound /\ Apart /\ Apart'
      BY <1>1, <1>4, Soundly DEF Within
    <3>3. x.cols.s \in 1 .. Len(pdn) /\ Latest(pdn, x.cols.s)
      BY <1>1, <1>3, <2>2, <3>1, <3>2, FoundLatest DEF Within
    <3>4. /\ Serves(o, pdn, call) /\ JobFresh(o, R, pdn, call)
          /\ Exact(x.cols, pdn) /\ Exact(o.cols, pdn)
      BY <1>1, <2>2, <3>2, Typed, FreshParts
         DEF HomeInv, ServesInv, JobsFresh, RowsInv, ExactInv, ExactJob
    <3>5. /\ o.cols.s = call[o.c].s /\ Latest(pdn, o.cols.s)
          /\ o.cols.s \in 1 .. Len(pdn)
      BY <1>1, <2>2, <3>4 DEF JobFresh, Exact, Real
    <3>6. ASSUME pdn[j.cols.s].at # "over"
          PROVE  j.cols.s = call[j.c].s
      <4>1. pdn[x.cols.s].ue = pdn[o.cols.s].ue
        BY <1>1, <3>1, <3>3, <3>4, <3>5, <3>6 DEF Serves, Exact
      <4>2. x.cols.s = o.cols.s
        BY <3>3, <3>5, <4>1, OneLatest
      <4> QED
        BY <1>1, <3>1, <3>5, <4>2
    <3> QED
      BY <1>2, <2>2, <3>1, <3>3, <3>6 DEF JobFresh
  <2> QED
    BY <1>1, <2>1, <2>2
<1> QED
  BY <1>1, <1>2, <1>4, NothingMinded, FreshWithin

LEMMA SentFresh ==
  ASSUME TypeInv, TypeInv', RowsInv, RowsInv', HomeInv, FreshInv,
         NEW t \in Thread, Sent(t)
  PROVE  FreshInv'
<1> DEFINE o == job[t]
<1>0. PICK ok \in BOOLEAN : job' = [job EXCEPT ![t] = Answered(o, ok)]
  BY SentIs
<1> DEFINE j == Answered(o, ok)
<1>1. /\ o.at = "send" /\ job' = [job EXCEPT ![t] = j] /\ Busy(t)
      /\ UNCHANGED <<pdn, current, call, rows, mail, cause>>
      /\ o.kind \in {"call", "str"} /\ o \in Job
  BY <1>0, SentIs DEF Busy
<1>2. j.at = "answer" /\ SameWork(j, o)
  BY <1>1, JobAnswers
<1> HIDE DEF j
<1>3. ~Asks(o) /\ ~Asks(j)
  BY <1>1, <1>2 DEF Asks, SameWork
<1>4. \A R : JobFresh(j, R, pdn', call')
  BY <1>2, <1>3 DEF JobFresh
<1>5. /\ Grows(pdn, pdn') /\ Len(pdn') = Len(pdn) /\ SessionsGoOn
      /\ CallsGoOn
  BY <1>1, SameSessions DEF SessionsGoOn, CallsGoOn, TypeInv, TypeOK
<1>6. ASSUME Sound'
      PROVE  BearersGoOn
  <2> SUFFICES ASSUME NEW b \in bearers', b \notin bearers
               PROVE  b[1] = call'[b[2]].s
    BY DEF BearersGoOn
  <2>1. b[1] = o.cols.s /\ b[2] = o.c
    BY SentIs
  <2>2. JobFresh(o, rows[SiteOf[t]], pdn, call) /\ BearersFresh
    BY <1>1, <1>6, Soundly, FreshParts DEF JobsFresh
  <2>3. CASE o.kind = "call" /\ pdn[o.cols.s].at = "up"
    BY <1>1, <2>1, <2>2, <2>3 DEF JobFresh
  <2>4. CASE \E a \in bearers : a[1] = b[1] /\ a[2] = b[2]
    BY <1>1, <2>2, <2>4 DEF BearersFresh
  <2> QED
    BY <2>3, <2>4, SentIs
<1>7. Newer
  BY <1>5, SameLatest
<1> QED
  BY <1>1, <1>3, <1>4, <1>5, <1>6, <1>7, NothingMinded, FreshRead

LEMMA AnswerFresh ==
  ASSUME TypeInv, TypeInv', RowsInv, RowsInv', HomeInv, FreshInv,
         NEW t \in Thread, Answer(t)
  PROVE  FreshInv'
<1> DEFINE o == job[t]
           s == o.cols.s
           j == Sweeper(t)
<1>1. /\ o.at = "answer" /\ job' = [job EXCEPT ![t] = j]
      /\ UNCHANGED <<bearers, rows, mail, cause>>
      /\ o \in Job /\ JobOK(t, o, pdn) /\ o.from = None
  BY Typed DEF Answer, Becomes, JobOK, PlaceOK
<1>2. PICK at \in {"asked", "up", "over"} :
        pdn' = IF o.kind # "set" THEN pdn ELSE [pdn EXCEPT ![s].at = at]
  BY DEF Answer
<1>3. current' = IF o.kind # "set" \/ ~o.ok THEN current
                 ELSE [current EXCEPT ![o.cols.ue] = s]
  BY DEF Answer
<1> HIDE DEF j
<1>4. /\ Grows(pdn, pdn') /\ Len(pdn') = Len(pdn)
      /\ \A i \in 1 .. Len(pdn) :
           pdn'[i].at = pdn[i].at \/ (o.kind = "set" /\ i = s)
  <2>1. CASE o.kind # "set"
    BY <1>2, <2>1, SameSessions DEF TypeInv, TypeOK
  <2>2. CASE o.kind = "set"
    <3>1. pdn' = [pdn EXCEPT ![s].at = at] /\ pdn \in Seq(Pdn)
      BY <1>2, <2>2 DEF TypeInv, TypeOK
    <3> HIDE DEF s
    <3>2. /\ Len(pdn') = Len(pdn) /\ Grows(pdn, pdn')
          /\ \A i \in 1 .. Len(pdn) :
               pdn'[i].at = IF i = s THEN at ELSE pdn[i].at
      BY <3>1, PdnChanged
    <3> QED
      BY <2>2, <3>2
  <2> QED
    BY <2>1, <2>2
<1>5. job'[t] = j /\ ~Asks(j) /\ j.kind # "call" /\ \A R, p, k : JobFresh(j, R, p, k)
  BY <1>1, NotAsking, SweeperFresh DEF j, TypeInv, TypeOK
<1>6. SessionsGoOn
  BY <1>1, <1>4, <1>5 DEF SessionsGoOn, Asks
<1>7. CallsGoOn /\ BearersGoOn /\ Newer
  BY <1>1, <1>4, AnswerOutside, SameLatest DEF CallsGoOn, BearersGoOn
<1>8. ASSUME Sound'
      PROVE  FreshInv'
  <2>1. /\ Sound /\ Apart /\ MailFresh(mail, job, pdn)
        /\ RowsFresh(rows, mail, job, pdn)
        /\ JobFresh(o, rows[SiteOf[t]], pdn, call)
    BY <1>1, <1>8, Soundly, FreshParts DEF JobsFresh
  <2>2. \A u \in Thread \ {t} : job'[u] = job[u]
    BY <1>1 DEF TypeInv, TypeOK
  <2>3. SettlingKept
    BY <1>1, <2>2 DEF SettlingKept, Settles
  <2>4. MailFresh(mail', job', pdn') /\ RowsFresh(rows', mail', job', pdn')
    BY <1>1, <1>7, <2>1, <2>3, SameMailFresh, SameRowsFresh
  <2>5. CurrentGoesOn
    <3> SUFFICES ASSUME NEW u \in Ue, current'[u] # None,
                        ~Latest(pdn', current'[u])
                 PROVE  /\ current'[u] = current[u]
                        /\ \A v \in Thread :
                             Asks(job[v]) /\ job[v].cols.ue = u =>
                               Asks(job'[v]) /\ job'[v].cols.ue = u
      BY DEF CurrentGoesOn
    <3>1. CASE o.kind # "set"
      <4>1. ~Asks(o)
        BY <3>1 DEF Asks
      <4> QED
        BY <1>3, <2>2, <3>1, <4>1
    <3>2. CASE o.kind = "set"
      <4>1. Asks(o) /\ s \in 1 .. Len(pdn)
        BY <1>1, <3>2 DEF Asks, JobOK, Exact, Real
      <4>2. o.ok /\ Latest(pdn, s)
        BY <2>1, <4>1 DEF JobFresh
      <4> HIDE DEF s
      <4>3. Latest(pdn', s)
        BY <1>4, <4>1, <4>2, StillLatest
      <4>4. current' = [current EXCEPT ![o.cols.ue] = s]
        BY <1>3, <3>2, <4>2
      <4>5. u # o.cols.ue /\ current'[u] = current[u]
        BY <4>3, <4>4 DEF TypeInv, TypeOK
      <4> QED
        BY <2>2, <4>5
    <3> QED
      BY <3>1, <3>2
  <2>6. JobsGoOn
    BY <1>1, <1>5, <2>2 DEF JobsGoOn
  <2> QED
    BY <1>1, <1>4, <1>6, <1>7, <2>4, <2>5, <2>6, FreshStep
<1> QED
  BY <1>8 DEF FreshInv

\* Steps of the PGWs and P-CSCFs.
LEMMA FreshBegin ==
  ASSUME TypeInv, TypeInv', RowsInv, RowsInv', HomeInv, FreshInv,
         NEW t \in Thread, NEW j, NEW why, Begin(t, j, why),
         UNCHANGED <<rows, mail>>, j.at # "respond",
         Grows(pdn, pdn'), Len(pdn') = Len(pdn), SessionsGoOn, CallsGoOn,
         BearersGoOn, \A u \in Ue : current'[u] \in {None, current[u]},
         Sound' => JobFresh(j, rows[SiteOf[t]], pdn', call')
  PROVE  FreshInv'
<1>1. /\ job' = [job EXCEPT ![t] = j] /\ cause \subseteq cause' /\ ~Asks(job[t])
  BY DEF Begin, Blame, Busy, Asks
<1>2. Newer
  BY SameLatest
<1> QED
  BY <1>1, <1>2, NothingMinded, FreshRead

LEMMA CcrTFresh ==
  ASSUME TypeInv, TypeInv', RowsInv, RowsInv', HomeInv, FreshInv,
         NEW t \in Worker, CcrT(t)
  PROVE  FreshInv'
<1>1. PICK s \in 1 .. Len(pdn), why \in SUBSET Cause :
        /\ pdn[s].at = "up" /\ Ended(s)
        /\ Request(t, Handler("find", "clear", About(s), None, None), why)
        /\ current' = [current EXCEPT ![pdn[s].ue] = IF @ = s THEN None ELSE @]
        /\ UNCHANGED call
  BY CcrTParts
<1> DEFINE j == Handler("find", "clear", About(s), None, None)
<1>2. j.kind = "clear" /\ j.at = "find"
  BY DEF Handler
<1>3. t \in Thread /\ Begin(t, j, why) /\ UNCHANGED <<rows, mail>>
  BY <1>1 DEF Request, Thread
<1> HIDE DEF j
<1>4. /\ Grows(pdn, pdn') /\ Len(pdn') = Len(pdn) /\ SessionsGoOn
      /\ bearers' \subseteq bearers
  BY <1>1, EndedSessions
<1>5. CallsGoOn /\ BearersGoOn
  BY <1>1, <1>4 DEF CallsGoOn, BearersGoOn
<1>6. \A u \in Ue : current'[u] \in {None, current[u]}
  BY <1>1 DEF TypeInv, TypeOK
<1>7. \A R, p, k : JobFresh(j, R, p, k)
  BY <1>2, NothingFresh DEF Asks
<1> QED
  BY <1>2, <1>3, <1>4, <1>5, <1>6, <1>7, FreshBegin

LEMMA StrFresh ==
  ASSUME TypeInv, TypeInv', RowsInv, RowsInv', HomeInv, FreshInv,
         NEW t \in Worker, Str(t)
  PROVE  FreshInv'
<1>1. PICK c \in Call :
        /\ Request(t, Handler("get", "str", About(call[c].s), c, None), {})
        /\ call' = [call EXCEPT ![c].at = "ending"]
        /\ UNCHANGED <<pdn, current, bearers>>
  BY DEF Str
<1> DEFINE j == Handler("get", "str", About(call[c].s), c, None)
<1>2. j.kind = "str" /\ j.at = "get"
  BY DEF Handler
<1>3. t \in Thread /\ Begin(t, j, {}) /\ UNCHANGED <<rows, mail>>
  BY <1>1 DEF Request, Thread
<1> HIDE DEF j
<1>4. \A d \in Call : call'[d].s = call[d].s
  <2>1. call \in [Call -> CallType]
    BY DEF TypeInv, TypeOK, CallType
  <2> QED
    BY <1>1, <2>1 DEF CallType
<1>5. /\ Grows(pdn, pdn') /\ Len(pdn') = Len(pdn) /\ SessionsGoOn
      /\ CallsGoOn /\ BearersGoOn
  BY <1>1, <1>4, SameSessions
     DEF SessionsGoOn, CallsGoOn, BearersGoOn, TypeInv, TypeOK
<1>6. \A R, p, k : JobFresh(j, R, p, k)
  BY <1>2, NothingFresh DEF Asks
<1> QED
  BY <1>1, <1>2, <1>3, <1>5, <1>6, FreshBegin

LEMMA AarFresh ==
  ASSUME TypeInv, TypeInv', RowsInv, RowsInv', HomeInv, FreshInv,
         NEW t \in Worker, Aar(t)
  PROVE  FreshInv'
<1>1. PICK u \in Ue, c \in Call, why \in SUBSET Cause :
        LET s == current[u] IN
        /\ s # None
        /\ pdn[s].at = "up"
        /\ call[c] \in {[s |-> None, at |-> "new"], [s |-> s, at |-> "up"]}
        /\ Request(t, Handler("get", "call", About(s), c, None), why)
        /\ call' = [call EXCEPT ![c] = [s |-> s, at |-> "asked"]]
        /\ UNCHANGED <<pdn, current, bearers>>
  BY AarParts
<1> DEFINE s == current[u]
           j == Handler("get", "call", About(s), c, None)
<1>2. s \in 1 .. Len(pdn) /\ pdn[s].ue = u
  BY <1>1 DEF TypeInv, CurrentInv
<1>3. t \in Thread /\ Begin(t, j, why) /\ UNCHANGED <<rows, mail>>
  BY <1>1 DEF Request, Thread
<1> HIDE DEF s
<1>4. /\ j.kind = "call" /\ j.at = "get" /\ j.c = c /\ j.from = None
      /\ j.cols = About(s)
      /\ About(s).ue = u /\ About(s).s = s
  BY <1>2, AboutOK DEF Handler, Exact
<1> HIDE DEF j
<1>5. job' = [job EXCEPT ![t] = j] /\ cause \subseteq cause' /\ job[t].at = "idle"
  BY <1>3 DEF Begin, Blame, Busy
<1>6. job'[t] = j /\ \A v \in Thread \ {t} : job'[v] = job[v]
  BY <1>3, <1>5 DEF TypeInv, TypeOK
<1>7. /\ call'[c].s = s
      /\ \A d \in Call : call[d].at # "new" => call'[d].s = call[d].s
  <2>1. call' = [call EXCEPT ![c] = [s |-> s, at |-> "asked"]]
    BY <1>1 DEF s
  <2>2. call[c].at # "new" => call[c].s = s
    BY <1>1 DEF s
  <2>3. DOMAIN call = Call
    BY DEF TypeInv, TypeOK
  <2> QED
    BY <2>1, <2>2, <2>3
<1>8. /\ Grows(pdn, pdn') /\ Len(pdn') = Len(pdn) /\ SessionsGoOn
      /\ CallsGoOn /\ BearersGoOn
  BY <1>1, <1>7, SameSessions
     DEF SessionsGoOn, CallsGoOn, BearersGoOn, TypeInv, TypeOK
<1>9. ASSUME Sound'
      PROVE  JobFresh(j, rows[SiteOf[t]], pdn', call')
  <2>1. /\ Apart' /\ CurrentFresh
    BY <1>5, <1>9, Soundly, FreshParts
  <2>2. Alone(job', mail', t)
    <3>1. u # None
      BY EmergencyAssumption
    <3> QED
      BY <1>3, <1>4, <1>6, <2>1, <3>1, AloneThen
  <2>3. ~\E v \in Thread : Asks(job[v]) /\ job[v].cols.ue = u
    BY <1>4, <1>5, <1>6, <2>2 DEF Alone, Asks
  <2>4. Latest(pdn, s)
    BY <1>1, <2>1, <2>3 DEF CurrentFresh, s
  <2> QED
    BY <1>1, <1>4, <1>7, <2>4 DEF JobFresh, Asks
<1> QED
  BY <1>1, <1>3, <1>4, <1>8, <1>9, FreshBegin

LEMMA CcrIFresh ==
  ASSUME TypeInv, TypeInv', RowsInv, RowsInv', HomeInv, FreshInv,
         NEW t \in Worker, CcrI(t)
  PROVE  FreshInv'
<1>1. PICK u \in Ue, ip \in Ip, why \in SUBSET Cause :
        /\ Begin(t, Handler("find", "set", Filled(Len(pdn) + 1, u, ip),
                           None, None), why)
        /\ pdn' = Append(pdn, [ue |-> u, ip |-> ip, at |-> "asked"])
        /\ UNCHANGED <<current, call, bearers, clock, rows, mail>>
  BY CcrIParts
<1> DEFINE s == Len(pdn) + 1
           j == Handler("find", "set", Filled(s, u, ip), None, None)
<1>2. /\ Len(pdn) \in Nat /\ Grows(pdn, pdn') /\ Len(pdn') = s
      /\ pdn'[s] = [ue |-> u, ip |-> ip, at |-> "asked"]
      /\ \A i \in 1 .. Len(pdn) : pdn'[i] = pdn[i]
  BY <1>1, PdnAsked DEF TypeInv, TypeOK
<1>3. /\ t \in Thread /\ job' = [job EXCEPT ![t] = j] /\ job[t].at = "idle"
      /\ cause \subseteq cause'
  BY <1>1 DEF Begin, Blame, Thread, Busy
<1>4. /\ j.at = "find" /\ j.from = None /\ j.cols.ue = u /\ j.cols.s = s
      /\ j.kind = "set" /\ j.ok
  BY DEF Handler, Filled
<1> HIDE DEF j
<1>5. job'[t] = j /\ \A v \in Thread \ {t} : job'[v] = job[v]
  BY <1>3 DEF TypeInv, TypeOK
<1>6. Newer
  <2> SUFFICES ASSUME NEW r \in 1 .. Len(pdn), Latest(pdn, r)
               PROVE  \/ Latest(pdn', r)
                      \/ \E v \in Thread : /\ job[v].at = "idle"
                                           /\ Settles(job'[v], pdn[r].ue)
    BY DEF Newer
  <2>1. CASE pdn[r].ue = u
    BY <1>3, <1>4, <1>5, <2>1 DEF Settles
  <2>2. CASE pdn[r].ue # u
    <3>1. \A i \in r + 1 .. s : i = s \/ i \in r + 1 .. Len(pdn)
      BY <1>2
    <3>2. \A i \in r + 1 .. Len(pdn) : i \in 1 .. Len(pdn)
      BY <1>2
    <3> HIDE DEF s
    <3>3. \A i \in r + 1 .. s : pdn'[i].ue # pdn'[r].ue
      BY <1>2, <2>2, <3>1, <3>2 DEF Latest
    <3> QED
      BY <1>2, <3>3 DEF Latest
  <2> QED
    BY <2>1, <2>2
<1>7. /\ SessionsGoOn /\ CallsGoOn /\ BearersGoOn
  BY <1>1, <1>2 DEF SessionsGoOn, CallsGoOn, BearersGoOn
<1>8. ~Asks(job[t])
  BY <1>3 DEF Asks
<1>9. \A R, k : JobFresh(j, R, pdn', k)
  <2>1. Latest(pdn', s)
    BY <1>2 DEF Latest
  <2> QED
    BY <1>4, <2>1 DEF JobFresh
<1> HIDE DEF s
<1> QED
  BY <1>1, <1>2, <1>3, <1>6, <1>7, <1>8, <1>9, NothingMinded, FreshRead

\* Steps of nobody.
LEMMA FreshAlone ==
  ASSUME TypeInv, TypeInv', RowsInv, RowsInv', HomeInv, FreshInv,
         UNCHANGED <<rows, mail, job, current>>, cause \subseteq cause',
         Grows(pdn, pdn'), Len(pdn') = Len(pdn), SessionsGoOn, CallsGoOn,
         BearersGoOn
  PROVE  FreshInv'
<1>1. SettlingKept /\ CurrentGoesOn /\ JobsGoOn
  BY DEF SettlingKept, CurrentGoesOn, JobsGoOn
<1>2. Newer
  BY SameLatest
<1>3. ASSUME Sound'
      PROVE  /\ MailFresh(mail', job', pdn')
             /\ RowsFresh(rows', mail', job', pdn')
  BY <1>1, <1>2, <1>3, Soundly, FreshParts, SameMailFresh, SameRowsFresh
<1> QED
  BY <1>1, <1>2, <1>3, FreshStep

LEMMA DetachFresh ==
  ASSUME TypeInv, TypeInv', RowsInv, RowsInv', HomeInv, FreshInv, Detach
  PROVE  FreshInv'
<1>1. PICK s \in 1 .. Len(pdn) : pdn[s].at = "up" /\ Ended(s)
  BY DEF Detach
<1>2. UNCHANGED <<current, rows, mail, job, call, cause>>
  BY DEF Detach
<1>3. /\ Grows(pdn, pdn') /\ Len(pdn') = Len(pdn) /\ SessionsGoOn
      /\ bearers' \subseteq bearers
  BY <1>1, EndedSessions
<1>4. CallsGoOn /\ BearersGoOn
  BY <1>2, <1>3 DEF CallsGoOn, BearersGoOn
<1> QED
  BY <1>2, <1>3, <1>4, FreshAlone

LEMMA ArriveFresh ==
  ASSUME TypeInv, TypeInv', RowsInv, RowsInv', HomeInv, FreshInv, Arrive
  PROVE  FreshInv'
<1>1. UNCHANGED <<pdn, current, rows, mail, job, call, cause>>
  BY Arrives
<1>2. Grows(pdn, pdn') /\ Len(pdn') = Len(pdn) /\ SessionsGoOn
  BY <1>1, SameSessions DEF SessionsGoOn, TypeInv, TypeOK
<1>3. Sound' => CallsGoOn /\ BearersGoOn
  BY <1>1, Arrives DEF CallsGoOn, BearersGoOn, FreshInv, Sound, BearersFresh
<1> QED
  BY <1>1, <1>2, <1>3, FreshAlone DEF FreshInv

LEMMA SameFresh ==
  ASSUME TypeInv, TypeInv', RowsInv, RowsInv', HomeInv, FreshInv,
         UNCHANGED <<outside, rows, mail, job, cause>>
  PROVE  FreshInv'
<1>1. /\ UNCHANGED <<pdn, current, call, bearers>>
      /\ Grows(pdn, pdn') /\ Len(pdn') = Len(pdn)
      /\ SessionsGoOn /\ CallsGoOn /\ BearersGoOn
  BY SameOutside
<1> QED
  BY <1>1, FreshAlone

LEMMA LostFresh ==
  ASSUME "lost" \in cause'
  PROVE  FreshInv'
BY DEF FreshInv, Sound

\* Writing and removing a row.
LEMMA OthersGoOn ==
  ASSUME TypeInv, RowsInv, Apart, NEW t \in Thread, NEW j,
         job' = [job EXCEPT ![t] = j], Others(t), Busy(t),
         job[t].cols.ue # None,
         \A x \in rows'[SiteOf[t]] : \/ x \in rows[SiteOf[t]]
                                     \/ x.cols.ue = job[t].cols.ue,
         JobFresh(j, rows'[SiteOf[t]], pdn', call')
  PROVE  JobsGoOn
<1>1. job'[t] = j /\ \A u \in Thread \ {t} : job'[u] = job[u]
  BY DEF TypeInv, TypeOK
<1> SUFFICES ASSUME NEW u \in Thread, u # t, job[u].at = "respond",
                    NEW x \in rows'[SiteOf[u]], x \notin rows[SiteOf[u]],
                    x.cols.ue = job[u].cols.ue
             PROVE  FALSE
  BY <1>1 DEF JobsGoOn
<1>2. SiteOf[u] = SiteOf[t]
  BY Typed DEF Others
<1>3. x.cols.ue = job[t].cols.ue
  BY <1>2
<1>4. /\ <<job[t].cols.ue, job[t].cols.ip>> \in Keys(job[t])
      /\ <<job[u].cols.ue, job[u].cols.ip>> \in Keys(job[u])
  BY KeysOf
<1>5. Conflict(Keys(job[t]), Keys(job[u]))
  BY <1>3, <1>4 DEF Conflict
<1> QED
  BY <1>2, <1>5 DEF RowsInv, ApartInv, Busy

\* The copy that a thread of the API is at work on is still in its queue.
LEMMA InQueue ==
  ASSUME TypeInv, NEW t \in Thread, job[t].from # None
  PROVE  /\ job[t].from \in Site /\ SiteOf[t] \in Site
         /\ 1 \in 1 .. Len(mail[job[t].from][SiteOf[t]])
         /\ mail[job[t].from][SiteOf[t]][1] =
              [kind |-> job[t].kind, cols |-> job[t].cols]
         /\ Pending(mail, job[t].cols.ue, SiteOf[t])
<1> DEFINE o == job[t]
           g == SiteOf[t]
           m == mail[o.from][g]
<1>1. o.from \in Site /\ g \in Site
  BY Typed, JobFields
<1>2. m # << >> /\ Head(m) = [kind |-> o.kind, cols |-> o.cols]
  BY DEF TypeInv, HandInv
<1>3. m \in Seq(Copy)
  BY <1>1 DEF TypeInv, TypeOK
<1>4. 1 \in 1 .. Len(m) /\ m[1] = [kind |-> o.kind, cols |-> o.cols]
  BY <1>2, <1>3, QueueBegins
<1>5. m[1].cols.ue = o.cols.ue
  BY <1>4
<1>6. Pending(mail, o.cols.ue, g)
  BY <1>1, <1>4, <1>5 DEF Pending
<1> QED
  BY <1>1, <1>4, <1>6

LEMMA CommitFresh ==
  ASSUME TypeInv, TypeInv', RowsInv, RowsInv', HomeInv, FreshInv,
         NEW t \in Thread, Commit(t)
  PROVE  FreshInv'
<1> DEFINE o == job[t]
           R == rows[SiteOf[t]]
           Q == rows'[SiteOf[t]]
<1>1. PICK j \in Job :
        /\ Within(t, j) /\ Onward(t, j) /\ j.ok = o.ok
        /\ UNCHANGED <<mail, cause>> /\ Others(t)
        /\ o.at = "commit"
        /\ Own(R, o) =>
             /\ j.at = IF j.from = None THEN "copy" ELSE "respond"
             /\ \E z \in Q : /\ z.cols = j.cols
                             /\ \A x \in Q : x = z \/ x \in R
  BY CommitJob
<1>2. /\ UNCHANGED <<pdn, current, call, bearers>>
      /\ Grows(pdn, pdn') /\ Newer
      /\ SessionsGoOn /\ CallsGoOn /\ BearersGoOn
  BY <1>1, SameOutside DEF Within
<1>3. /\ SameWork(j, o) /\ job' = [job EXCEPT ![t] = j] /\ Busy(t)
      /\ cause \subseteq cause'
  BY <1>1 DEF Onward, Within
<1>4. /\ o.kind \in {"set", "call"} /\ (o.from # None => o.kind = "set")
      /\ SiteOf[t] \in Site /\ o.cols.ue # None
  BY <1>1, Typed, EmergencyAssumption DEF JobOK, PlaceOK, Real
<1> SUFFICES ASSUME Sound'
             PROVE  /\ MailFresh(mail', job', pdn')
                    /\ RowsFresh(rows', mail', job', pdn')
                    /\ CurrentGoesOn /\ JobsGoOn
  BY <1>2, <1>3, FreshStep
<1>5. /\ Sound /\ Apart /\ Apart' /\ MailFresh(mail, job, pdn)
      /\ RowsFresh(rows, mail, job, pdn)
      /\ JobFresh(o, R, pdn, call)
  BY <1>3, Soundly, FreshParts DEF JobsFresh
<1>6. Own(R, o) /\ Unique(Q)
  BY <1>4, <1>5 DEF RowsInv, OwnInv, UniqueInv
<1>7. PICK z \in Q : z.cols = j.cols /\ \A x \in Q : x = z \/ x \in R
  BY <1>1, <1>6
<1>8. j.at = IF j.from = None THEN "copy" ELSE "respond"
  BY <1>1, <1>6
<1>9. Minds(o, j)
  BY <1>1, <1>3, <1>8 DEF Minds, Asks, Settles, SameWork
<1>10. /\ job'[t] = j /\ \A u \in Thread \ {t} : job'[u] = job[u]
       /\ SettlingKept
       /\ \A u, v : Asks(job[v]) /\ job[v].cols.ue = u /\ v \in Thread =>
                      Asks(job'[v]) /\ job'[v].cols.ue = u
  BY <1>3, <1>9, OneMinds
<1>11. MailFresh(mail', job', pdn')
  BY <1>1, <1>2, <1>5, <1>10, SameMailFresh
<1>12. Fine(z.cols, job', pdn') \/ Pending(mail', z.cols.ue, SiteOf[t])
  <2>1. CASE o.from # None
    <3>1. Pending(mail, o.cols.ue, SiteOf[t])
      BY <2>1, InQueue
    <3> QED
      BY <1>1, <1>3, <1>7, <3>1 DEF SameWork
  <2>2. CASE o.from = None /\ o.kind = "set"
    <3>1. Settles(j, j.cols.ue)
      BY <1>3, <1>8, <2>2 DEF Settles, SameWork
    <3> QED
      BY <1>7, <1>10, <3>1 DEF Fine, Settling
  <2>3. CASE o.kind = "call"
    <3>1. Latest(pdn, o.cols.s)
      BY <1>1, <1>5, <2>3 DEF JobFresh
    <3> QED
      BY <1>2, <1>3, <1>7, <3>1 DEF Fine, SameWork
  <2> QED
    BY <1>4, <2>1, <2>2, <2>3
<1>13. RowsFresh(rows', mail', job', pdn')
  <2>1. \A g \in Site : \A x \in rows'[g] :
          \/ x \in rows[g]
          \/ Fine(x.cols, job', pdn') \/ Pending(mail', x.cols.ue, g)
    BY <1>1, <1>7, <1>12 DEF Others
  <2> QED
    BY <1>1, <1>2, <1>5, <1>10, <2>1, SameRowsFresh
<1>14. JobFresh(j, Q, pdn', call')
  <2>1. Asks(j) => Asks(o)
    BY <1>1, <1>3 DEF Asks, SameWork
  <2>2. j.at = "respond" => \A x \in Q : x.cols.ue = j.cols.ue =>
                                           j.kind = "set" /\ x.cols.s = j.cols.s
    BY <1>3, <1>4, <1>6, <1>7, <1>8 DEF Unique, SameWork
  <2> QED
    BY <1>1, <1>2, <1>3, <1>5, <1>8, <2>1, <2>2 DEF JobFresh, SameWork
<1>15. JobsGoOn
  <2>1. \A x \in Q : x \in R \/ x.cols.ue = o.cols.ue
    BY <1>3, <1>7 DEF SameWork
  <2> QED
    BY <1>1, <1>3, <1>4, <1>5, <1>14, <2>1, OthersGoOn
<1>16. CurrentGoesOn
  BY <1>2, <1>10 DEF CurrentGoesOn
<1> QED
  BY <1>11, <1>13, <1>15, <1>16

LEMMA DeleteFresh ==
  ASSUME TypeInv, TypeInv', RowsInv, RowsInv', HomeInv, FreshInv,
         NEW t \in Thread, Delete(t)
  PROVE  FreshInv'
<1> DEFINE o == job[t]
           R == rows[SiteOf[t]]
           Q == rows'[SiteOf[t]]
<1>1. PICK j \in Job :
        /\ Within(t, j)
        /\ Busy(t) /\ SameWork(j, o) /\ j.old = o.old
        /\ j.kind \in {"clear", "sweep"} /\ o.at = "delete"
        /\ j.at = IF j.from = None THEN "copy" ELSE "respond"
        /\ UNCHANGED <<mail, cause>> /\ Others(t)
        /\ Q = {x \in R : x.id # o.old.id}
  BY DeleteJob
<1>2. /\ UNCHANGED <<pdn, current, call, bearers>>
      /\ Grows(pdn, pdn') /\ Newer
      /\ SessionsGoOn /\ CallsGoOn /\ BearersGoOn
  BY <1>1, SameOutside DEF Within
<1>3. /\ job' = [job EXCEPT ![t] = j] /\ cause \subseteq cause'
      /\ SiteOf[t] \in Site /\ o.kind \in {"clear", "sweep"}
      /\ (o.from # None => o.kind = "clear")
  BY <1>1, Typed DEF Within, SameWork, JobOK, PlaceOK
<1> SUFFICES ASSUME Sound'
             PROVE  /\ MailFresh(mail', job', pdn')
                    /\ RowsFresh(rows', mail', job', pdn')
                    /\ CurrentGoesOn /\ JobsGoOn
  BY <1>2, <1>3, FreshStep
<1>4. /\ Sound /\ Apart /\ MailFresh(mail, job, pdn)
      /\ RowsFresh(rows, mail, job, pdn)
  BY <1>3, Soundly, FreshParts
<1>5. Own(R, o) /\ Unique(R)
  BY <1>3, <1>4 DEF RowsInv, OwnInv, UniqueInv
<1>6. Minds(o, j)
  BY <1>3 DEF Minds, Asks, Settles
<1>7. /\ job'[t] = j /\ \A u \in Thread \ {t} : job'[u] = job[u]
      /\ SettlingKept
      /\ \A u, v : Asks(job[v]) /\ job[v].cols.ue = u /\ v \in Thread =>
                     Asks(job'[v]) /\ job'[v].cols.ue = u
  BY <1>3, <1>6, OneMinds
<1>8. MailFresh(mail', job', pdn')
  BY <1>1, <1>2, <1>4, <1>7, SameMailFresh
<1>9. \A g \in Site : \A x \in rows'[g] : x \in rows[g]
  BY <1>1 DEF Others
<1>10. RowsFresh(rows', mail', job', pdn')
  BY <1>1, <1>2, <1>4, <1>7, <1>9, SameRowsFresh
<1>11. JobFresh(j, Q, pdn', call')
  <2>1. j.at = "respond" => \A x \in Q : x.cols.ue # j.cols.ue
    <3> SUFFICES ASSUME j.at = "respond", NEW x \in Q, x.cols.ue = j.cols.ue
                 PROVE  FALSE
      OBVIOUS
    <3>1. o.kind = "clear" /\ o.cols.ue = j.cols.ue
      BY <1>1, <1>3 DEF SameWork
    <3>2. o.old \in R /\ o.old.cols.ue = o.cols.ue
      BY <1>1, <1>5, <3>1 DEF Own
    <3>3. x \in R /\ x.id # o.old.id
      BY <1>1
    <3> QED
      BY <1>5, <3>1, <3>2, <3>3 DEF Unique
  <2> QED
    BY <1>1, <2>1 DEF JobFresh, Asks
<1>12. JobsGoOn
  BY <1>3, <1>7, <1>9, <1>11, Typed DEF JobsGoOn
<1>13. CurrentGoesOn
  BY <1>2, <1>7 DEF CurrentGoesOn
<1> QED
  BY <1>8, <1>10, <1>12, <1>13

\* Queueing a copy.
LEMMA QueuesGrow ==
  ASSUME TypeInv, NEW t \in Thread, QueueCopy(t)
  PROVE  \A h, g \in Site :
           LET m == mail[h][g]
               n == mail'[h][g]
           IN  /\ Len(m) \in Nat
               /\ \A i \in 1 .. Len(m) : i \in 1 .. Len(n) /\ n[i] = m[i]
               /\ \/ n = m
                  \/ Len(n) = Len(m) + 1 /\ CopyOf(SiteOf[t], job[t]) = <<n[Len(m) + 1]>>
               /\ h = SiteOf[t] /\ g # h /\ CopyOf(h, job[t]) # << >> => n # m
<1> TAKE h \in Site, g \in Site
<1> DEFINE m == mail[h][g]
           n == mail'[h][g]
           C == CopyOf(SiteOf[t], job[t])
<1>1. m \in Seq(Copy) /\ Len(m) \in Nat
  BY DEF TypeInv, TypeOK
<1>2. IF h = SiteOf[t] /\ g # h THEN n = m \o C ELSE n = m
  BY QueueMail
<1>3. job[t].at = "copy"
  BY DEF QueueCopy
<1>4. C = << >> \/ \E c \in Copy : C = <<c>>
  BY <1>3, CopyOfOK
<1> HIDE DEF C
<1>5. CASE C = << >> \/ ~(h = SiteOf[t] /\ g # h)
  <2>1. n = m
    BY <1>1, <1>2, <1>5
  <2> QED
    BY <1>1, <1>5, <2>1 DEF C
<1>6. CASE C # << >> /\ h = SiteOf[t] /\ g # h
  <2>1. PICK c \in Copy : C = <<c>>
    BY <1>4, <1>6
  <2>2. n = m \o <<c>>
    BY <1>2, <1>6, <2>1
  <2>3. /\ Len(n) = Len(m) + 1 /\ n[Len(m) + 1] = c
        /\ \A i \in 1 .. Len(m) : n[i] = m[i]
    BY <1>1, <2>2, QueueEnds
  <2>4. \A i \in 1 .. Len(m) : i \in 1 .. Len(n)
    BY <1>1, <2>3
  <2>5. n # m
    BY <1>1, <2>3
  <2> QED
    BY <1>1, <2>1, <2>3, <2>4, <2>5 DEF C
<1> QED
  BY <1>5, <1>6

\* Such a copy is of the latest session, and sets a row unless t removes one.
LEMMA CopyLatest ==
  ASSUME TypeInv, RowsInv, FreshInv, Sound, Apart, NEW t \in Thread,
         job[t].at = "copy"
  PROVE  LET C == CopyOf(SiteOf[t], job[t]) IN
         /\ \A c : C = <<c>> /\ c.kind = "set" =>
                     c.cols = job[t].cols /\ Latest(pdn, c.cols.s)
         /\ job[t].kind \in {"set", "call"} =>
              C = <<[kind |-> "set", cols |-> job[t].cols]>>
<1> DEFINE o == job[t]
           h == SiteOf[t]
           C == CopyOf(h, o)
<1>1. o.from = None /\ h \in Site
  BY Typed DEF JobOK, PlaceOK
<1>2. o.kind \in {"set", "call"} => Latest(pdn, o.cols.s)
  BY <1>1, FreshParts DEF JobsFresh, JobFresh, Asks
<1>3. ASSUME o.kind \in {"set", "call"}
      PROVE  C = <<[kind |-> "set", cols |-> o.cols]>>
  <2>1. Own(rows[h], o)
    BY DEF RowsInv, OwnInv
  <2>2. \E x \in rows[h] : x.id = o.old.id
    BY <1>3, <2>1 DEF Own
  <2>3. ById(h, o.old.id) # {}
    BY <2>2 DEF ById
  <2> QED
    BY <1>3, <2>3 DEF CopyOf
<1>4. ASSUME NEW c, C = <<c>>, c.kind = "set"
      PROVE  c.cols = o.cols /\ Latest(pdn, c.cols.s)
  <2>1. \/ C = << >>
        \/ \E d \in Copy :
             /\ C = <<d>>
             /\ \/ d.cols = o.cols /\ o.kind \in {"set", "call"}
                \/ d.kind = "clear"
    BY CopyOfOK
  <2> HIDE DEF C, o
  <2>2. PICK d \in Copy :
             /\ C = <<d>>
             /\ \/ d.cols = o.cols /\ o.kind \in {"set", "call"}
                \/ d.kind = "clear"
    BY <1>4, <2>1
  <2>3. d = c
    BY <1>4, <2>2
  <2> QED
    BY <1>2, <1>4, <2>2, <2>3 DEF o
<1> QED
  BY <1>3, <1>4

LEMMA QueueFresh ==
  ASSUME TypeInv, TypeInv', RowsInv, RowsInv', HomeInv, FreshInv,
         NEW t \in Thread, QueueCopy(t)
  PROVE  FreshInv'
<1> DEFINE o == job[t]
           s == SiteOf[t]
<1>1. PICK j \in Job :
        /\ Within(t, j) /\ Onward(t, j) /\ j.ok = o.ok
        /\ o.at = "copy" /\ j.at \in {"answer", "send", "sweep"}
        /\ j.from = None
        /\ UNCHANGED <<rows, cause>>
  BY QueueJob
<1>2. /\ UNCHANGED <<pdn, current, call, bearers>>
      /\ Grows(pdn, pdn') /\ Newer
      /\ SessionsGoOn /\ CallsGoOn /\ BearersGoOn
  BY <1>1, SameOutside DEF Within
<1>3. /\ SameWork(j, o) /\ job' = [job EXCEPT ![t] = j]
      /\ cause \subseteq cause' /\ s \in Site /\ o.from = None
      /\ o.at # "idle"
  BY <1>1, Typed DEF Onward, Within, SameWork
<1> SUFFICES ASSUME Sound'
             PROVE  /\ MailFresh(mail', job', pdn')
                    /\ RowsFresh(rows', mail', job', pdn')
                    /\ CurrentGoesOn /\ JobsGoOn
  BY <1>2, <1>3, FreshStep
<1>4. /\ Sound /\ Apart /\ MailFresh(mail, job, pdn)
      /\ RowsFresh(rows, mail, job, pdn)
      /\ JobFresh(o, rows[s], pdn, call)
  BY <1>3, Soundly, FreshParts DEF JobsFresh
<1>5. job'[t] = j /\ \A u \in Thread \ {t} : job'[u] = job[u]
  BY <1>3 DEF TypeInv, TypeOK
<1>6. \A u : Settling(job, u) => Settling(job', u) \/ Settles(o, u)
  BY <1>5 DEF Settling
<1>7. \A h, g \in Site :
        /\ Len(mail[h][g]) \in Nat
        /\ \A i \in 1 .. Len(mail[h][g]) : /\ i \in 1 .. Len(mail'[h][g])
                                           /\ mail'[h][g][i] = mail[h][g][i]
        /\ \/ mail'[h][g] = mail[h][g]
           \/ /\ Len(mail'[h][g]) = Len(mail[h][g]) + 1
              /\ CopyOf(s, o) = <<mail'[h][g][Len(mail[h][g]) + 1]>>
        /\ h = s /\ g # h /\ CopyOf(h, o) # << >> => mail'[h][g] # mail[h][g]
  BY QueuesGrow
<1>8. /\ \A c : CopyOf(s, o) = <<c>> /\ c.kind = "set" =>
                  c.cols = o.cols /\ Latest(pdn, c.cols.s)
      /\ o.kind \in {"set", "call"} =>
           CopyOf(s, o) = <<[kind |-> "set", cols |-> o.cols]>>
  BY <1>1, <1>4, CopyLatest
<1>9. ASSUME NEW u, Settles(o, u)
      PROVE  /\ u = o.cols.ue /\ Latest(pdn, o.cols.s) /\ Alone(job, mail, t)
             /\ \A g \in Site \ {s} :
                  LET n == mail'[s][g] IN
                  /\ Len(n) = Len(mail[s][g]) + 1
                  /\ Len(n) \in 1 .. Len(n) /\ n[Len(n)].cols.ue = u
  <2>1. o.kind = "set" /\ u = o.cols.ue /\ Asks(o)
    BY <1>3, <1>9 DEF Settles, Asks
  <2>2. Latest(pdn, o.cols.s)
    BY <1>4, <2>1 DEF JobFresh
  <2>3. o.cols.ue # None
    BY <1>3, <2>1, Typed, EmergencyAssumption DEF JobOK, Exact, Real
  <2>4. Alone(job, mail, t)
    BY <1>3, <1>4, <2>3, AloneNow
  <2>5. ASSUME NEW g \in Site \ {s}
        PROVE  LET n == mail'[s][g] IN
               /\ Len(n) = Len(mail[s][g]) + 1
               /\ Len(n) \in 1 .. Len(n) /\ n[Len(n)].cols.ue = u
    <3> DEFINE m == mail[s][g]
               n == mail'[s][g]
               c == [kind |-> "set", cols |-> o.cols]
    <3>1. CopyOf(s, o) = <<c>> /\ c.cols.ue = u
      BY <1>8, <2>1
    <3> HIDE DEF c
    <3>2. CopyOf(s, o) # << >>
      BY <3>1
    <3>3. /\ Len(m) \in Nat /\ Len(n) = Len(m) + 1
          /\ <<c>> = <<n[Len(m) + 1]>>
      BY <1>3, <1>7, <3>1, <3>2
    <3>4. c = n[Len(m) + 1]
      BY <3>3
    <3> QED
      BY <3>1, <3>3, <3>4
  <2> QED
    BY <2>1, <2>2, <2>4, <2>5
<1>10. MailFresh(mail', job', pdn')
  <2> SUFFICES ASSUME NEW h \in Site, NEW g \in Site,
                      NEW i \in 1 .. Len(mail'[h][g]),
                      mail'[h][g][i].kind = "set", LastOf(mail'[h][g], i)
               PROVE  Fine(mail'[h][g][i].cols, job', pdn')
    BY DEF MailFresh
  <2> DEFINE m == mail[h][g]
             n == mail'[h][g]
             k == n[i].cols
  <2>1. /\ Len(m) \in Nat /\ \A l \in 1 .. Len(m) : l \in 1 .. Len(n) /\ n[l] = m[l]
    BY <1>7
  <2>2. CASE i \in 1 .. Len(m)
    <3>1. n[i] = m[i]
      BY <2>1, <2>2
    <3>2. LastOf(m, i)
      <4>1. n # m => Len(n) = Len(m) + 1
        BY <1>7
      <4>2. \A l \in i + 1 .. Len(m) : l \in i + 1 .. Len(n) /\ n[l] = m[l]
        BY <2>1, <2>2, <4>1
      <4> QED
        BY <3>1, <4>2 DEF LastOf
    <3>3. ~Settles(o, k.ue)
      <4> SUFFICES ASSUME Settles(o, k.ue)
                   PROVE  FALSE
        OBVIOUS
      <4>1. k.ue = o.cols.ue /\ Alone(job, mail, t)
        BY <1>9
      <4>2. h = s
        BY <2>2, <3>1, <4>1 DEF Alone
      <4>3. g # s
        <5>1. mail[h][h] = << >>
          BY DEF TypeInv
        <5> QED
          BY <2>2, <4>2, <5>1, EmptySeq
      <4>4. /\ Len(n) = Len(m) + 1
            /\ Len(n) \in 1 .. Len(n) /\ n[Len(n)].cols.ue = k.ue
        BY <1>9, <4>2, <4>3
      <4>5. Len(n) \in i + 1 .. Len(n)
        BY <2>1, <2>2, <4>4
      <4> QED
        BY <4>4, <4>5 DEF LastOf
    <3>4. Settling(job, k.ue) => Settling(job', k.ue)
      BY <1>6, <3>3
    <3> QED
      BY <1>2, <1>4, <2>2, <3>1, <3>2, <3>4, CopyStaysFine
  <2>3. CASE i \notin 1 .. Len(m)
    <3>1. Len(n) = Len(m) + 1 /\ CopyOf(s, o) = <<n[Len(m) + 1]>>
      BY <1>7, <2>3
    <3>2. i = Len(m) + 1
      BY <2>1, <2>3, <3>1
    <3> QED
      BY <1>2, <1>8, <3>1, <3>2 DEF Fine
  <2> QED
    BY <2>2, <2>3
<1>11. RowsFresh(rows', mail', job', pdn')
  <2> SUFFICES ASSUME NEW g \in Site, NEW x \in rows[g]
               PROVE  Fine(x.cols, job', pdn') \/ Pending(mail', x.cols.ue, g)
    BY <1>1 DEF RowsFresh
  <2>1. Pending(mail, x.cols.ue, g) => Pending(mail', x.cols.ue, g)
    BY <1>7 DEF Pending
  <2>2. CASE ~Settles(o, x.cols.ue)
    <3>1. Settling(job, x.cols.ue) => Settling(job', x.cols.ue)
      BY <1>6, <2>2
    <3> QED
      BY <1>2, <1>4, <2>1, <3>1, RowStaysFine
  <2>3. CASE Settles(o, x.cols.ue) /\ g # s
    BY <1>3, <1>9, <2>3 DEF Pending
  <2>4. CASE Settles(o, x.cols.ue) /\ g = s
    <3>1. x.cols.ue = o.cols.ue /\ Latest(pdn, o.cols.s) /\ o.kind = "set"
      BY <1>9, <2>4 DEF Settles
    <3>2. Own(rows[s], o) /\ Unique(rows[s])
      BY <1>3, <1>4 DEF RowsInv, OwnInv, UniqueInv
    <3>3. PICK z \in rows[s] : z.cols = o.cols
      BY <1>1, <3>1, <3>2 DEF Own
    <3>4. x = z
      BY <2>4, <3>1, <3>2, <3>3 DEF Unique
    <3> QED
      BY <1>2, <3>1, <3>3, <3>4 DEF Fine
  <2> QED
    BY <2>2, <2>3, <2>4
<1>12. CurrentGoesOn
  <2>1. Asks(o) => Asks(j) /\ j.cols = o.cols
    BY <1>1, <1>3 DEF Asks, SameWork
  <2> QED
    BY <1>2, <1>5, <2>1 DEF CurrentGoesOn
<1>13. JobsGoOn
  <2>1. JobFresh(j, rows[s], pdn, call)
    BY <1>1, <1>3, <1>4 DEF JobFresh, SameWork, Asks
  <2> QED
    BY <1>1, <1>2, <1>5, <2>1 DEF JobsGoOn
<1> QED
  BY <1>10, <1>11, <1>12, <1>13

\* A copy that has been worked off.
LEMMA PopFresh ==
  ASSUME TypeInv, TypeInv', RowsInv, RowsInv', HomeInv, FreshInv,
         NEW t \in Thread, Respond(t), Pop(job[t].from, SiteOf[t])
  PROVE  FreshInv'
<1> DEFINE o == job[t]
           h == o.from
           g == SiteOf[t]
           m == mail[h][g]
<1>1. /\ h \in Site /\ g \in Site /\ m # << >>
      /\ Head(m) = [kind |-> o.kind, cols |-> o.cols]
      /\ job' = [job EXCEPT ![t] = Idle]
      /\ UNCHANGED <<outside, rows, cause>>
  BY RespondParts
<1>2. /\ UNCHANGED <<pdn, current, call, bearers>>
      /\ Grows(pdn, pdn') /\ Newer
      /\ SessionsGoOn /\ CallsGoOn /\ BearersGoOn
  BY <1>1, SameOutside
<1>3. \A f, e \in Site : mail'[f][e] = IF f = h /\ e = g THEN Tail(m)
                                       ELSE mail[f][e]
  BY <1>1, <1>2, PopTypes
<1>4. m \in Seq(Copy)
  BY <1>1 DEF TypeInv, TypeOK
<1>5. /\ Len(m) \in Nat /\ 1 \in 1 .. Len(m) /\ Len(Tail(m)) = Len(m) - 1
      /\ \A i \in 1 .. Len(Tail(m)) : /\ Tail(m)[i] = m[i + 1]
                                      /\ i + 1 \in 1 .. Len(m)
      /\ m[1] = [kind |-> o.kind, cols |-> o.cols]
  BY <1>1, <1>4, QueueBegins
<1>6. o.at = "respond" /\ h # None
  BY <1>1, EmergencyAssumption DEF Respond
<1> SUFFICES ASSUME Sound'
             PROVE  /\ MailFresh(mail', job', pdn')
                    /\ RowsFresh(rows', mail', job', pdn')
                    /\ CurrentGoesOn /\ JobsGoOn
  BY <1>1, <1>2, FreshStep
<1>7. /\ Sound /\ Apart /\ MailFresh(mail, job, pdn)
      /\ RowsFresh(rows, mail, job, pdn)
      /\ JobFresh(o, rows[g], pdn, call)
  BY <1>1, Soundly, FreshParts DEF JobsFresh
<1>8. Minds(o, Idle)
  BY <1>6, NothingMinded DEF Asks
<1>9. /\ job'[t] = Idle /\ \A u \in Thread \ {t} : job'[u] = job[u]
      /\ SettlingKept
      /\ \A u, v : Asks(job[v]) /\ job[v].cols.ue = u /\ v \in Thread =>
                     Asks(job'[v]) /\ job'[v].cols.ue = u
  BY <1>1, <1>8, OneMinds
<1>10. \A u : Settling(job, u) => Settling(job', u)
  BY <1>9, SettlingStays
<1> HIDE DEF h, g, m, o
<1>11. MailFresh(mail', job', pdn')
  <2> SUFFICES ASSUME NEW f \in Site, NEW e \in Site,
                      NEW i \in 1 .. Len(mail'[f][e]),
                      mail'[f][e][i].kind = "set", LastOf(mail'[f][e], i)
               PROVE  Fine(mail'[f][e][i].cols, job', pdn')
    BY DEF MailFresh
  <2>1. CASE ~(f = h /\ e = g)
    <3>1. mail'[f][e] = mail[f][e]
      BY <1>3, <2>1
    <3> QED
      BY <1>2, <1>7, <1>10, <3>1, CopyStaysFine
  <2>2. CASE f = h /\ e = g
    <3>1. mail'[f][e] = Tail(m) /\ mail[f][e] = m
      BY <1>3, <2>2 DEF m
    <3>2. Tail(m)[i] = m[i + 1] /\ i + 1 \in 1 .. Len(m)
      BY <1>5, <3>1
    <3>3. LastOf(m, i + 1)
      <4> SUFFICES ASSUME NEW k \in i + 1 + 1 .. Len(m)
                   PROVE  m[k].cols.ue # m[i + 1].cols.ue
        BY DEF LastOf
      <4>1. k - 1 \in i + 1 .. Len(Tail(m)) /\ k - 1 \in 1 .. Len(Tail(m))
            /\ k - 1 + 1 = k
        BY <1>5, <3>1
      <4>2. Tail(m)[k - 1] = m[k]
        BY <1>5, <4>1
      <4> QED
        BY <3>1, <3>2, <4>1, <4>2 DEF LastOf
    <3> QED
      BY <1>2, <1>7, <1>10, <3>1, <3>2, <3>3, CopyStaysFine
  <2> QED
    BY <2>1, <2>2
<1>12. ASSUME NEW f \in Site, NEW e \in Site, NEW i \in 1 .. Len(mail[f][e]),
              ~(f = h /\ e = g /\ i = 1)
       PROVE  Pending(mail', mail[f][e][i].cols.ue, e)
  <2>1. CASE ~(f = h /\ e = g)
    <3>1. mail'[f][e] = mail[f][e]
      BY <1>3, <2>1
    <3> QED
      BY <3>1 DEF Pending
  <2>2. CASE f = h /\ e = g
    <3>1. mail'[f][e] = Tail(m) /\ mail[f][e] = m
      BY <1>3, <2>2 DEF m
    <3>2. i - 1 \in 1 .. Len(Tail(m)) /\ i - 1 + 1 = i
      BY <1>5, <1>12, <2>2, <3>1
    <3>3. Tail(m)[i - 1] = m[i]
      BY <1>5, <3>2
    <3> QED
      BY <3>1, <3>2, <3>3 DEF Pending
  <2> QED
    BY <2>1, <2>2
<1>13. RowsFresh(rows', mail', job', pdn')
  <2> SUFFICES ASSUME NEW e \in Site, NEW x \in rows[e]
               PROVE  Fine(x.cols, job', pdn') \/ Pending(mail', x.cols.ue, e)
    BY <1>1 DEF RowsFresh
  <2>1. CASE ~(e = g /\ x.cols.ue = o.cols.ue)
    <3>1. ASSUME Pending(mail, x.cols.ue, e)
          PROVE  Pending(mail', x.cols.ue, e)
      <4>0. PICK f \in Site :
              \E i \in 1 .. Len(mail[f][e]) : mail[f][e][i].cols.ue = x.cols.ue
        BY <3>1 DEF Pending
      <4>1. PICK i \in 1 .. Len(mail[f][e]) :
              mail[f][e][i].cols.ue = x.cols.ue
        BY <4>0
      <4>2. ~(f = h /\ e = g /\ i = 1)
        BY <1>5, <2>1, <4>1 DEF m
      <4>3. Pending(mail', mail[f][e][i].cols.ue, e)
        BY <1>12, <4>1, <4>2
      <4> QED
        BY <4>1, <4>3
    <3> QED
      BY <1>2, <1>7, <1>10, <3>1, RowStaysFine
  <2>2. CASE e = g /\ x.cols.ue = o.cols.ue
    <3>1. o.kind = "set" /\ x.cols.s = o.cols.s
      BY <1>6, <1>7, <2>2 DEF JobFresh
    <3>2. CASE LastOf(m, 1)
      <4>1. m[1].kind = "set" /\ m[1].cols = o.cols
        BY <1>5, <3>1
      <4>2. Fine(o.cols, job', pdn')
        BY <1>1, <1>2, <1>5, <1>7, <1>10, <3>2, <4>1, CopyStaysFine DEF m
      <4> QED
        BY <2>2, <3>1, <4>2 DEF Fine
    <3>3. CASE ~LastOf(m, 1)
      <4>1. PICK i \in 1 + 1 .. Len(m) : m[i].cols.ue = m[1].cols.ue
        BY <3>3 DEF LastOf
      <4>2. i \in 1 .. Len(mail[h][g]) /\ i # 1
        BY <1>5, <4>1 DEF m
      <4>3. Pending(mail', mail[h][g][i].cols.ue, g)
        BY <1>1, <1>12, <4>2
      <4>4. mail[h][g][i].cols.ue = x.cols.ue
        BY <1>5, <2>2, <4>1 DEF m
      <4> QED
        BY <2>2, <4>3, <4>4
    <3> QED
      BY <3>2, <3>3
  <2> QED
    BY <2>1, <2>2
<1>14. CurrentGoesOn
  BY <1>2, <1>9 DEF CurrentGoesOn
<1>15. JobsGoOn
  BY <1>1, <1>9, SweeperFresh DEF JobsGoOn
<1> QED
  BY <1>11, <1>13, <1>14, <1>15

LEMMA RespondFresh ==
  ASSUME TypeInv, TypeInv', RowsInv, RowsInv', HomeInv, FreshInv,
         NEW t \in Thread, Respond(t)
  PROVE  FreshInv'
<1>1. CASE Pop(job[t].from, SiteOf[t])
  BY <1>1, PopFresh
<1>2. CASE UNCHANGED mail
  <2>1. /\ Within(t, Idle) /\ UNCHANGED <<rows, mail>> /\ job[t].from # None
    BY <1>2, RespondParts, EmergencyAssumption DEF Within
  <2>2. ~Asks(job[t])
    BY <2>1 DEF Asks
  <2> QED
    BY <2>1, <2>2, SweeperFresh, NothingMinded, FreshWithin
<1> QED
  BY <1>1, <1>2, RespondParts

-----------------------------------------------------------------------------
LEMMA InitFresh == Init => FreshInv
<1> SUFFICES ASSUME Init
             PROVE  FreshInv
  OBVIOUS
<1>1. /\ \A t \in Thread : job[t] = Idle
      /\ \A h \in Site : rows[h] = {}
      /\ \A h, g \in Site : mail[h][g] = << >>
      /\ \A u \in Ue : current[u] = None
      /\ bearers = {}
  BY DEF Init
<1>2. MailFresh(mail, job, pdn)
  BY <1>1, EmptySeq DEF MailFresh
<1>3. JobsFresh
  BY <1>1, SweeperFresh DEF JobsFresh
<1> QED
  BY <1>1, <1>2, <1>3 DEF FreshInv, RowsFresh, CurrentFresh, BearersFresh

LEMMA FreshKept ==
  TypeInv /\ RowsInv /\ HomeInv /\ FreshInv /\ [Next]_vars => FreshInv'
<1> SUFFICES ASSUME TypeInv, RowsInv, HomeInv, FreshInv, [Next]_vars
             PROVE  FreshInv'
  OBVIOUS
<1>1. TypeInv' /\ RowsInv'
  BY TypeKept, RowsKept
<1>2. CASE Next
  <2>1. CASE Tick
    BY <1>1, <2>1, SameFresh DEF Tick
  <2>2. ASSUME NEW h \in Site, NEW g \in Site, GiveUp(h, g)
        PROVE  FreshInv'
    BY <2>2, LostFresh DEF GiveUp, Blame
  <2>3. ASSUME NEW t \in Worker, Dies(t)
        PROVE  FreshInv'
    BY <2>3, LostFresh DEF Dies, Blame
  <2> QED
    BY <1>1, <1>2, <2>1, <2>2, <2>3, StepKinds, DetachFresh, ArriveFresh,
       CcrIFresh, CcrTFresh, AarFresh, StrFresh, GetFresh, FindFresh, CommitFresh,
       DeleteFresh, QueueFresh, SentFresh, AnswerFresh, SweepFresh,
       FailsFresh, RespondFresh, DeliverFresh
<1>3. CASE UNCHANGED vars
  BY <1>1, <1>3, SameFresh DEF vars
<1> QED
  BY <1>2, <1>3

LEMMA FreshAlways == Spec => [](TypeInv /\ RowsInv /\ HomeInv /\ FreshInv)
<1>1. Init => TypeInv /\ RowsInv /\ HomeInv /\ FreshInv
  BY InitTypeInv, InitRows, InitHome, InitFresh
<1>2. TypeInv /\ RowsInv /\ HomeInv /\ FreshInv /\ [Next]_vars =>
        (TypeInv /\ RowsInv /\ HomeInv /\ FreshInv)'
  BY TypeKept, RowsKept, HomeKept, FreshKept
<1> QED
  BY <1>1, <1>2, PTL DEF Spec

\* Answer_16777236_265: unless handlers overlapped, the bearer of a call is
\* asked of a session of the UE that calls, and if nothing was lost, of the
\* session it calls from.
THEOREM CalledHome == Spec => []CallsHome
<1>1. TypeInv /\ RowsInv /\ HomeInv /\ FreshInv => CallsHome
  <2> SUFFICES ASSUME HomeInv, FreshInv, Apart
               PROVE  CallsHome
    BY DEF CallsHome, Apart
  <2>1. \A b \in bearers : pdn[b[1]].ue = pdn[call[b[2]].s].ue
    BY DEF HomeInv, ServesInv, AtHome
  <2>2. "lost" \notin cause => \A b \in bearers : b[1] = call[b[2]].s
    BY DEF FreshInv, BearersFresh, Sound, Apart
  <2> QED
    BY <2>1, <2>2 DEF CallsHome
<1> QED
  BY <1>1, FreshAlways, PTL

-----------------------------------------------------------------------------
(***************************************************************************)
(* What each site will have.                                               *)
(***************************************************************************)

LEMMA NobodyElse ==
  ASSUME TypeInv, RowsInv, Apart, NEW t \in Thread, NEW u \in Ue,
         AtWork(job[t], u)
  PROVE  /\ \A h, g \in Site : h # SiteOf[t] =>
              \A i \in 1 .. Len(mail[h][g]) : mail[h][g][i].cols.ue # u
         /\ ~Pending(mail, u, SiteOf[t])
         /\ \A v \in Thread \ {t} : ~AtWork(job[v], u)
<1>1. u # None
  BY EmergencyAssumption
<1>2. PICK k \in Keys(job[t]) : k[1] = u
  BY DEF AtWork
<1>3. \A h, g \in Site : h # SiteOf[t] =>
        \A i \in 1 .. Len(mail[h][g]) : mail[h][g][i].cols.ue # u
  BY <1>1, <1>2 DEF RowsInv, MailInv, AtWork, Busy, Conflict
<1>4. \A g \in Site : mail[g][g] = << >>
  BY DEF TypeInv
<1>5. ~Pending(mail, u, SiteOf[t])
  <2> SUFFICES ASSUME NEW h \in Site, NEW i \in 1 .. Len(mail[h][SiteOf[t]])
               PROVE  mail[h][SiteOf[t]][i].cols.ue # u
    BY DEF Pending
  <2>1. SiteOf[t] \in Site
    BY Typed
  <2> QED
    BY <1>3, <1>4, <2>1, EmptySeq
<1>6. ASSUME NEW v \in Thread \ {t}, AtWork(job[v], u)
      PROVE  FALSE
  <2>1. PICK l \in Keys(job[v]) : l[1] = u
    BY <1>6 DEF AtWork
  <2> QED
    BY <1>1, <1>2, <1>6, <2>1 DEF RowsInv, ApartInv, AtWork, Busy, Conflict
<1> QED
  BY <1>3, <1>5, <1>6

LEMMA ViewIsRows ==
  ASSUME NEW R, NEW M, NEW g, NEW k, ~Pending(M, k.ue, g)
  PROVE  Will(R, M, g, k) <=> Has(R, g, k)
BY DEF Will, Announced, SaidBy, Pending, Sets

\* Only rows of the UE u at the site a are written.
LEMMA ViewWrites ==
  ASSUME NEW R, NEW Q, NEW M, NEW a, NEW u,
         \A g \in Site \ {a} : Q[g] = R[g],
         \A x : ~(x \in R[a] <=> x \in Q[a]) => x.cols.ue = u
  PROVE  \A g \in Site : \A k :
           g # a \/ k.ue # u \/ Pending(M, u, a) =>
             (Will(Q, M, g, k) <=> Will(R, M, g, k))
<1> SUFFICES ASSUME NEW g \in Site, NEW k, g # a \/ k.ue # u \/ Pending(M, u, a)
             PROVE  Will(Q, M, g, k) <=> Will(R, M, g, k)
  OBVIOUS
<1>1. CASE g # a
  BY <1>1 DEF Will, Has
<1>2. CASE g = a /\ k.ue # u
  BY <1>2 DEF Will, Has
<1>3. CASE g = a /\ k.ue = u
  BY <1>3 DEF Will
<1> QED
  BY <1>1, <1>2, <1>3

LEMMA ViewQueued ==
  ASSUME NEW R, NEW M, NEW N, NEW a \in Site, NEW c, Queues(M, N, a, c),
         NEW g \in Site, NEW k
  PROVE  /\ g = a \/ k.ue # c.cols.ue =>
              (Will(R, N, g, k) <=> Will(R, M, g, k))
         /\ g # a /\ k.ue = c.cols.ue => (Will(R, N, g, k) <=> Sets(c, k))
<1> DEFINE m == M[a][g]
           n == N[a][g]
<1>0. /\ \A h \in Site : Len(M[h][g]) \in Nat
      /\ \A h \in Site : IF h = a /\ g # a
           THEN /\ Len(N[h][g]) = Len(M[h][g]) + 1
                /\ \A i \in 1 .. Len(M[h][g]) : N[h][g][i] = M[h][g][i]
                /\ N[h][g][Len(N[h][g])] = c
           ELSE N[h][g] = M[h][g]
      /\ \A h \in Site : h # a =>
           \A i \in 1 .. Len(M[h][g]) : M[h][g][i].cols.ue # c.cols.ue
  BY DEF Queues
<1>1. CASE g = a
  BY <1>0, <1>1 DEF Will, Announced, SaidBy, Pending
<1>2. CASE g # a /\ k.ue # c.cols.ue
  <2>1. Announced(M, g, k) => Announced(N, g, k)
    <3> SUFFICES ASSUME NEW h \in Site, NEW i \in 1 .. Len(M[h][g]),
                        Sets(M[h][g][i], k), LastOf(M[h][g], i)
                 PROVE  Announced(N, g, k)
      BY DEF Announced, SaidBy
    <3>1. CASE h # a
      BY <1>0, <3>1 DEF Announced, SaidBy
    <3>2. CASE h = a
      <4>1. i \in 1 .. Len(n) /\ n[i] = m[i]
        BY <1>0, <1>2, <3>2
      <4>2. ASSUME NEW l \in i + 1 .. Len(n)
            PROVE  n[l].cols.ue # n[i].cols.ue
        <5>1. l = Len(n) \/ (l \in i + 1 .. Len(m) /\ l \in 1 .. Len(m))
          BY <1>0, <1>2, <3>2
        <5> QED
          BY <1>0, <1>2, <3>2, <4>1, <5>1 DEF LastOf, Sets
      <4> QED
        BY <3>2, <4>1, <4>2 DEF Announced, SaidBy, LastOf
    <3> QED
      BY <3>1, <3>2
  <2>2. Announced(N, g, k) => Announced(M, g, k)
    <3> SUFFICES ASSUME NEW h \in Site, NEW i \in 1 .. Len(N[h][g]),
                        Sets(N[h][g][i], k), LastOf(N[h][g], i)
                 PROVE  Announced(M, g, k)
      BY DEF Announced, SaidBy
    <3>1. CASE h # a
      BY <1>0, <3>1 DEF Announced, SaidBy
    <3>2. CASE h = a
      <4>1. i # Len(n)
        BY <1>0, <1>2, <3>2 DEF Sets
      <4>2. i \in 1 .. Len(m) /\ n[i] = m[i]
        BY <1>0, <1>2, <3>2, <4>1
      <4>3. LastOf(m, i)
        <5> SUFFICES ASSUME NEW l \in i + 1 .. Len(m)
                     PROVE  m[l].cols.ue # m[i].cols.ue
          BY DEF LastOf
        <5>1. l \in i + 1 .. Len(n) /\ l \in 1 .. Len(m) /\ n[l] = m[l]
          BY <1>0, <1>2, <3>2
        <5> QED
          BY <3>2, <4>2, <5>1 DEF LastOf
      <4> QED
        BY <3>2, <4>2, <4>3 DEF Announced, SaidBy
    <3> QED
      BY <3>1, <3>2
  <2>3. Pending(M, k.ue, g) => Pending(N, k.ue, g)
    <3> SUFFICES ASSUME NEW h \in Site, NEW i \in 1 .. Len(M[h][g]),
                        M[h][g][i].cols.ue = k.ue
                 PROVE  Pending(N, k.ue, g)
      BY DEF Pending
    <3>1. i \in 1 .. Len(N[h][g]) /\ N[h][g][i] = M[h][g][i]
      BY <1>0, <1>2
    <3> QED
      BY <3>1 DEF Pending
  <2>4. Pending(N, k.ue, g) => Pending(M, k.ue, g)
    <3> SUFFICES ASSUME NEW h \in Site, NEW i \in 1 .. Len(N[h][g]),
                        N[h][g][i].cols.ue = k.ue
                 PROVE  Pending(M, k.ue, g)
      BY DEF Pending
    <3>1. ~(h = a /\ i = Len(N[h][g]))
      BY <1>0, <1>2
    <3>2. i \in 1 .. Len(M[h][g]) /\ N[h][g][i] = M[h][g][i]
      BY <1>0, <1>2, <3>1
    <3> QED
      BY <3>2 DEF Pending
  <2> QED
    BY <1>2, <2>1, <2>2, <2>3, <2>4 DEF Will
<1>3. CASE g # a /\ k.ue = c.cols.ue
  <2>1. Len(n) \in 1 .. Len(n) /\ n[Len(n)] = c
    BY <1>0, <1>3
  <2>2. Pending(N, k.ue, g)
    BY <1>0, <1>3, <2>1 DEF Pending
  <2>3. Sets(c, k) => Announced(N, g, k)
    <3>1. LastOf(n, Len(n))
      BY <1>0, <1>3 DEF LastOf
    <3> QED
      BY <2>1, <3>1 DEF Announced, SaidBy
  <2>4. Announced(N, g, k) => Sets(c, k)
    <3> SUFFICES ASSUME NEW h \in Site, NEW i \in 1 .. Len(N[h][g]),
                        Sets(N[h][g][i], k), LastOf(N[h][g], i)
                 PROVE  Sets(c, k)
      BY DEF Announced, SaidBy
    <3>1. h = a
      BY <1>0, <1>3 DEF Sets
    <3>2. i = Len(n) \/ Len(n) \in i + 1 .. Len(n)
      BY <1>0, <1>3, <3>1
    <3> QED
      BY <1>0, <1>3, <2>1, <3>1, <3>2 DEF LastOf, Sets
  <2> QED
    BY <1>3, <2>2, <2>3, <2>4 DEF Will
<1> QED
  BY <1>1, <1>2, <1>3

LEMMA ViewPopped ==
  ASSUME NEW R, NEW M, NEW N, NEW f \in Site, NEW e \in Site, NEW c,
         SourceOK(M), Pops(M, N, f, e, c), StoredAt(R, e, c),
         NEW g \in Site, NEW k
  PROVE  Will(R, N, g, k) <=> Will(R, M, g, k)
<1> DEFINE m == M[f][e]
           n == N[f][e]
<1>3. /\ Len(M[f][e]) \in Nat /\ 1 \in 1 .. Len(M[f][e]) /\ M[f][e][1] = c
      /\ Len(N[f][e]) = Len(M[f][e]) - 1
      /\ \A i \in 1 .. Len(N[f][e]) : N[f][e][i] = M[f][e][i + 1]
      /\ \A h, d \in Site : ~(h = f /\ d = e) => N[h][d] = M[h][d]
  BY DEF Pops
<1>4. /\ c.kind \in {"set", "clear"}
      /\ c.kind = "set" => Has(R, e, c.cols)
      /\ c.kind = "clear" => \A x \in R[e] : x.cols.ue # c.cols.ue
      /\ \A x, y \in R[e] : x.cols.ue = y.cols.ue => x = y
  BY DEF StoredAt
<1>1. CASE g # e
  <2>1. \A h \in Site : N[h][g] = M[h][g]
    BY <1>3, <1>1
  <2>2. Announced(N, g, k) <=> Announced(M, g, k)
    BY <2>1 DEF Announced
  <2>3. Pending(N, k.ue, g) <=> Pending(M, k.ue, g)
    BY <2>1 DEF Pending
  <2> QED
    BY <2>2, <2>3 DEF Will
<1>0. /\ Len(m) \in Nat /\ 1 \in 1 .. Len(m) /\ m[1] = c
      /\ Len(n) = Len(m) - 1
      /\ \A i \in 1 .. Len(n) : n[i] = m[i + 1] /\ i + 1 \in 1 .. Len(m)
      /\ \A i \in 1 .. Len(m) : i # 1 => i - 1 \in 1 .. Len(n) /\ n[i - 1] = m[i]
  BY <1>3
<1>2. CASE g = e
  <2>0. N[f][g] = n /\ M[f][g] = m
    BY <1>2
  <2> HIDE DEF m, n
  <2>1. Announced(N, g, k) => Announced(M, g, k)
    <3> SUFFICES ASSUME NEW h \in Site, NEW i \in 1 .. Len(N[h][g]),
                        Sets(N[h][g][i], k), LastOf(N[h][g], i)
                 PROVE  Announced(M, g, k)
      BY DEF Announced, SaidBy
    <3>1. CASE h # f
      <4>1. N[h][g] = M[h][g]
        BY <1>3, <3>1
      <4> QED
        BY <4>1 DEF Announced, SaidBy
    <3>2. CASE h = f
      <4>1. i + 1 \in 1 .. Len(m) /\ n[i] = m[i + 1]
        BY <1>0, <1>2, <2>0, <3>2
      <4>2. ASSUME NEW l \in i + 1 + 1 .. Len(m)
            PROVE  m[l].cols.ue # m[i + 1].cols.ue
        <5>1. l - 1 \in i + 1 .. Len(n) /\ n[l - 1] = m[l]
          BY <1>0, <1>2, <2>0, <3>2
        <5> QED
          BY <1>0, <1>2, <2>0, <3>2, <4>1, <5>1 DEF LastOf
      <4>3. M[h][g] = m /\ Sets(m[i + 1], k) /\ LastOf(m, i + 1)
        BY <2>0, <3>2, <4>1, <4>2 DEF LastOf
      <4> QED
        BY <4>1, <4>3 DEF Announced, SaidBy
    <3> QED
      BY <3>1, <3>2
  <2>2. ASSUME Announced(M, g, k)
        PROVE  \/ Announced(N, g, k)
               \/ Sets(c, k) /\ LastOf(m, 1)
    <3>0. PICK h \in Site : \E i \in 1 .. Len(M[h][g]) :
            Sets(M[h][g][i], k) /\ LastOf(M[h][g], i)
      BY <2>2 DEF Announced, SaidBy
    <3> PICK i \in 1 .. Len(M[h][g]) : Sets(M[h][g][i], k) /\ LastOf(M[h][g], i)
      BY <3>0
    <3>1. CASE h # f
      <4>1. N[h][g] = M[h][g]
        BY <1>3, <3>1
      <4> QED
        BY <4>1 DEF Announced, SaidBy
    <3>2. CASE h = f /\ i # 1
      <4>1. i - 1 \in 1 .. Len(n) /\ n[i - 1] = m[i]
        BY <1>0, <1>2, <2>0, <3>2
      <4>2. ASSUME NEW l \in i - 1 + 1 .. Len(n)
            PROVE  n[l].cols.ue # n[i - 1].cols.ue
        <5>0. l \in 1 .. Len(n)
          BY <1>0, <2>0, <3>2
        <5>1. l + 1 \in i + 1 .. Len(m) /\ n[l] = m[l + 1]
          BY <1>0, <2>0, <3>2, <5>0
        <5> QED
          BY <2>0, <3>2, <4>1, <5>1 DEF LastOf
      <4>3. N[h][g] = n /\ Sets(n[i - 1], k) /\ LastOf(n, i - 1)
        BY <2>0, <3>2, <4>1, <4>2 DEF LastOf
      <4> QED
        BY <4>1, <4>3 DEF Announced, SaidBy
    <3>3. CASE h = f /\ i = 1
      BY <1>0, <1>2, <2>0, <3>3
    <3> QED
      BY <3>1, <3>2, <3>3
  <2>3. Pending(N, k.ue, g) => Pending(M, k.ue, g)
    <3> SUFFICES ASSUME NEW h \in Site, NEW i \in 1 .. Len(N[h][g]),
                        N[h][g][i].cols.ue = k.ue
                 PROVE  Pending(M, k.ue, g)
      BY DEF Pending
    <3>1. CASE h # f
      <4>1. N[h][g] = M[h][g]
        BY <1>3, <3>1
      <4> QED
        BY <4>1 DEF Pending
    <3>2. CASE h = f
      <4>1. i + 1 \in 1 .. Len(m) /\ n[i] = m[i + 1]
        BY <1>0, <1>2, <2>0, <3>2
      <4>2. M[h][g] = m /\ m[i + 1].cols.ue = k.ue
        BY <2>0, <3>2, <4>1
      <4> QED
        BY <4>1, <4>2 DEF Pending
    <3> QED
      BY <3>1, <3>2
  <2>4. ASSUME Pending(M, k.ue, g), k.ue # c.cols.ue \/ ~LastOf(m, 1)
        PROVE  Pending(N, k.ue, g)
    <3>0. PICK h \in Site : \E i \in 1 .. Len(M[h][g]) : M[h][g][i].cols.ue = k.ue
      BY <2>4 DEF Pending
    <3> PICK i \in 1 .. Len(M[h][g]) : M[h][g][i].cols.ue = k.ue
      BY <3>0
    <3>1. CASE h # f
      <4>1. N[h][g] = M[h][g]
        BY <1>3, <3>1
      <4> QED
        BY <4>1 DEF Pending
    <3>2. CASE h = f /\ i # 1
      <4>1. i - 1 \in 1 .. Len(n) /\ n[i - 1] = m[i]
        BY <1>0, <1>2, <2>0, <3>2
      <4> QED
        BY <1>0, <1>2, <2>0, <3>2, <4>1 DEF Pending
    <3>3. CASE h = f /\ i = 1
      <4>1. PICK l \in 1 + 1 .. Len(m) : m[l].cols.ue = m[1].cols.ue
        BY <1>0, <1>2, <2>0, <2>4, <3>3 DEF LastOf
      <4>2. l - 1 \in 1 .. Len(n) /\ n[l - 1] = m[l]
        BY <1>0, <1>2, <2>0, <4>1
      <4> QED
        BY <1>0, <1>2, <2>0, <3>3, <4>1, <4>2 DEF Pending
    <3> QED
      BY <3>1, <3>2, <3>3
  <2>5. ASSUME k.ue = c.cols.ue, LastOf(m, 1)
        PROVE  ~Pending(N, k.ue, g) /\ ~Announced(N, g, k)
    <3>1. ASSUME NEW h \in Site, NEW i \in 1 .. Len(N[h][g])
          PROVE  N[h][g][i].cols.ue # k.ue
      <4>1. CASE h # f
        <5>1. N[h][g] = M[h][g]
          BY <1>3, <4>1
        <5>2. 1 \in 1 .. Len(M[f][g]) /\ M[f][g][1].cols.ue = k.ue
          BY <1>3, <1>2, <2>5
        <5>3. h = f \/ M[h][g][i].cols.ue # M[f][g][1].cols.ue
          BY <3>1, <5>1, <5>2 DEF SourceOK
        <5> QED
          BY <4>1, <5>1, <5>2, <5>3
      <4>2. CASE h = f
        <5>1. i + 1 \in 1 + 1 .. Len(m) /\ n[i] = m[i + 1]
          BY <1>0, <1>2, <2>0, <3>1, <4>2
        <5> QED
          BY <1>0, <1>2, <2>0, <2>5, <4>2, <5>1 DEF LastOf
      <4> QED
        BY <4>1, <4>2
    <3> QED
      BY <3>1 DEF Pending, Announced, SaidBy, Sets
  <2>6. CASE k.ue = c.cols.ue /\ LastOf(m, 1)
    <3>1. Will(R, N, g, k) <=> Has(R, g, k)
      BY <2>5, <2>6 DEF Will
    <3>2. Pending(M, k.ue, g)
      BY <1>0, <1>2, <2>0, <2>6 DEF Pending
    <3>3. Will(R, M, g, k) <=> Sets(c, k)
      BY <1>0, <1>2, <2>0, <2>2, <2>5, <2>6, <3>2 DEF Will, Announced, SaidBy
    <3>4. Has(R, g, k) <=> Sets(c, k)
      BY <1>0, <1>4, <1>2, <2>0, <2>6 DEF Has, Sets
    <3> QED
      BY <3>1, <3>3, <3>4
  <2>7. CASE ~(k.ue = c.cols.ue /\ LastOf(m, 1))
    <3>1. ~(Sets(c, k) /\ LastOf(m, 1))
      BY <2>7 DEF Sets
    <3> QED
      BY <2>1, <2>2, <2>3, <2>4, <2>7, <3>1 DEF Will
  <2> QED
    BY <2>6, <2>7
<1> QED
  BY <1>1, <1>2

LEMMA CommitWrites ==
  ASSUME TypeInv, TypeInv', RowsInv, Apart, NEW t \in Thread, Commit(t)
  PROVE  \E j : Wrote(t, j)
<1> DEFINE R == rows[SiteOf[t]]
           Q == rows'[SiteOf[t]]
           o == job[t]
           stored == IF o.from = None THEN "copy" ELSE "respond"
<1>1. /\ o.at = "commit" /\ o \in Job /\ o.kind \in {"set", "call"}
      /\ RowsOK(R, pdn) /\ R \subseteq Row /\ o.cols \in Columns /\ Busy(t)
      /\ UNCHANGED <<outside, mail, cause>> /\ o.old \in Row
      /\ o.cols.ue \in Ue
  BY Typed, JobFields
     DEF Commit, Writes, JobOK, PlaceOK, RowsOK, Busy, Real
<1>2. Own(R, o) /\ Unique(R)
  BY Typed DEF RowsInv, OwnInv, UniqueInv
<1>3. stored \in Places
  BY DEF Places
<1>4. /\ <<o.cols.ue, o.cols.ip>> \in Keys(o)
      /\ <<o.old.cols.ue, o.old.cols.ip>> \in Keys(o)
  BY KeysOf
<1>5. \E k \in Keys(o) : k[1] = o.cols.ue
  BY <1>4
<1>6. CASE o.old = NoRow
  <2> DEFINE y == Fresh(t)
             j == [o EXCEPT !.old = [o.old EXCEPT !.id = y.id], !.at = stored]
  <2>1. /\ Q = R \cup {y} /\ job' = [job EXCEPT ![t] = j] /\ Others(t)
    BY <1>6, CommitRows
  <2>2. y \in Row /\ y.cols = o.cols
    BY <1>1, FreshOK DEF Fresh
  <2>3. /\ j.at = stored /\ j.kind = o.kind /\ j.c = o.c /\ j.from = o.from
        /\ j.cols = o.cols /\ j.todo = o.todo
        /\ j.old.cols = o.old.cols
    BY <1>1 DEF Job, Row
  <2>4. j \in Job
    <3> HIDE DEF j
    <3> QED
      BY <2>1, NewJob
  <2> HIDE DEF j, y
  <2>5. Keys(j) = Keys(o) /\ SameWork(j, o) /\ Changed(j) = o.cols.ue
    BY <1>1, <2>3, SameKeys DEF SameWork, Changed
  <2>6. \A x \in R : x.cols.ue # o.cols.ue
    BY <1>1, <1>2, <1>6 DEF Own
  <2>7. /\ \A x : ~(x \in R <=> x \in Q) => x.cols.ue = o.cols.ue
        /\ \E x \in Q : x.cols = j.cols
    BY <2>1, <2>2, <2>3
  <2>8. Wrote(t, j)
    BY <1>1, <1>5, <2>1, <2>3, <2>4, <2>5, <2>6, <2>7 DEF Wrote
  <2> QED
    BY <2>8
<1>7. CASE o.old # NoRow
  <2> DEFINE j == [o EXCEPT !.at = stored]
             y == Rewritten(t, o.old)
  <2>1. o.old \in R
    BY <1>1, <1>2, <1>7 DEF Own
  <2>2. /\ Q = {Rewritten(t, x) : x \in R}
        /\ job' = [job EXCEPT ![t] = j] /\ Others(t)
    BY <1>7, <2>1, CommitRows
  <2>3. y.cols = o.cols
    BY <1>1, <2>1, RewrittenOK
  <2>4. \A x \in R : Rewritten(t, x) = IF x = o.old THEN y ELSE x
    BY <1>1, <2>1 DEF Rewritten, RowsOK
  <2>5. j = GoesTo(o, stored)
    BY DEF GoesTo
  <2> HIDE DEF j, y
  <2>6. Q = (R \ {o.old}) \cup {y}
    BY <2>1, <2>2, <2>4
  <2>7. /\ j.at = stored /\ SameWork(j, o) /\ j.old = o.old /\ j.todo = o.todo
        /\ j \in Job
    BY <1>1, <1>3, <2>5, JobGoes
  <2>8. Keys(j) = Keys(o) /\ Changed(j) = o.cols.ue
    BY <1>1, <2>7, SameKeys DEF SameWork, Changed
  <2>9. o.old.cols.ue = o.cols.ue
    <3>1. o.old.cols \in Columns
      BY <1>1 DEF Row
    <3>2. CASE o.kind = "set"
      BY <1>1, <1>2, <1>7, <3>2 DEF Own
    <3>3. CASE o.kind = "call"
      <4>1. o.cols = [o.old.cols EXCEPT !.rx = o.c]
        BY <1>1, <1>2, <1>7, <3>3 DEF Own
      <4> HIDE DEF o
      <4> QED
        BY <3>1, <4>1, RxOnly
    <3> QED
      BY <1>1, <3>2, <3>3
  <2>10. /\ \A x : ~(x \in R <=> x \in Q) => x.cols.ue = o.cols.ue
         /\ \E x \in Q : x.cols = j.cols
         /\ \A x \in R : x.cols.ue = o.cols.ue => x = o.old
    BY <1>2, <2>1, <2>3, <2>6, <2>7, <2>9 DEF Unique, SameWork
  <2>11. \A x \in R : x.cols.ue = o.cols.ue =>
                        <<x.cols.ue, x.cols.ip>> \in Keys(o)
    BY <1>4, <2>10
  <2>12. o.from = j.from /\ o.kind = j.kind /\ o.cols = j.cols
    BY <2>7 DEF SameWork
  <2>13. Wrote(t, j)
    BY <1>1, <1>5, <2>2, <2>7, <2>8, <2>10, <2>11, <2>12 DEF Wrote
  <2> QED
    BY <2>13
<1> QED
  BY <1>6, <1>7

LEMMA DeleteWrites ==
  ASSUME TypeInv, RowsInv, Apart, NEW t \in Thread, Delete(t)
  PROVE  \E j : Wrote(t, j)
<1> DEFINE o == job[t]
           R == rows[SiteOf[t]]
           Q == rows'[SiteOf[t]]
<1>1. PICK j \in Job :
        /\ Within(t, j)
        /\ Busy(t) /\ SameWork(j, o) /\ j.old = o.old
        /\ j.kind \in {"clear", "sweep"} /\ o.at = "delete"
        /\ j.at = IF j.from = None THEN "copy" ELSE "respond"
        /\ UNCHANGED <<mail, cause>> /\ Others(t)
        /\ Q = {x \in R : x.id # o.old.id}
  BY DeleteJob
<1>2. /\ job' = [job EXCEPT ![t] = j] /\ UNCHANGED <<outside, mail, cause>>
      /\ j.from = o.from /\ j.kind = o.kind /\ j.cols = o.cols
      /\ (o.from # None => o.kind = "clear")
      /\ RowsOK(R, pdn) /\ o.old.cols.ue \in Ue
  BY <1>1, Typed DEF Within, SameWork, JobOK, PlaceOK, Real
<1>3. Own(R, o) /\ Unique(R)
  BY Typed DEF RowsInv, OwnInv, UniqueInv
<1>4. o.old \in R /\ Q = R \ {o.old}
  BY <1>1, <1>2, <1>3 DEF Own, RowsOK
<1>5. o.kind = "clear" => o.old.cols.ue = o.cols.ue
  BY <1>1, <1>3 DEF Own
<1>6. j.todo = o.todo
  <2> DEFINE at == IF o.from = None THEN "copy" ELSE "respond"
  <2>1. job' = [job EXCEPT ![t] = [o EXCEPT !.at = at]]
    BY DeleteRows
  <2>2. job \in [Thread -> Job]
    BY DEF TypeInv, TypeOK
  <2>3. j = GoesTo(o, at)
    BY <1>2, <2>1, <2>2 DEF GoesTo
  <2>4. at \in Places /\ o \in Job
    BY <2>2 DEF Places
  <2> QED
    BY <2>3, <2>4, JobGoes
<1>7. Keys(j) = Keys(o) /\ Changed(j) = o.old.cols.ue
  BY <1>1, <1>2, <1>6, SameKeys DEF Changed
<1>8. <<o.old.cols.ue, o.old.cols.ip>> \in Keys(o)
  BY KeysOf
<1>9. \E k \in Keys(o) : k[1] = o.old.cols.ue
  BY <1>8
<1>10. /\ \A x : ~(x \in R <=> x \in Q) => x.cols.ue = o.old.cols.ue
       /\ \A x \in R : x.cols.ue = o.old.cols.ue =>
                         <<x.cols.ue, x.cols.ip>> \in Keys(o)
       /\ \A x \in Q : x.cols.ue # o.old.cols.ue
  BY <1>3, <1>4, <1>8 DEF Unique
<1>11. Wrote(t, j)
  BY <1>1, <1>2, <1>5, <1>7, <1>9, <1>10 DEF Wrote
<1> QED
  BY <1>11

LEMMA Written ==
  ASSUME TypeInv, TypeInv', RowsInv, Apart, NEW t \in Thread,
         Commit(t) \/ Delete(t)
  PROVE  \E j : Wrote(t, j)
BY CommitWrites, DeleteWrites

LEMMA ChangedKey ==
  ASSUME NEW j
  PROVE  /\ \E k \in Keys(j) : k[1] = Changed(j)
         /\ \E k \in Keys(j) : k[1] = j.cols.ue
<1>1. <<j.cols.ue, j.cols.ip>>[1] = j.cols.ue
      /\ <<j.old.cols.ue, j.old.cols.ip>>[1] = j.old.cols.ue
  OBVIOUS
<1> QED
  BY <1>1, KeysOf DEF Changed

\* What a handler at work on one of the UEs has at hand nobody else touches.
LEMMA OthersStaged ==
  ASSUME TypeInv, RowsInv, Apart, NEW t \in Thread, NEW j, Wrote(t, j),
         NEW v \in Thread \ {t}, Staged(job[v], rows[SiteOf[v]])
  PROVE  Staged(job[v], rows'[SiteOf[v]])
<1> DEFINE A == SiteOf[t]
           u == Changed(j)
<1>1. CASE SiteOf[v] # A
  <2>1. rows'[SiteOf[v]] = rows[SiteOf[v]]
    BY <1>1, Typed DEF Wrote, Others
  <2> QED
    BY <2>1
<1>2. CASE SiteOf[v] = A
  <2>1. u # None /\ Busy(t) /\ \E k \in Keys(job[t]) : k[1] = u
    BY EmergencyAssumption DEF Wrote
  <2>2. ASSUME Busy(v), NEW l \in Keys(job[v])
        PROVE  l[1] # u
    BY <1>2, <2>1, <2>2 DEF RowsInv, ApartInv, Conflict
  <2>3. job[v].at \in {"copy", "respond"} =>
          Changed(job[v]) # u /\ job[v].cols.ue # u
    BY <2>2, ChangedKey DEF Busy
  <2>4. \A x : ~(x \in rows[A] <=> x \in rows'[A]) => x.cols.ue = u
    BY DEF Wrote
  <2> QED
    BY <1>2, <2>3, <2>4 DEF Staged
<1> QED
  BY <1>1, <1>2

LEMMA CopyingKept ==
  ASSUME CopyingOK(rows, mail, job), SameView,
         \A v \in Thread : job'[v].at = "copy" => job'[v] = job[v]
  PROVE  CopyingOK(rows', mail', job')
BY DEF CopyingOK, SameView

LEMMA AgreedKept ==
  ASSUME Agreed(rows, mail, job), SameView,
         \A v \in Thread : job[v].at = "copy" => job'[v] = job[v]
  PROVE  Agreed(rows', mail', job')
<1> SUFFICES ASSUME NEW k, ~Copying(job', k.ue), NEW g \in Site, NEW h \in Site,
                    Will(rows', mail', g, k)
             PROVE  Will(rows', mail', h, k)
  BY DEF Agreed
<1>1. ~Copying(job, k.ue)
  <2> SUFFICES ASSUME NEW v \in Thread, job[v].at = "copy",
                      Changed(job[v]) = k.ue
               PROVE  FALSE
    BY DEF Copying
  <2>1. job'[v] = job[v]
    OBVIOUS
  <2> QED
    BY <2>1 DEF Copying
<1> QED
  BY <1>1 DEF Agreed, SameView

LEMMA SyncParts ==
  ASSUME SyncInv, Sound
  PROVE  /\ SourceOK(mail) /\ \A t \in Thread : Staged(job[t], rows[SiteOf[t]])
         /\ CopyingOK(rows, mail, job) /\ Agreed(rows, mail, job)
BY DEF SyncInv

\* Nobody does anything with rows or copies.
LEMMA SyncRead ==
  ASSUME TypeInv, SyncInv, NEW t \in Thread, NEW j,
         job' = [job EXCEPT ![t] = j], UNCHANGED <<rows, mail>>,
         cause \subseteq cause',
         Sound' => /\ job[t].at # "copy" /\ j.at # "copy"
                   /\ j.at = "respond" =>
                        /\ j.kind # "set"
                        /\ \A x \in rows[SiteOf[t]] : x.cols.ue # j.cols.ue
  PROVE  SyncInv'
<1> SUFFICES ASSUME Sound'
             PROVE  SyncInv'
  BY DEF SyncInv
<1>1. Sound
  BY Soundly
<1>2. /\ SourceOK(mail) /\ \A v \in Thread : Staged(job[v], rows[SiteOf[v]])
      /\ CopyingOK(rows, mail, job) /\ Agreed(rows, mail, job)
  BY <1>1, SyncParts
<1>3. job'[t] = j /\ \A v \in Thread \ {t} : job'[v] = job[v]
  BY DEF TypeInv, TypeOK
<1>4. SameView
  BY DEF SameView
<1>5. \A v \in Thread : /\ job'[v].at = "copy" => job'[v] = job[v]
                        /\ job[v].at = "copy" => job'[v] = job[v]
  BY <1>3
<1>6. CopyingOK(rows', mail', job') /\ Agreed(rows', mail', job')
  BY <1>2, <1>4, <1>5, CopyingKept, AgreedKept
<1>7. Staged(j, rows[SiteOf[t]])
  BY DEF Staged
<1> QED
  BY <1>2, <1>3, <1>6, <1>7 DEF SyncInv

LEMMA SyncStays ==
  ASSUME SyncInv, UNCHANGED <<rows, mail, job>>, cause \subseteq cause'
  PROVE  SyncInv'
<1> SUFFICES ASSUME Sound'
             PROVE  SyncInv'
  BY DEF SyncInv
<1>1. Sound
  BY Soundly
<1> QED
  BY <1>1, SyncParts DEF SyncInv

\* Which UE a handler is at work on when it writes, and what changes by it.
LEMMA WroteViews ==
  ASSUME TypeInv, RowsInv, Apart, NEW t \in Thread, NEW j, Wrote(t, j)
  PROVE  LET u == Changed(j) IN
         /\ job[t].from # None => SameView
         /\ job[t].from = None =>
              /\ AtWork(job[t], u)
              /\ \A g \in Site : \A k : g # SiteOf[t] \/ k.ue # u =>
                   (Will(rows', mail', g, k) <=> Will(rows, mail, g, k))
              /\ \A k : k.ue = u =>
                   /\ Will(rows, mail, SiteOf[t], k) <=> Has(rows, SiteOf[t], k)
                   /\ Will(rows', mail', SiteOf[t], k) <=>
                        Has(rows', SiteOf[t], k)
<1> DEFINE A == SiteOf[t]
           u == Changed(j)
<1>1. /\ \A g \in Site \ {A} : rows'[g] = rows[g]
      /\ \A x : ~(x \in rows[A] <=> x \in rows'[A]) => x.cols.ue = u
      /\ mail' = mail /\ u \in Ue /\ Busy(t)
      /\ job[t].from # None => u = job[t].cols.ue
      /\ \E k \in Keys(job[t]) : k[1] = u
  BY DEF Wrote, Others
<1> HIDE DEF u, A
<1>2. \A g \in Site : \A k :
        g # A \/ k.ue # u \/ Pending(mail, u, A) =>
          (Will(rows', mail, g, k) <=> Will(rows, mail, g, k))
  BY <1>1, ViewWrites
<1>3. CASE job[t].from # None
  <2>1. Pending(mail, u, A)
    BY <1>1, <1>3, InQueue DEF A
  <2> QED
    BY <1>1, <1>2, <1>3, <2>1 DEF SameView
<1>4. CASE job[t].from = None
  <2>1. AtWork(job[t], u)
    BY <1>1, <1>4 DEF AtWork, Busy
  <2>2. ~Pending(mail, u, A)
    BY <1>1, <2>1, NobodyElse DEF A
  <2> QED
    BY <1>1, <1>2, <1>4, <2>1, <2>2, ViewIsRows DEF A, u
<1> QED
  BY <1>3, <1>4

LEMMA SyncWrites ==
  ASSUME TypeInv, TypeInv', RowsInv, RowsInv', SyncInv, NEW t \in Thread,
         Commit(t) \/ Delete(t)
  PROVE  SyncInv'
<1>0. cause' = cause
  BY DEF Commit, Delete, Writes
<1> SUFFICES ASSUME Sound'
             PROVE  SyncInv'
  BY DEF SyncInv
<1>1. Sound /\ Apart /\ Apart'
  BY <1>0, Soundly
<1>2. PICK j : Wrote(t, j)
  BY <1>1, Written
<1> DEFINE A == SiteOf[t]
           u == Changed(j)
           o == job[t]
<1>3. /\ SourceOK(mail) /\ \A v \in Thread : Staged(job[v], rows[SiteOf[v]])
      /\ CopyingOK(rows, mail, job) /\ Agreed(rows, mail, job)
  BY <1>1, SyncParts
<1>4. job'[t] = j /\ \A v \in Thread \ {t} : job'[v] = job[v]
  BY <1>2 DEF Wrote, TypeInv, TypeOK
<1>5. /\ o.at \in {"commit", "delete"} /\ mail' = mail /\ u \in Ue
      /\ j.at = IF o.from = None THEN "copy" ELSE "respond"
      /\ SameWork(j, o) /\ Keys(j) = Keys(o) /\ Busy(t)
      /\ A \in Site
  BY <1>2, Typed DEF Wrote
<1>6. Staged(j, rows'[A])
  <2>1. o.from # None => o.kind \in {"set", "clear"}
    BY Typed DEF JobOK, PlaceOK
  <2> QED
    BY <1>2, <1>5, <2>1 DEF Wrote, Staged, SameWork
<1>7. \A v \in Thread : Staged(job'[v], rows'[SiteOf[v]])
  BY <1>1, <1>2, <1>3, <1>4, <1>6, OthersStaged
<1>8. CASE o.from # None
  <2>1. SameView
    BY <1>1, <1>2, <1>8, WroteViews
  <2>2. \A v \in Thread : /\ job'[v].at = "copy" => job'[v] = job[v]
                          /\ job[v].at = "copy" => job'[v] = job[v]
    BY <1>4, <1>5, <1>8
  <2>3. CopyingOK(rows', mail', job') /\ Agreed(rows', mail', job')
    BY <1>3, <2>1, <2>2, CopyingKept, AgreedKept
  <2> QED
    BY <1>3, <1>5, <1>7, <2>3 DEF SyncInv
<1>9. CASE o.from = None
  <2> HIDE DEF u, A
  <2>1. /\ AtWork(o, u)
        /\ \A g \in Site : \A k : g # A \/ k.ue # u =>
             (Will(rows', mail', g, k) <=> Will(rows, mail, g, k))
        /\ \A k : k.ue = u =>
             /\ Will(rows, mail, A, k) <=> Has(rows, A, k)
             /\ Will(rows', mail', A, k) <=> Has(rows', A, k)
    BY <1>1, <1>2, <1>9, WroteViews DEF u, A
  <2>2. \A v \in Thread \ {t} : ~AtWork(job[v], u)
    BY <1>1, <1>5, <2>1, NobodyElse
  <2>3. ASSUME NEW v \in Thread, job[v].at = "copy"
        PROVE  v # t /\ Changed(job[v]) # u
    <3>1. job[v].from = None
      BY <2>3, Typed DEF JobOK, PlaceOK
    <3>2. v # t
      BY <1>5, <2>3
    <3>3. AtWork(job[v], Changed(job[v]))
      BY <2>3, <3>1, ChangedKey DEF AtWork
    <3> QED
      BY <2>2, <3>2, <3>3
  <2>4. ~Copying(job, u)
    BY <2>3 DEF Copying
  <2>5. ASSUME NEW g \in Site, NEW k, Will(rows', mail', g, k), k.ue = u
        PROVE  <<k.ue, k.ip>> \in Keys(j)
    <3>0. \A x \in rows[A] : x.cols.ue = u => <<x.cols.ue, x.cols.ip>> \in Keys(o)
      BY <1>2 DEF Wrote, A, u
    <3>1. CASE g # A
      <4>1. Will(rows, mail, A, k)
        BY <1>3, <1>5, <2>1, <2>4, <2>5, <3>1 DEF Agreed
      <4>2. PICK x \in rows[A] : x.cols = k
        BY <2>1, <2>5, <4>1 DEF Has
      <4> QED
        BY <1>5, <2>5, <3>0, <4>2
    <3>2. CASE g = A
      <4>1. PICK x \in rows'[A] : x.cols = k
        BY <2>1, <2>5, <3>2 DEF Has
      <4>2. CASE x \in rows[A]
        BY <1>5, <2>5, <3>0, <4>1, <4>2
      <4>3. CASE j.kind \in {"set", "call"}
        <5>1. PICK z \in rows'[A] : z.cols = j.cols
          BY <1>2, <4>3 DEF Wrote, A
        <5>2. j.cols.ue = u /\ <<j.cols.ue, j.cols.ip>> \in Keys(j)
          BY <4>3, KeysOf DEF u, Changed
        <5>3. x = z
          BY <1>1, <1>5, <2>5, <4>1, <5>1, <5>2 DEF RowsInv, UniqueInv, Unique
        <5> QED
          BY <4>1, <5>1, <5>2, <5>3
      <4>4. CASE j.kind \in {"clear", "sweep"}
        BY <1>2, <2>5, <4>1, <4>4 DEF Wrote, A, u
      <4> QED
        BY <1>2, <4>3, <4>4 DEF Wrote
    <3> QED
      BY <3>1, <3>2
  <2>6. CopyingOK(rows', mail', job')
    <3> SUFFICES ASSUME NEW v \in Thread, job'[v].at = "copy", NEW g \in Site,
                        NEW k, Will(rows', mail', g, k), k.ue = Changed(job'[v])
                 PROVE  <<k.ue, k.ip>> \in Keys(job'[v])
      BY DEF CopyingOK
    <3>1. CASE v = t
      BY <1>4, <2>5, <3>1 DEF u
    <3>2. CASE v # t
      <4>1. job'[v] = job[v] /\ Changed(job[v]) # u
        BY <1>4, <2>3, <3>2
      <4>2. Will(rows, mail, g, k)
        BY <2>1, <4>1
      <4> QED
        BY <1>3, <4>1, <4>2 DEF CopyingOK
    <3> QED
      BY <3>1, <3>2
  <2>7. Agreed(rows', mail', job')
    <3> SUFFICES ASSUME NEW k, ~Copying(job', k.ue), NEW g \in Site,
                        NEW h \in Site, Will(rows', mail', g, k)
                 PROVE  Will(rows', mail', h, k)
      BY DEF Agreed
    <3>1. k.ue # u
      BY <1>4, <1>5, <1>9 DEF Copying, u
    <3>2. ~Copying(job, k.ue)
      <4> SUFFICES ASSUME NEW v \in Thread, job[v].at = "copy",
                          Changed(job[v]) = k.ue
                   PROVE  FALSE
        BY DEF Copying
      <4>1. job'[v] = job[v]
        BY <1>4, <2>3
      <4> QED
        BY <4>1 DEF Copying
    <3> QED
      BY <1>3, <2>1, <3>1, <3>2 DEF Agreed
  <2> QED
    BY <1>3, <1>5, <1>7, <2>6, <2>7 DEF SyncInv
<1> QED
  BY <1>8, <1>9

\* A change is sent on: every site will have what the handler's has.
LEMMA Queued ==
  ASSUME TypeInv, RowsInv, FreshInv, SyncInv, Sound, Apart, NEW t \in Thread,
         QueueCopy(t)
  PROVE  LET o == job[t]
             A == SiteOf[t]
             u == Changed(o)
         IN  /\ u \in Ue /\ AtWork(o, u)
             /\ SourceOK(mail')
             /\ \A g \in Site : \A k : k.ue # u =>
                  (Will(rows', mail', g, k) <=> Will(rows, mail, g, k))
             /\ \A g \in Site : \A k : k.ue = u =>
                  (Will(rows', mail', g, k) <=> Will(rows, mail, A, k))
             /\ \A k : k.ue = u =>
                  (Will(rows, mail, A, k) <=>
                     o.kind \in {"set", "call"} /\ k = o.cols)
<1> DEFINE o == job[t]
           A == SiteOf[t]
           u == Changed(o)
           R == rows[A]
<1>1. /\ o.at = "copy" /\ o.from = None /\ A \in Site /\ rows' = rows
      /\ o.kind \in {"set", "call", "clear", "sweep"}
      /\ (o.kind \in {"set", "call"} => Real(o.cols, pdn) /\ u = o.cols.ue)
      /\ (o.kind \in {"clear", "sweep"} => Real(o.old.cols, pdn) /\ u = o.old.cols.ue)
  BY Typed, JobFields DEF QueueCopy, JobOK, PlaceOK, Changed
<1>2. u \in Ue
  BY <1>1 DEF Real
<1>3. AtWork(o, u)
  BY <1>1, ChangedKey DEF AtWork
<1>4. /\ \A h, g \in Site : h # A =>
           \A i \in 1 .. Len(mail[h][g]) : mail[h][g][i].cols.ue # u
      /\ ~Pending(mail, u, A)
  BY <1>2, <1>3, NobodyElse
<1>5. SourceOK(mail) /\ Staged(o, R)
  BY SyncParts
<1>6. Own(R, o) /\ Unique(R)
  BY <1>1 DEF RowsInv, OwnInv, UniqueInv
<1>7. PICK c : /\ CopyOf(A, o) = <<c>> /\ c.cols.ue = u
               /\ \A k : Sets(c, k) <=>
                           o.kind \in {"set", "call"} /\ k = o.cols
  <2>1. CASE o.kind \in {"set", "call"}
    <3>1. CopyOf(A, o) = <<[kind |-> "set", cols |-> o.cols]>>
      BY <1>1, <2>1, CopyLatest
    <3> QED
      BY <1>1, <2>1, <3>1 DEF Sets
  <2>2. CASE o.kind \in {"clear", "sweep"}
    <3>1. CopyOf(A, o) = <<[kind |-> "clear", cols |-> o.old.cols]>>
      BY <2>2 DEF CopyOf
    <3> QED
      BY <1>1, <2>2, <3>1 DEF Sets
  <2> QED
    BY <1>1, <2>1, <2>2
<1>8. \A h, g \in Site :
        LET m == mail[h][g]
            n == mail'[h][g]
        IN  /\ Len(m) \in Nat
            /\ IF h = A /\ g # A
               THEN /\ Len(n) = Len(m) + 1
                    /\ \A i \in 1 .. Len(m) : n[i] = m[i]
                    /\ n[Len(n)] = c
               ELSE n = m
  <2> SUFFICES ASSUME NEW h \in Site, NEW g \in Site
               PROVE  LET m == mail[h][g]
                          n == mail'[h][g]
                      IN  /\ Len(m) \in Nat
                          /\ IF h = A /\ g # A
                             THEN /\ Len(n) = Len(m) + 1
                                  /\ \A i \in 1 .. Len(m) : n[i] = m[i]
                                  /\ n[Len(n)] = c
                             ELSE n = m
    OBVIOUS
  <2>1. Len(mail[h][g]) \in Nat
    BY QueuesGrow
  <2>2. CASE h = A /\ g # A
    <3>1. CopyOf(A, o) # << >>
      BY <1>7
    <3>2. mail'[h][g] # mail[h][g]
      BY <2>2, <3>1, QueuesGrow
    <3>3. /\ \A i \in 1 .. Len(mail[h][g]) : mail'[h][g][i] = mail[h][g][i]
          /\ Len(mail'[h][g]) = Len(mail[h][g]) + 1
          /\ CopyOf(A, o) = <<mail'[h][g][Len(mail[h][g]) + 1]>>
      BY <3>2, QueuesGrow
    <3>4. mail'[h][g][Len(mail[h][g]) + 1] = c
      BY <1>7, <3>3
    <3> QED
      BY <2>1, <2>2, <3>3, <3>4
  <2>3. CASE ~(h = A /\ g # A)
    <3>1. mail'[h][g] = mail[h][g]
      BY <2>3, QueueMail
    <3> QED
      BY <2>1, <2>3, <3>1
  <2> QED
    BY <2>2, <2>3
<1> HIDE DEF o, A, u
<1>9. \A g \in Site : \A k :
        /\ g = A \/ k.ue # u =>
             (Will(rows, mail', g, k) <=> Will(rows, mail, g, k))
        /\ g # A /\ k.ue = u => (Will(rows, mail', g, k) <=> Sets(c, k))
  <2>1. Queues(mail, mail', A, c)
    BY <1>4, <1>7, <1>8 DEF Queues
  <2>2. A \in Site
    BY <1>1
  <2> QED
    BY <1>7, <2>1, <2>2, ViewQueued
<1>10. \A k : k.ue = u => (Will(rows, mail, A, k) <=>
                             o.kind \in {"set", "call"} /\ k = o.cols)
  <2> SUFFICES ASSUME NEW k, k.ue = u
               PROVE  Will(rows, mail, A, k) <=>
                        o.kind \in {"set", "call"} /\ k = o.cols
    OBVIOUS
  <2>1. Will(rows, mail, A, k) <=> Has(rows, A, k)
    BY <1>4, ViewIsRows
  <2>2. CASE o.kind \in {"set", "call"}
    <3>1. PICK z \in R : z.cols = o.cols
      BY <1>1, <1>6, <2>2 DEF Own
    <3>2. Has(rows, A, k) <=> k = o.cols
      BY <1>1, <1>6, <2>2, <3>1 DEF Has, Unique
    <3> QED
      BY <2>1, <2>2, <3>2
  <2>3. CASE o.kind \in {"clear", "sweep"}
    <3>1. \A x \in R : x.cols.ue # u
      BY <1>1, <1>5, <2>3 DEF Staged, u
    <3> QED
      BY <2>1, <2>3, <3>1 DEF Has
  <2> QED
    BY <1>1, <2>2, <2>3
<1>11. \A g \in Site : \A k : k.ue = u =>
         (Will(rows, mail', g, k) <=> Will(rows, mail, A, k))
  BY <1>7, <1>9, <1>10
<1>12. SourceOK(mail')
  <2>1. ASSUME NEW h \in Site, NEW g \in Site,
               NEW i \in 1 .. Len(mail'[h][g])
        PROVE  \/ h = A /\ mail'[h][g][i].cols.ue = u
               \/ /\ mail'[h][g][i].cols.ue = u => h = A
                  /\ i \in 1 .. Len(mail[h][g])
                  /\ mail'[h][g][i] = mail[h][g][i]
    <3>1. CASE h = A /\ g # A
      <4>1. /\ Len(mail'[h][g]) = Len(mail[h][g]) + 1
            /\ \A k \in 1 .. Len(mail[h][g]) : mail'[h][g][k] = mail[h][g][k]
            /\ mail'[h][g][Len(mail'[h][g])] = c
            /\ Len(mail[h][g]) \in Nat
        BY <1>8, <3>1
      <4>2. i = Len(mail'[h][g]) \/ i \in 1 .. Len(mail[h][g])
        BY <4>1
      <4> QED
        BY <1>7, <3>1, <4>1, <4>2
    <3>2. CASE ~(h = A /\ g # A)
      <4>1. mail'[h][g] = mail[h][g]
        BY <1>8, <3>2
      <4> QED
        BY <1>4, <4>1
    <3> QED
      BY <3>1, <3>2
  <2> SUFFICES ASSUME NEW h \in Site, NEW f \in Site, NEW g \in Site,
                      NEW e \in Site, NEW i \in 1 .. Len(mail'[h][g]),
                      NEW k \in 1 .. Len(mail'[f][e]),
                      mail'[h][g][i].cols.ue = mail'[f][e][k].cols.ue
               PROVE  h = f
    BY DEF SourceOK
  <2>2. CASE mail'[h][g][i].cols.ue = u
    BY <2>1, <2>2
  <2>3. CASE mail'[h][g][i].cols.ue # u
    <3>1. /\ i \in 1 .. Len(mail[h][g]) /\ mail'[h][g][i] = mail[h][g][i]
          /\ k \in 1 .. Len(mail[f][e]) /\ mail'[f][e][k] = mail[f][e][k]
      BY <2>1, <2>3
    <3> QED
      BY <1>5, <3>1 DEF SourceOK
  <2> QED
    BY <2>2, <2>3
<1> QED
  BY <1>1, <1>2, <1>3, <1>9, <1>10, <1>11, <1>12 DEF o, A, u

LEMMA SyncQueue ==
  ASSUME TypeInv, TypeInv', RowsInv, FreshInv, SyncInv, NEW t \in Thread,
         QueueCopy(t)
  PROVE  SyncInv'
<1>0. PICK j \in Job : /\ Within(t, j) /\ job[t].at = "copy"
                       /\ j.at \in {"answer", "send", "sweep"}
                       /\ UNCHANGED <<rows, cause>>
  BY QueueJob
<1> SUFFICES ASSUME Sound'
             PROVE  SyncInv'
  BY DEF SyncInv
<1>1. Sound /\ Apart
  BY <1>0, Soundly
<1> DEFINE A == SiteOf[t]
           u == Changed(job[t])
<1>2. /\ SourceOK(mail) /\ \A v \in Thread : Staged(job[v], rows[SiteOf[v]])
      /\ CopyingOK(rows, mail, job) /\ Agreed(rows, mail, job)
  BY <1>1, SyncParts
<1>3. job'[t] = j /\ \A v \in Thread \ {t} : job'[v] = job[v]
  BY <1>0, OneMinds DEF Within
<1>4. /\ u \in Ue /\ AtWork(job[t], u) /\ SourceOK(mail')
      /\ \A g \in Site : \A k : k.ue # u =>
           (Will(rows', mail', g, k) <=> Will(rows, mail, g, k))
      /\ \A g \in Site : \A k : k.ue = u =>
           (Will(rows', mail', g, k) <=> Will(rows, mail, A, k))
  BY <1>1, Queued
<1> HIDE DEF u, A
<1>5. \A v \in Thread \ {t} : ~AtWork(job[v], u)
  BY <1>1, <1>4, NobodyElse
<1>6. ASSUME NEW v \in Thread, job'[v].at = "copy"
      PROVE  /\ v # t /\ job'[v] = job[v] /\ Changed(job[v]) # u
  <2>1. v # t /\ job'[v] = job[v]
    BY <1>0, <1>3, <1>6
  <2>2. job[v].from = None
    BY <1>6, <2>1, Typed DEF JobOK, PlaceOK
  <2>3. AtWork(job[v], Changed(job[v]))
    BY <1>6, <2>1, <2>2, ChangedKey DEF AtWork
  <2> QED
    BY <1>5, <2>1, <2>3
<1>7. \A v \in Thread : Staged(job'[v], rows'[SiteOf[v]])
  <2>1. Staged(j, rows[SiteOf[t]])
    BY <1>0 DEF Staged
  <2> QED
    BY <1>0, <1>2, <1>3, <2>1
<1>8. CopyingOK(rows', mail', job')
  BY <1>2, <1>4, <1>6 DEF CopyingOK
<1>9. Agreed(rows', mail', job')
  <2> SUFFICES ASSUME NEW k, ~Copying(job', k.ue), NEW g \in Site,
                      NEW h \in Site, Will(rows', mail', g, k)
               PROVE  Will(rows', mail', h, k)
    BY DEF Agreed
  <2>1. CASE k.ue = u
    BY <1>4, <2>1
  <2>2. CASE k.ue # u
    <3>1. ~Copying(job, k.ue)
      <4> SUFFICES ASSUME NEW v \in Thread, job[v].at = "copy",
                          Changed(job[v]) = k.ue
                   PROVE  FALSE
        BY DEF Copying
      <4>1. v # t
        BY <2>2 DEF u
      <4>2. job'[v] = job[v]
        BY <1>3, <4>1
      <4> QED
        BY <4>2 DEF Copying
    <3> QED
      BY <1>2, <1>4, <2>2, <3>1 DEF Agreed
  <2> QED
    BY <2>1, <2>2
<1> QED
  BY <1>4, <1>7, <1>8, <1>9 DEF SyncInv

\* A thread that goes on as j, and not with a row or a copy.
LEMMA SyncPlain ==
  ASSUME TypeInv, SyncInv, NEW t \in Thread, NEW j, Within(t, j),
         UNCHANGED <<rows, mail>>, job[t].at # "copy",
         j.at \notin {"copy", "respond"}
  PROVE  SyncInv'
BY SyncRead DEF Within

LEMMA SyncBegin ==
  ASSUME TypeInv, SyncInv, NEW t \in Worker,
         CcrI(t) \/ CcrT(t) \/ Aar(t) \/ Str(t)
  PROVE  SyncInv'
<1>1. \E j : /\ job' = [job EXCEPT ![t] = j] /\ ~Busy(t)
             /\ cause \subseteq cause'
             /\ UNCHANGED <<rows, mail>> /\ j.at \in {"find", "get"}
  <2>1. CASE CcrI(t)
    <3>1. PICK u \in Ue, ip \in Ip, why \in SUBSET Cause :
            /\ Begin(t, Handler("find", "set", Filled(Len(pdn) + 1, u, ip),
                               None, None), why)
            /\ UNCHANGED <<rows, mail>>
      BY <2>1, CcrIParts
    <3> DEFINE j == Handler("find", "set", Filled(Len(pdn) + 1, u, ip), None, None)
    <3>2. j.at = "find"
      BY DEF Handler
    <3> HIDE DEF j
    <3> QED
      BY <3>1, <3>2 DEF Begin, Blame, j
  <2>2. CASE CcrT(t)
    <3>1. PICK s \in 1 .. Len(pdn), why \in SUBSET Cause :
            Request(t, Handler("find", "clear", About(s), None, None), why)
      BY <2>2, CcrTParts
    <3> DEFINE j == Handler("find", "clear", About(s), None, None)
    <3>2. j.at = "find"
      BY DEF Handler
    <3> HIDE DEF j
    <3> QED
      BY <3>1, <3>2 DEF Request, Begin, Blame, j
  <2>3. CASE Aar(t)
    <3>1. PICK u \in Ue, c \in Call, why \in SUBSET Cause :
            Request(t, Handler("get", "call", About(current[u]), c, None), why)
      BY <2>3, AarParts
    <3> DEFINE j == Handler("get", "call", About(current[u]), c, None)
    <3>2. j.at = "get"
      BY DEF Handler
    <3> HIDE DEF j
    <3> QED
      BY <3>1, <3>2 DEF Request, Begin, Blame, j
  <2>4. CASE Str(t)
    <3>1. PICK c \in Call :
            Request(t, Handler("get", "str", About(call[c].s), c, None), {})
      BY <2>4 DEF Str
    <3> DEFINE j == Handler("get", "str", About(call[c].s), c, None)
    <3>2. j.at = "get"
      BY DEF Handler
    <3> HIDE DEF j
    <3> QED
      BY <3>1, <3>2 DEF Request, Begin, Blame, j
  <2> QED
    BY <2>1, <2>2, <2>3, <2>4
<1> QED
  BY <1>1, SyncRead DEF Busy, Thread

LEMMA SyncInner ==
  ASSUME TypeInv, SyncInv, NEW t \in Thread,
         \/ Get(t) \/ Find(t) \/ Sent(t) \/ Answer(t)
         \/ Another(t) \/ List(t) \/ Sweep(t) \/ DbFails(t)
  PROVE  SyncInv'
<1>1. CASE Get(t)
  BY <1>1, GetJob, SyncPlain
<1>2. CASE Find(t)
  <2>1. PICK j \in Job :
          /\ Within(t, j) /\ UNCHANGED <<rows, mail>> /\ job[t].at = "find"
          /\ j.at \in {"commit", "delete", "respond", "answer"}
          /\ j.at = "commit" <=> j.kind \in {"set", "call"}
          /\ j.at = "respond" => \A x \in rows[SiteOf[t]] :
                                   x.cols.ue # j.cols.ue
    BY <1>2, FindJob
  <2> QED
    BY <2>1, SyncRead DEF Within
<1>3. CASE Sent(t)
  <2>1. PICK ok \in BOOLEAN : job' = [job EXCEPT ![t] = Answered(job[t], ok)]
    BY <1>3, SentIs
  <2> DEFINE j == Answered(job[t], ok)
  <2>2. /\ job[t].at = "send" /\ job' = [job EXCEPT ![t] = j]
        /\ UNCHANGED <<rows, mail, cause>> /\ j.at = "answer"
    BY <1>3, <2>1, SentIs, JobAnswers
  <2> HIDE DEF j
  <2> QED
    BY <2>2, SyncRead
<1>4. CASE Answer(t)
  BY <1>4, SweeperOK, SyncRead DEF Answer, Becomes
<1>5. CASE Another(t) \/ List(t) \/ Sweep(t)
  <2>1. PICK j \in Job : /\ Within(t, j) /\ UNCHANGED <<rows, mail>>
                         /\ \/ j \in {Idle, Sweeper(t)}
                            \/ j.at \in {"sweep", "delete"}
    BY <1>5, SweepJob
  <2>2. job[t].at # "copy"
    BY <1>5 DEF Another, List, Sweep, Busy
  <2>3. j.at \notin {"copy", "respond"}
    BY <2>1, SweeperOK, IdleOK
  <2> QED
    BY <2>1, <2>2, <2>3, SyncPlain
<1>6. CASE DbFails(t)
  <2>1. PICK j \in Job :
          /\ Within(t, j) /\ UNCHANGED <<rows, mail>>
          /\ j = Idle \/ "lost" \in cause'
    BY <1>6, FailsJob
  <2>2. job[t].at # "copy"
    BY <1>6 DEF DbFails
  <2>3. CASE j = Idle
    BY <2>1, <2>2, <2>3, IdleOK, SyncPlain
  <2>4. CASE "lost" \in cause'
    BY <2>4 DEF SyncInv, Sound
  <2> QED
    BY <2>1, <2>3, <2>4
<1> QED
  BY <1>1, <1>2, <1>3, <1>4, <1>5, <1>6

\* A copy that has been worked off goes.
LEMMA PoppedSame ==
  ASSUME TypeInv, RowsInv, SyncInv, Sound, Apart, NEW t \in Thread, Respond(t),
         Pop(job[t].from, SiteOf[t])
  PROVE  SameView /\ SourceOK(mail')
<1> DEFINE o == job[t]
           f == o.from
           e == SiteOf[t]
           m == mail[f][e]
           n == mail'[f][e]
           c == [kind |-> o.kind, cols |-> o.cols]
<1>1. /\ f \in Site /\ e \in Site /\ m # << >> /\ Head(m) = c
      /\ UNCHANGED <<outside, rows>>
  BY RespondParts
<1>2. UNCHANGED pdn
  BY <1>1 DEF outside
<1>3. \A h, g \in Site : mail'[h][g] = IF h = f /\ g = e THEN Tail(m)
                                       ELSE mail[h][g]
  BY <1>1, <1>2, PopTypes
<1>4. m \in Seq(Copy)
  BY <1>1 DEF TypeInv, TypeOK
<1>5. /\ Len(m) \in Nat /\ 1 \in 1 .. Len(m) /\ Len(Tail(m)) = Len(m) - 1
      /\ \A i \in 1 .. Len(Tail(m)) : /\ Tail(m)[i] = m[i + 1]
                                      /\ i + 1 \in 1 .. Len(m)
      /\ m[1] = c
  BY <1>1, <1>4, QueueBegins
<1>6. n = Tail(m)
  BY <1>1, <1>3
<1>7. o.at = "respond" /\ f # None
  BY <1>1, EmergencyAssumption DEF Respond
<1>8. /\ Staged(o, rows[e]) /\ SourceOK(mail)
      /\ o.kind \in {"set", "clear"}
  BY <1>7, SyncParts, Typed DEF JobOK, PlaceOK
<1>9. StoredAt(rows, e, c)
  BY <1>1, <1>7, <1>8 DEF Staged, Has, RowsInv, UniqueInv, Unique, StoredAt
<1> HIDE DEF f, e, c, o
<1>10. ASSUME NEW g \in Site, NEW k
       PROVE  Will(rows, mail', g, k) <=> Will(rows, mail, g, k)
  <2>1. Pops(mail, mail', f, e, c)
    BY <1>3, <1>5, <1>6 DEF Pops
  <2> QED
    BY <1>1, <1>8, <1>9, <2>1, ViewPopped
<1>11. SameView
  BY <1>1, <1>10 DEF SameView
<1>12. ASSUME NEW h \in Site, NEW g \in Site, NEW i \in 1 .. Len(mail'[h][g])
       PROVE  \E l \in 1 .. Len(mail[h][g]) : mail'[h][g][i] = mail[h][g][l]
  BY <1>1, <1>2, <1>12, PoppedCopies DEF f, e, o
<1>13. SourceOK(mail')
  <2> SUFFICES ASSUME NEW h \in Site, NEW a \in Site, NEW g \in Site,
                      NEW d \in Site, NEW i \in 1 .. Len(mail'[h][g]),
                      NEW k \in 1 .. Len(mail'[a][d]),
                      mail'[h][g][i].cols.ue = mail'[a][d][k].cols.ue
               PROVE  h = a
    BY DEF SourceOK
  <2>1. PICK l \in 1 .. Len(mail[h][g]) : mail'[h][g][i] = mail[h][g][l]
    BY <1>12
  <2>2. PICK q \in 1 .. Len(mail[a][d]) : mail'[a][d][k] = mail[a][d][q]
    BY <1>12
  <2> QED
    BY <1>8, <2>1, <2>2 DEF SourceOK
<1> QED
  BY <1>11, <1>13

LEMMA SyncRespond ==
  ASSUME TypeInv, RowsInv, SyncInv, NEW t \in Thread, Respond(t)
  PROVE  SyncInv'
<1>1. /\ job' = [job EXCEPT ![t] = Idle] /\ UNCHANGED <<rows, cause>>
      /\ Pop(job[t].from, SiteOf[t]) \/ UNCHANGED mail
  BY RespondParts
<1>2. job[t].at = "respond"
  BY DEF Respond
<1>3. CASE UNCHANGED mail
  BY <1>1, <1>2, <1>3, IdleOK, SyncRead
<1>4. CASE Pop(job[t].from, SiteOf[t])
  <2> SUFFICES ASSUME Sound'
               PROVE  SyncInv'
    BY DEF SyncInv
  <2>1. Sound /\ Apart
    BY <1>1, Soundly
  <2>2. SameView /\ SourceOK(mail')
    BY <1>4, <2>1, PoppedSame
  <2>3. /\ \A v \in Thread : Staged(job[v], rows[SiteOf[v]])
        /\ CopyingOK(rows, mail, job) /\ Agreed(rows, mail, job)
    BY <2>1, SyncParts
  <2>4. job'[t] = Idle /\ \A v \in Thread \ {t} : job'[v] = job[v]
    BY <1>1, OneMinds
  <2>5. \A v \in Thread : /\ job'[v].at = "copy" => job'[v] = job[v]
                          /\ job[v].at = "copy" => job'[v] = job[v]
    BY <1>2, <2>4, IdleOK
  <2>6. CopyingOK(rows', mail', job') /\ Agreed(rows', mail', job')
    BY <2>2, <2>3, <2>5, CopyingKept, AgreedKept
  <2>7. Staged(Idle, rows[SiteOf[t]])
    BY IdleOK DEF Staged
  <2> QED
    BY <1>1, <2>2, <2>3, <2>4, <2>6, <2>7 DEF SyncInv
<1> QED
  BY <1>1, <1>3, <1>4

LEMMA SyncDeliver ==
  ASSUME TypeInv, SyncInv, NEW t \in Api, NEW h \in Site, Deliver(t, h)
  PROVE  SyncInv'
<1>1. PICK j \in Job : /\ t \in Thread /\ Within(t, j)
                       /\ UNCHANGED <<rows, mail>> /\ ~Busy(t) /\ j.at = "find"
  BY DeliverJob
<1> QED
  BY <1>1, SyncPlain DEF Busy

LEMMA SyncLost ==
  ASSUME "lost" \in cause'
  PROVE  SyncInv'
BY DEF SyncInv, Sound

LEMMA InitSync == Init => SyncInv
<1> SUFFICES ASSUME Init
             PROVE  SyncInv
  OBVIOUS
<1>1. /\ \A t \in Thread : job[t] = Idle
      /\ \A h \in Site : rows[h] = {}
      /\ \A h, g \in Site : mail[h][g] = << >>
  BY DEF Init
<1>2. \A h, g \in Site : \A i \in 1 .. Len(mail[h][g]) : FALSE
  BY <1>1, EmptySeq
<1>3. \A t \in Thread : job[t].at = "idle"
  BY <1>1, IdleOK
<1>4. \A g \in Site : \A k : ~Will(rows, mail, g, k)
  BY <1>1, <1>2 DEF Will, Announced, SaidBy, Has
<1>5. SourceOK(mail)
  BY <1>2 DEF SourceOK
<1>6. \A t \in Thread : Staged(job[t], rows[SiteOf[t]])
  BY <1>3 DEF Staged
<1> QED
  BY <1>3, <1>4, <1>5, <1>6 DEF SyncInv, CopyingOK, Agreed

LEMMA SyncKept ==
  /\ TypeInv /\ RowsInv /\ HomeInv /\ FreshInv /\ SyncInv /\ [Next]_vars
  => SyncInv'
<1> SUFFICES ASSUME TypeInv, RowsInv, FreshInv, SyncInv, [Next]_vars
             PROVE  SyncInv'
  OBVIOUS
<1>1. TypeInv' /\ RowsInv'
  BY TypeKept, RowsKept
<1>2. CASE Next
  <2>1. CASE Tick \/ Detach \/ Arrive
    BY <2>1, SyncStays DEF Tick, Detach, Arrive
  <2>2. ASSUME NEW h \in Site, NEW g \in Site, GiveUp(h, g)
        PROVE  SyncInv'
    BY <2>2, SyncLost DEF GiveUp, Blame
  <2>3. ASSUME NEW t \in Worker, Dies(t)
        PROVE  SyncInv'
    BY <2>3, SyncLost DEF Dies, Blame
  <2> QED
    BY <1>1, <1>2, <2>1, <2>2, <2>3, StepKinds, SyncBegin, SyncInner,
       SyncWrites, SyncQueue, SyncRespond, SyncDeliver
<1>3. CASE UNCHANGED vars
  BY <1>3, SyncStays DEF vars
<1> QED
  BY <1>2, <1>3

LEMMA SyncAlways ==
  Spec => [](TypeInv /\ RowsInv /\ HomeInv /\ FreshInv /\ SyncInv)
<1>1. Init => TypeInv /\ RowsInv /\ HomeInv /\ FreshInv /\ SyncInv
  BY InitTypeInv, InitRows, InitHome, InitFresh, InitSync
<1>2. TypeInv /\ RowsInv /\ HomeInv /\ FreshInv /\ SyncInv /\ [Next]_vars =>
        (TypeInv /\ RowsInv /\ HomeInv /\ FreshInv /\ SyncInv)'
  BY TypeKept, RowsKept, HomeKept, FreshKept, SyncKept
<1> QED
  BY <1>1, <1>2, PTL DEF Spec

-----------------------------------------------------------------------------
(***************************************************************************)
(* Which UEs the sites will have a row of, and which calls a bearer.       *)
(***************************************************************************)

\* The bearers the PGW has answered for, when no RAR comes of a step, and
\* when a session ends.
LEMMA SureBearers ==
  ASSUME TypeInv
  PROVE  /\ \A b \in Sure : /\ b \in bearers /\ b[1] \in 1 .. Len(pdn)
                           /\ b[2] \in Call /\ call[b[2]].at # "new"
         /\ HomeInv /\ Apart => \A b \in Sure : AtHome(b, pdn, call)
BY DEF Sure, TypeInv, TypeOK, CallInv, Bearer, HomeInv, ServesInv

LEMMA SameSure ==
  ASSUME UNCHANGED bearers
  PROVE  UNCHANGED Sure
BY DEF Sure

LEMMA EndedSure ==
  ASSUME NEW s, Ended(s)
  PROVE  Sure' = {b \in Sure : b[1] # s}
BY DEF Sure, Ended

\* What is to be stored is of one session, and typed.
LEMMA WillTyped ==
  ASSUME TypeInv, RowsInv, Apart, NEW g \in Site, NEW k,
         Will(rows, mail, g, k)
  PROVE  k \in Columns /\ Exact(k, pdn)
<1>1. CASE Has(rows, g, k)
  <2>1. PICK x \in rows[g] : x.cols = k
    BY <1>1 DEF Has
  <2>2. x \in Row
    BY DEF TypeInv, RowsOK
  <2> QED
    BY <2>1, <2>2 DEF RowsInv, ExactInv, Row
<1>2. CASE Announced(mail, g, k)
  <2>0. PICK h \in Site : \E i \in 1 .. Len(mail[h][g]) : Sets(mail[h][g][i], k)
    BY <1>2 DEF Announced, SaidBy
  <2>1. PICK i \in 1 .. Len(mail[h][g]) : Sets(mail[h][g][i], k)
    BY <2>0
  <2>2. mail[h][g] \in Seq(Copy)
    BY DEF TypeInv, TypeOK
  <2>3. mail[h][g][i] \in Copy
    BY <2>2
  <2> QED
    BY <2>1, <2>3 DEF RowsInv, ExactInv, Sets, Copy
<1> QED
  BY <1>1, <1>2 DEF Will

\* After a step, nobody else is at work on what t is at work on.
LEMMA NobodyThen ==
  ASSUME TypeInv', RowsInv', Apart', NEW t \in Thread, NEW u \in Ue,
         AtWork(job'[t], u)
  PROVE  /\ \A h, g \in Site : h # SiteOf[t] =>
              \A i \in 1 .. Len(mail'[h][g]) : mail'[h][g][i].cols.ue # u
         /\ ~Pending(mail', u, SiteOf[t])
         /\ \A v \in Thread \ {t} : ~AtWork(job'[v], u)
<1>1. u # None
  BY EmergencyAssumption
<1>2. PICK k \in Keys(job'[t]) : k[1] = u
  BY DEF AtWork
<1>3. \A h, g \in Site : h # SiteOf[t] =>
        \A i \in 1 .. Len(mail'[h][g]) : mail'[h][g][i].cols.ue # u
  BY <1>1, <1>2 DEF RowsInv, MailInv, AtWork, Busy, Conflict
<1>4. \A g \in Site : mail'[g][g] = << >>
  BY DEF TypeInv
<1>5. ~Pending(mail', u, SiteOf[t])
  <2> SUFFICES ASSUME NEW h \in Site, NEW i \in 1 .. Len(mail'[h][SiteOf[t]])
               PROVE  mail'[h][SiteOf[t]][i].cols.ue # u
    BY DEF Pending
  <2>1. SiteOf[t] \in Site
    BY EmergencyAssumption
  <2> QED
    BY <1>3, <1>4, <2>1, EmptySeq
<1>6. ASSUME NEW v \in Thread \ {t}, AtWork(job'[v], u)
      PROVE  FALSE
  <2>1. PICK l \in Keys(job'[v]) : l[1] = u
    BY <1>6 DEF AtWork
  <2> QED
    BY <1>1, <1>2, <1>6, <2>1 DEF RowsInv, ApartInv, AtWork, Busy, Conflict
<1> QED
  BY <1>3, <1>5, <1>6

\* What does not concern the UE u stays, or ends.
LEMMA Elsewhere ==
  ASSUME TypeInv, NEW u, Moves(u), NEW w \in Ue, w # u
  PROVE  /\ Up(pdn', current', w) => Up(pdn, current, w)
         /\ OnCalls(pdn', call', w) = OnCalls(pdn, call, w)
         /\ \A c \in Call : call[c].at # "new" /\ pdn[call[c].s].ue = w =>
              call'[c] = call[c] /\ pdn'[call'[c].s].ue = w
<1>1. /\ Grows(pdn, pdn') /\ current'[w] = current[w]
      /\ \A s \in 1 .. Len(pdn) :
           pdn'[s].at \in {pdn[s].at, "over"} \/ pdn[s].ue = u
      /\ \A c \in Call :
           \/ call'[c] = call[c]
           \/ /\ call[c].at = "new" \/ pdn[call[c].s].ue = u
              /\ call'[c].at # "new" /\ pdn'[call'[c].s].ue = u
  BY DEF Moves
<1>2. \A c \in Call : call[c].at # "new" =>
        /\ call[c].s \in 1 .. Len(pdn)
        /\ pdn'[call[c].s].ue = pdn[call[c].s].ue
  BY <1>1 DEF TypeInv, CallInv, Grows
<1>3. Up(pdn', current', w) => Up(pdn, current, w)
  BY <1>1 DEF Up, TypeInv, CurrentInv
<1>4. OnCalls(pdn', call', w) = OnCalls(pdn, call, w)
  BY <1>1, <1>2 DEF OnCalls
<1> QED
  BY <1>1, <1>2, <1>3, <1>4

LEMMA KeyTyped ==
  ASSUME NEW j \in Job, NEW i \in Keys(j)
  PROVE  i[1] \in Ue \cup {None}
<1>1. /\ j.cols.ue \in Ue \cup {None} /\ j.old.cols.ue \in Ue \cup {None}
      /\ \A x \in j.todo : x.cols.ue \in Ue \cup {None}
  BY JobFields DEF Columns, Row
<1>2. \/ i = <<j.cols.ue, j.cols.ip>>
      \/ i = <<j.old.cols.ue, j.old.cols.ip>>
      \/ \E x \in j.todo : i = <<x.cols.ue, x.cols.ip>>
  BY KeysOf
<1> QED
  BY <1>1, <1>2

LEMMA RightParts ==
  ASSUME RightInv, Clean
  PROVE  /\ IpRight
         /\ \A u \in Ue : Accounted(u) /\ Provided(u) /\ Borne(u)
         /\ \A t \in Thread : RightNow(t)
BY DEF RightInv

LEMMA BystanderRight ==
  ASSUME TypeInv, TypeInv', RowsInv, HomeInv', Apart, Apart',
         NEW u \in Ue \cup {None}, Moves(u), NEW t \in Thread,
         Bystander(t, u), RightNow(t)
  PROVE  RightThen(t)
<1> DEFINE o == job[t]
<1>1. /\ job'[t] = o /\ o \in Job /\ JobOK(t, o, pdn) /\ ExactJob(o, pdn)
      /\ ClearRight(o, pdn, current) /\ AskRight(o, pdn, call)
      /\ CallRight(o, rows, mail, pdn, current, call)
      /\ StrRight(o, pdn, call, Sure)
  BY Typed DEF Bystander, RightNow, JobRight, RowsInv, ExactInv
<1>2. \A w \in Ue : AtWork(o, w) => w # u
  BY EmergencyAssumption DEF Bystander
<1>3. \A w \in Ue : w # u =>
         /\ Up(pdn', current', w) => Up(pdn, current, w)
         /\ OnCalls(pdn', call', w) = OnCalls(pdn, call, w)
         /\ \A c \in Call : call[c].at # "new" /\ pdn[call[c].s].ue = w =>
              call'[c] = call[c] /\ pdn'[call'[c].s].ue = w
  BY Elsewhere
<1> HIDE DEF o
<1>4. ClearRight(o, pdn', current')
  <2> SUFFICES ASSUME o.at # "idle", o.from = None, o.kind \in {"clear", "sweep"}
               PROVE  /\ \A i \in Keys(o) : i[1] # None =>
                           ~Up(pdn', current', i[1])
                      /\ o.kind = "clear" /\ o.at = "copy" =>
                           o.old.cols.ue = o.cols.ue
    BY DEF ClearRight
  <2>1. ASSUME NEW i \in Keys(o), i[1] # None
        PROVE  ~Up(pdn', current', i[1])
    <3>1. i[1] \in Ue
      BY <1>1, <2>1, KeyTyped
    <3>2. AtWork(o, i[1])
      BY <2>1 DEF AtWork
    <3>3. ~Up(pdn, current, i[1])
      BY <1>1, <2>1 DEF ClearRight
    <3> QED
      BY <1>2, <1>3, <3>1, <3>2, <3>3
  <2> QED
    BY <1>1, <2>1 DEF ClearRight
<1>5. AskRight(o, pdn', call')
  <2> SUFFICES ASSUME Asks(o)
               PROVE  OnCalls(pdn', call', o.cols.ue) = {} /\ o.cols.rx = None
    BY DEF AskRight
  <2>1. o.cols.ue \in Ue
    BY <1>1 DEF Asks, JobOK, Exact, Real
  <2>2. AtWork(o, o.cols.ue)
    BY ChangedKey DEF AtWork, Asks
  <2> QED
    BY <1>1, <1>2, <1>3, <2>1, <2>2 DEF AskRight
<1>6. CallRight(o, rows', mail', pdn', current', call')
  <2> SUFFICES ASSUME o.kind = "call"
               PROVE  CallRight(o, rows', mail', pdn', current', call')
    BY DEF CallRight
  <2> DEFINE c == o.c
             s == call[c].s
             w == pdn[s].ue
  <2>1. /\ c \in Call /\ call[c].at \notin {"new", "ending", "over"}
        /\ current[w] = s /\ o.cols.ue = w
        /\ OnCalls(pdn, call, w) \subseteq {c}
        /\ o.at = "get" => \A g \in Site : \A l :
             Will(rows, mail, g, l) /\ l.ip = o.cols.ip => l.ue = w
        /\ o.at \in {"find", "commit", "copy", "send"} => o.cols.rx = c
        /\ o.at = "send" /\ pdn[o.cols.s].at = "up" =>
             \A g \in Site : Will(rows, mail, g, o.cols)
    BY <1>1 DEF CallRight, JobOK, PlaceOK
  <2>2. /\ o.at # "idle" /\ o.from = None /\ Real(o.cols, pdn)
        /\ pdn[o.cols.s].ue = o.cols.ue
    BY <1>1 DEF JobOK, PlaceOK, ExactJob, Exact
  <2>3. AtWork(o, w) /\ w \in Ue
    BY <2>1, <2>2, ChangedKey DEF AtWork, Real
  <2>4. w # u /\ call'[c] = call[c] /\ pdn'[call'[c].s].ue = w
    BY <1>2, <1>3, <2>1, <2>3
  <2>5. current'[w] = s /\ OnCalls(pdn', call', w) \subseteq {c}
    BY <1>3, <2>1, <2>3, <2>4 DEF Moves
  <2>6. ASSUME o.at = "get", NEW g \in Site, NEW l,
               Will(rows', mail', g, l), l.ip = o.cols.ip
        PROVE  l.ue = w
    <3>1. CASE l.ue # u \/ u = None
      BY <2>1, <2>6, <3>1 DEF Moves
    <3>2. CASE \E h \in Site : Will(rows, mail, h, l)
      BY <2>1, <2>6, <3>2
    <3>3. CASE l.ue = u /\ u # None /\ ~\E h \in Site : Will(rows, mail, h, l)
      <4>1. PICK x \in Thread :
              AtWork(job[x], u) /\ <<l.ue, l.ip>> \in Keys(job[x])
        BY <2>6, <3>3 DEF Moves
      <4>2. x # t
        BY <3>3, <4>1 DEF Bystander
      <4>3. ~Conflict(Keys(job[x]), Keys(job[t]))
        BY <2>2, <4>1, <4>2 DEF RowsInv, ApartInv, AtWork, Busy, o
      <4>4. <<o.cols.ue, o.cols.ip>> \in Keys(o)
        BY KeysOf
      <4>5. <<l.ue, l.ip>>[2] = <<o.cols.ue, o.cols.ip>>[2] /\ <<l.ue, l.ip>>[2] # None
        BY <2>2, <2>6, EmergencyAssumption DEF Real
      <4> QED
        BY <4>1, <4>3, <4>4, <4>5 DEF Conflict, o
    <3> QED
      BY <3>1, <3>2, <3>3
  <2>7. ASSUME o.at = "send", pdn'[o.cols.s].at = "up", NEW g \in Site
        PROVE  Will(rows', mail', g, o.cols)
    <3>1. pdn[o.cols.s].at = "up"
      BY <2>1, <2>2, <2>4, <2>7 DEF Moves, Real
    <3> QED
      BY <2>1, <2>4, <2>7, <3>1 DEF Moves
  <2> HIDE DEF c, s, w
  <2>8. call'[o.c].s = s /\ pdn'[call'[o.c].s].ue = w /\ call'[o.c] = call[o.c]
    BY <2>4 DEF c, s
  <2> QED
    BY <2>1, <2>5, <2>6, <2>7, <2>8 DEF CallRight, c
<1>7. StrRight(o, pdn', call', Sure')
  <2> SUFFICES ASSUME o.kind = "str"
               PROVE  StrRight(o, pdn', call', Sure')
    BY DEF StrRight
  <2> DEFINE c == o.c
             w == o.cols.ue
  <2>1. /\ c \in Call /\ call[c].at # "new" /\ w = pdn[call[c].s].ue
        /\ o.at # "idle" /\ o.from = None /\ w \in Ue
    BY <1>1 DEF StrRight, JobOK, PlaceOK, TypeInv, CallInv, o, Real
  <2>2. AtWork(o, w)
    BY <2>1, ChangedKey DEF AtWork
  <2>3. w # u /\ call'[c] = call[c] /\ pdn'[call'[c].s].ue = w
    BY <1>2, <1>3, <2>1, <2>2
  <2>4. ASSUME NEW b \in Sure', b[2] = c
        PROVE  b \in Sure
    <3>1. pdn'[b[1]].ue = w
      BY <2>3, <2>4 DEF HomeInv, ServesInv, AtHome, Apart, Sure
    <3> QED
      BY <2>3, <2>4, <3>1 DEF Moves
  <2> QED
    BY <1>1, <2>3, <2>4 DEF StrRight
<1> QED
  BY <1>1, <1>4, <1>5, <1>6, <1>7 DEF RightThen, JobRight

LEMMA UeElsewhere ==
  ASSUME TypeInv, TypeInv', RowsInv, HomeInv, Apart,
         NEW u \in Ue \cup {None}, Moves(u), JobsMove(u),
         NEW v \in Ue, v # u, Accounted(v), Provided(v), Borne(v)
  PROVE  Accounted(v)' /\ Provided(v)' /\ Borne(v)'
<1>1. /\ Up(pdn', current', v) => Up(pdn, current, v)
      /\ \A c \in Call : call[c].at # "new" /\ pdn[call[c].s].ue = v =>
           call'[c] = call[c] /\ pdn'[call'[c].s].ue = v
      /\ current'[v] = current[v]
      /\ \A g \in Site : \A l : l.ue = v =>
           (Will(rows', mail', g, l) <=> Will(rows, mail, g, l))
  <2>1. /\ current'[v] = current[v]
        /\ \A g \in Site : \A l : l.ue = v =>
             (Will(rows', mail', g, l) <=> Will(rows, mail, g, l))
    BY DEF Moves
  <2> QED
    BY <2>1, Elsewhere
<1>2. \A t \in Thread : /\ Leaves(job[t], v) => Leaves(job'[t], v)
                        /\ Accepts(job'[t], v) => Accepts(job[t], v)
  BY DEF JobsMove, Bystander
<1>3. Accounted(v)'
  <2> SUFFICES ASSUME NEW g \in Site, NEW l, Will(rows', mail', g, l), l.ue = v
               PROVE  /\ \/ current'[v] # None
                         \/ \E t \in Thread : Leaves(job'[t], v)
                      /\ l.rx # None => /\ call'[l.rx].at # "new"
                                        /\ pdn'[call'[l.rx].s].ue = v
    BY DEF Accounted
  <2>1. Will(rows, mail, g, l)
    BY <1>1
  <2>2. l.rx \in Call \cup {None}
    BY <2>1, WillTyped DEF Columns
  <2> QED
    BY <1>1, <1>2, <2>1, <2>2 DEF Accounted
<1>4. Provided(v)'
  <2> SUFFICES ASSUME \/ Up(pdn', current', v)
                      \/ \E t \in Thread : Accepts(job'[t], v),
                      NEW g \in Site
               PROVE  \E l : l.ue = v /\ Will(rows', mail', g, l)
    BY DEF Provided
  <2>1. Up(pdn, current, v) \/ \E t \in Thread : Accepts(job[t], v)
    BY <1>1, <1>2
  <2>2. PICK l : l.ue = v /\ Will(rows, mail, g, l)
    BY <2>1 DEF Provided
  <2> QED
    BY <1>1, <2>2
<1>5. Borne(v)'
  <2> SUFFICES ASSUME NEW b \in Sure', pdn'[b[1]].ue = v
               PROVE  /\ call'[b[2]].at # "over" /\ pdn'[b[1]].at = "up"
                      /\ current'[v] = b[1]
                      /\ \A g \in Site : \E l : /\ Will(rows', mail', g, l)
                                                /\ l.s = b[1] /\ l.rx = b[2]
    BY DEF Borne
  <2>1. b \in Sure
    BY DEF Moves
  <2>2. /\ b[1] \in 1 .. Len(pdn) /\ call[b[2]].at # "new" /\ b[2] \in Call
    BY <2>1, SureBearers
  <2>3. pdn[b[1]].ue = v
    BY <2>2 DEF Moves, Grows
  <2>4. pdn[call[b[2]].s].ue = v
    BY <2>1, <2>3, SureBearers DEF AtHome
  <2>5. call'[b[2]] = call[b[2]]
    BY <1>1, <2>2, <2>4
  <2>6. /\ call[b[2]].at # "over" /\ pdn[b[1]].at = "up" /\ current[v] = b[1]
        /\ \A g \in Site : \E l : /\ Will(rows, mail, g, l)
                                  /\ l.s = b[1] /\ l.rx = b[2]
    BY <2>1, <2>3 DEF Borne
  <2>7. pdn'[b[1]].at = "up"
    BY <2>2, <2>3, <2>6 DEF Moves
  <2>8. ASSUME NEW g \in Site
        PROVE  \E l : Will(rows', mail', g, l) /\ l.s = b[1] /\ l.rx = b[2]
    <3>1. PICK l : Will(rows, mail, g, l) /\ l.s = b[1] /\ l.rx = b[2]
      BY <2>6
    <3>2. l.ue = v
      BY <2>3, <3>1, WillTyped DEF Exact
    <3> QED
      BY <1>1, <3>1, <3>2
  <2> QED
    BY <1>1, <2>5, <2>6, <2>7, <2>8
<1> QED
  BY <1>3, <1>4, <1>5

LEMMA Cleanly ==
  ASSUME Clean', cause \subseteq cause'
  PROVE  /\ Clean /\ Sound /\ Apart /\ Clean' /\ Sound' /\ Apart'
         /\ cause' = cause
BY DEF Clean, Sound, Apart

LEMMA RightStep ==
  ASSUME TypeInv, TypeInv', RowsInv, HomeInv, HomeInv', RightInv,
         cause \subseteq cause', NEW u \in Ue \cup {None},
         Clean' => /\ Moves(u) /\ JobsMove(u) /\ IpRight'
                   /\ u # None => Accounted(u)' /\ Provided(u)' /\ Borne(u)'
  PROVE  RightInv'
<1> SUFFICES ASSUME Clean'
             PROVE  /\ IpRight'
                    /\ \A v \in Ue : Accounted(v)' /\ Provided(v)' /\ Borne(v)'
                    /\ \A t \in Thread : RightNow(t)'
  BY DEF RightInv
<1>1. Clean /\ Apart /\ Apart'
  BY Cleanly
<1>2. /\ \A v \in Ue : Accounted(v) /\ Provided(v) /\ Borne(v)
      /\ \A t \in Thread : RightNow(t)
  BY <1>1, RightParts
<1>3. ASSUME NEW v \in Ue
      PROVE  Accounted(v)' /\ Provided(v)' /\ Borne(v)'
  <2>1. CASE v = u
    BY <2>1, EmergencyAssumption
  <2>2. CASE v # u
    BY <1>1, <1>2, <2>2, UeElsewhere
  <2> QED
    BY <2>1, <2>2
<1>4. ASSUME NEW t \in Thread
      PROVE  RightNow(t)'
  <2>1. RightThen(t)
    <3>1. CASE Bystander(t, u)
      BY <1>1, <1>2, <3>1, BystanderRight
    <3> QED
      BY <3>1 DEF JobsMove
  <2> QED
    BY <2>1 DEF RightThen, RightNow
<1> QED
  BY <1>3, <1>4

LEMMA RightMove ==
  ASSUME TypeInv, TypeInv', RowsInv, RowsInv', HomeInv, HomeInv', RightInv,
         NEW t \in Thread, NEW j, NEW u \in Ue \cup {None}, Moved(t, j, u),
         Clean' => /\ Moves(u) /\ IpRight'
                   /\ JobRight(j, rows', mail', pdn', current', call', Sure')
                   /\ \A v \in Ue : v # u =>
                        /\ Leaves(job[t], v) => Leaves(j, v)
                        /\ Accepts(j, v) => Accepts(job[t], v)
                   /\ u # None => Accounted(u)' /\ Provided(u)' /\ Borne(u)'
  PROVE  RightInv'
<1>1. job'[t] = j /\ \A v \in Thread \ {t} : job'[v] = job[v]
  BY OneMinds DEF Moved
<1>2. ASSUME Clean'
      PROVE  JobsMove(u)
  <2> SUFFICES ASSUME NEW v \in Thread \ {t}, u # None
               PROVE  ~AtWork(job[v], u)
    BY <1>1, <1>2 DEF JobsMove, Bystander, RightThen
  <2>1. Apart /\ Apart' /\ u \in Ue
    BY <1>2, Cleanly DEF Moved
  <2>2. CASE AtWork(job[t], u)
    BY <2>1, <2>2, NobodyElse
  <2>3. CASE AtWork(j, u)
    BY <1>1, <2>1, <2>3, NobodyThen
  <2> QED
    BY <2>2, <2>3 DEF Moved
<1> QED
  BY <1>2, RightStep DEF Moved

\* A step after which everything will be where it would have been.
LEMMA RightPlain ==
  ASSUME TypeInv, TypeInv', RowsInv, RowsInv', HomeInv, HomeInv', RightInv,
         NEW t \in Thread, NEW j, NEW u \in Ue \cup {None}, Moved(t, j, u),
         UNCHANGED outside,
         Clean' => /\ SameView
                   /\ JobRight(j, rows', mail', pdn, current, call, Sure)
                   /\ \A v \in Ue : v # u =>
                        /\ Leaves(job[t], v) => Leaves(j, v)
                        /\ Accepts(j, v) => Accepts(job[t], v)
                   /\ u # None => Accounted(u)' /\ Provided(u)'
  PROVE  RightInv'
<1> SUFFICES ASSUME Clean'
             PROVE  RightInv'
  BY DEF RightInv
<1>1. /\ Clean /\ cause \subseteq cause'
  BY Cleanly DEF Moved
<1>2. UNCHANGED <<pdn, current, call, bearers, Sure>> /\ Grows(pdn, pdn')
  BY SameOutside, SameSure
<1>3. /\ IpRight /\ \A v \in Ue : Borne(v)
  BY <1>1, RightParts
<1>4. Moves(u)
  BY <1>2 DEF Moves, SameView
<1>5. IpRight'
  BY <1>2, <1>3 DEF IpRight, SameView
<1>6. u # None => Borne(u)'
  BY <1>2, <1>3 DEF Borne, SameView
<1>7. JobRight(j, rows', mail', pdn', current', call', Sure')
  BY <1>2
<1> QED
  BY <1>4, <1>5, <1>6, <1>7, RightMove

LEMMA RightSame ==
  ASSUME TypeInv, TypeInv', RowsInv, RowsInv', HomeInv, HomeInv', RightInv,
         NEW t \in Thread, NEW j, Within(t, j),
         Clean' => /\ SameView
                   /\ JobRight(j, rows', mail', pdn, current, call, Sure)
                   /\ \A v \in Ue : /\ Leaves(job[t], v) => Leaves(j, v)
                                    /\ Accepts(j, v) => Accepts(job[t], v)
  PROVE  RightInv'
<1>1. Moved(t, j, None)
  BY DEF Moved, Within
<1>2. UNCHANGED outside
  BY DEF Within
<1>3. None \in Ue \cup {None}
  OBVIOUS
<1> HIDE DEF Moved
<1> QED
  BY <1>1, <1>2, <1>3, RightPlain

\* Handlers of which nothing is asked.
LEMMA NothingRight ==
  ASSUME NEW j, j.at = "idle" \/ j.from # None, j.kind \notin {"call", "str"}
  PROVE  /\ \A R, M, p, n, k, B : JobRight(j, R, M, p, n, k, B)
         /\ \A v : ~Leaves(j, v) /\ ~Accepts(j, v)
BY DEF JobRight, ClearRight, AskRight, CallRight, StrRight, Leaves, Accepts,
       Asks

LEMMA NothingAtHand ==
  ASSUME NEW t \in Thread, NEW j, j \in {Idle, Sweeper(t)}
  PROVE  /\ \A R, M, p, n, k, B : JobRight(j, R, M, p, n, k, B)
         /\ \A v : ~Leaves(j, v) /\ ~Accepts(j, v)
<1>1. CASE j.at = "idle"
  BY <1>1, IdleOK, SweeperOK, NothingRight
<1>2. CASE j.at # "idle"
  <2>1. j = Handler("list", "sweep", Nothing, None, None)
    BY <1>2, IdleOK DEF Sweeper
  <2>2. /\ j.kind = "sweep" /\ j.todo = {} /\ j.cols = Nothing /\ j.old = NoRow
    BY <2>1 DEF Handler
  <2>3. \A i \in Keys(j) : i[1] = None
    <3>1. Nothing.ue = None /\ NoRow.cols = Nothing
      BY NoRowIsRow
    <3>2. j.cols.ue = None /\ j.old.cols.ue = None
      BY <2>2, <3>1
    <3>3. \A i \in Keys(j) : \/ i = <<j.cols.ue, j.cols.ip>>
                             \/ i = <<j.old.cols.ue, j.old.cols.ip>>
                             \/ \E x \in j.todo : i = <<x.cols.ue, x.cols.ip>>
      BY KeysOf
    <3> QED
      BY <2>2, <3>2, <3>3
  <2> QED
    BY <2>2, <2>3 DEF JobRight, ClearRight, AskRight, CallRight, StrRight,
       Leaves, Accepts, Asks
<1> QED
  BY <1>1, <1>2

LEMMA RightDeliver ==
  ASSUME TypeInv, TypeInv', RowsInv, RowsInv', HomeInv, HomeInv', RightInv,
         NEW t \in Api, NEW h \in Site, Deliver(t, h)
  PROVE  RightInv'
<1>1. PICK j \in Job : /\ t \in Thread /\ Within(t, j)
                       /\ UNCHANGED <<rows, mail>> /\ ~Busy(t)
                       /\ j.from # None /\ j.kind \in {"set", "clear"}
  BY DeliverJob
<1>2. /\ \A R, M, p, n, k, B : JobRight(j, R, M, p, n, k, B)
      /\ \A v : ~Accepts(j, v)
  BY <1>1, NothingRight
<1>3. \A v : ~Leaves(job[t], v)
  BY <1>1 DEF Leaves, Busy
<1>4. SameView
  BY <1>1 DEF SameView
<1> QED
  BY <1>1, <1>2, <1>3, <1>4, RightSame

LEMMA RightRespond ==
  ASSUME TypeInv, TypeInv', RowsInv, RowsInv', HomeInv, HomeInv', SyncInv,
         RightInv, NEW t \in Thread, Respond(t)
  PROVE  RightInv'
<1>1. /\ job[t].from # None /\ Within(t, Idle) /\ UNCHANGED rows
      /\ Pop(job[t].from, SiteOf[t]) \/ UNCHANGED mail
  BY RespondParts, EmergencyAssumption DEF Within
<1>2. \A v : ~Leaves(job[t], v)
  BY <1>1 DEF Leaves
<1>3. Clean' => SameView
  <2>1. Clean' => Sound /\ Apart
    BY <1>1, Cleanly DEF Within
  <2>2. UNCHANGED mail => SameView
    BY <1>1 DEF SameView
  <2> QED
    BY <1>1, <2>1, <2>2, PoppedSame
<1> QED
  BY <1>1, <1>2, <1>3, NothingAtHand, RightSame

\* What t has at its site is what there will be.
LEMMA WillOwn ==
  ASSUME TypeInv, RowsInv, Apart, NEW t \in Thread, NEW u \in Ue,
         AtWork(job[t], u) \/ (AtWork(job'[t], u) /\ TypeInv' /\ RowsInv'
                               /\ Apart' /\ UNCHANGED mail)
  PROVE  \A k : k.ue = u =>
           (Will(rows, mail, SiteOf[t], k) <=> Has(rows, SiteOf[t], k))
<1>1. ~Pending(mail, u, SiteOf[t])
  <2>1. CASE AtWork(job[t], u)
    BY <2>1, NobodyElse
  <2>2. CASE AtWork(job'[t], u) /\ TypeInv' /\ RowsInv' /\ Apart' /\ UNCHANGED mail
    <3>1. ~Pending(mail', u, SiteOf[t])
      BY <2>2, NobodyThen
    <3> QED
      BY <2>2, <3>1
  <2> QED
    BY <2>1, <2>2
<1> QED
  BY <1>1, ViewIsRows

LEMMA RightFails ==
  ASSUME TypeInv, TypeInv', RowsInv, RowsInv', HomeInv, HomeInv', RightInv,
         NEW t \in Thread, DbFails(t)
  PROVE  RightInv'
<1>1. PICK j \in Job :
        /\ Within(t, j) /\ UNCHANGED <<rows, mail>>
        /\ \/ j = Idle /\ (job[t].from # None \/ job[t].kind = "sweep")
           \/ Onward(t, j) /\ "lost" \in cause'
  BY FailsJob
<1>2. CASE j = Idle /\ (job[t].from # None \/ job[t].kind = "sweep")
  <2>1. \A v : ~Leaves(job[t], v)
    BY <1>2 DEF Leaves
  <2>2. SameView
    BY <1>1 DEF SameView
  <2> QED
    BY <1>1, <1>2, <2>1, <2>2, NothingAtHand, RightSame
<1>3. CASE "lost" \in cause'
  BY <1>3 DEF RightInv, Clean
<1> QED
  BY <1>1, <1>2, <1>3

LEMMA LoneThen ==
  ASSUME TypeInv, TypeInv', RowsInv', Apart', UNCHANGED mail,
         NEW t \in Thread, NEW j, job' = [job EXCEPT ![t] = j],
         NEW u \in Ue, AtWork(j, u)
  PROVE  Lone(t, u)
<1>1. job'[t] = j /\ \A v \in Thread \ {t} : job'[v] = job[v]
  BY OneMinds
<1>2. ~Pending(mail', u, SiteOf[t]) /\ \A v \in Thread \ {t} : ~AtWork(job'[v], u)
  BY <1>1, NobodyThen
<1> QED
  BY <1>1, <1>2 DEF Lone

\* The row of a UE that has a session names it, unless the UE connects.
LEMMA RowOfCurrent ==
  ASSUME TypeInv, RowsInv, FreshInv, Sound, Apart, NEW t \in Thread,
         NEW u \in Ue, Lone(t, u), ~(Asks(job[t]) /\ job[t].cols.ue = u),
         current[u] # None, NEW x \in rows[SiteOf[t]], x.cols.ue = u
  PROVE  x.cols.s = current[u]
<1>1. \A v \in Thread : ~(Asks(job[v]) /\ job[v].cols.ue = u)
  <2> SUFFICES ASSUME NEW v \in Thread, v # t, Asks(job[v]), job[v].cols.ue = u
               PROVE  FALSE
    OBVIOUS
  <2>1. AtWork(job[v], u)
    BY ChangedKey DEF AtWork, Asks
  <2> QED
    BY <2>1 DEF Lone
<1>2. ~Settling(job, u)
  BY <1>1 DEF Settling, Settles, Asks
<1>3. SiteOf[t] \in Site /\ Exact(x.cols, pdn)
  BY Typed DEF RowsInv, ExactInv
<1>4. Latest(pdn, x.cols.s)
  BY <1>2, <1>3, FreshParts DEF RowsFresh, Fine, Lone
<1>5. Latest(pdn, current[u])
  BY <1>1, FreshParts DEF CurrentFresh
<1>6. current[u] \in 1 .. Len(pdn) /\ pdn[current[u]].ue = u
  BY DEF TypeInv, CurrentInv
<1> QED
  BY <1>3, <1>4, <1>5, <1>6, OneLatest DEF Exact, Real

LEMMA SweepsRight ==
  ASSUME NEW j, j.kind = "sweep", NEW p, NEW n,
         \A i \in Keys(j) : i[1] # None => ~Up(p, n, i[1])
  PROVE  /\ \A R, M, k, B : JobRight(j, R, M, p, n, k, B)
         /\ \A v : ~Leaves(j, v) /\ ~Accepts(j, v)
BY DEF JobRight, ClearRight, AskRight, CallRight, StrRight, Leaves, Accepts,
       Asks

LEMMA RightAnother ==
  ASSUME TypeInv, TypeInv', RowsInv, RowsInv', HomeInv, HomeInv', RightInv,
         NEW t \in Thread, Another(t)
  PROVE  RightInv'
<1>1. /\ Within(t, Sweeper(t)) /\ UNCHANGED <<rows, mail>> /\ ~Busy(t)
  BY DEF Another, Becomes, Reads, Within
<1>2. \A v : ~Leaves(job[t], v)
  BY <1>1 DEF Leaves, Busy
<1>3. SameView
  BY <1>1 DEF SameView
<1> QED
  BY <1>1, <1>2, <1>3, NothingAtHand, RightSame

LEMMA RightList ==
  ASSUME TypeInv, TypeInv', RowsInv, RowsInv', HomeInv, HomeInv', FreshInv,
         RightInv, NEW t \in Thread, List(t)
  PROVE  RightInv'
<1> DEFINE o == job[t]
           R == rows[SiteOf[t]]
           X == {x \in R : Expired(x)}
           j == [o EXCEPT !.at = "sweep", !.todo = X]
           n == IF X = {} THEN Idle ELSE j
<1>1. /\ o.at = "list" /\ o \in Job /\ o.kind = "sweep" /\ o.from = None
      /\ job' = [job EXCEPT ![t] = n] /\ Within(t, n)
      /\ UNCHANGED <<pdn, rows, mail>>
  BY Typed DEF List, Becomes, Blame, outside, JobOK, PlaceOK, Within
<1>2. SameView /\ \A v : ~Leaves(o, v)
  BY <1>1 DEF SameView, Leaves
<1>3. CASE X = {}
  <2>1. Within(t, Idle)
    BY <1>1, <1>3
  <2> QED
    BY <1>2, <2>1, NothingAtHand, RightSame
<1>4. CASE X # {}
  <2>1. job' = [job EXCEPT ![t] = j] /\ Within(t, j) /\ X \subseteq R
    BY <1>1, <1>4
  <2>2. /\ j.at = "sweep" /\ j.kind = "sweep" /\ j.from = None
        /\ j.cols = o.cols /\ j.old = o.old /\ j.todo = X
    BY <1>1 DEF Job
  <2>3. Clean' => \A x \in X : pdn[x.cols.s].at = "over"
    BY <1>1 DEF List, Blame, Clean
  <2> HIDE DEF j, X
  <2>4. ASSUME Clean', NEW i \in Keys(j), i[1] # None
        PROVE  ~Up(pdn, current, i[1])
    <3>1. Clean /\ Sound /\ Apart /\ Apart' /\ SiteOf[t] \in Site
      BY <2>1, <2>4, Cleanly, Typed DEF Within
    <3>2. Own(R, o)
      BY <3>1 DEF RowsInv, OwnInv
    <3>3. j.cols.ue = None /\ j.old.cols.ue = None
      BY <1>1, <2>2, <3>2, NoRowIsRow DEF Own
    <3>4. \/ i = <<j.cols.ue, j.cols.ip>>
          \/ i = <<j.old.cols.ue, j.old.cols.ip>>
          \/ \E x \in j.todo : i = <<x.cols.ue, x.cols.ip>>
      BY KeysOf
    <3>5. PICK x \in X : i = <<x.cols.ue, x.cols.ip>>
      BY <2>2, <2>4, <3>3, <3>4
    <3>6. x \in R /\ Exact(x.cols, pdn) /\ i[1] = x.cols.ue
      BY <2>1, <3>1, <3>5 DEF RowsInv, ExactInv
    <3>7. x.cols.ue \in Ue
      BY <3>6 DEF Exact, Real
    <3>8. AtWork(j, x.cols.ue)
      BY <2>2, <3>6 DEF AtWork
    <3>9. Lone(t, x.cols.ue)
      BY <1>1, <2>1, <3>1, <3>7, <3>8, LoneThen
    <3>10. current[x.cols.ue] # None => x.cols.s = current[x.cols.ue]
      BY <1>1, <3>1, <3>6, <3>7, <3>9, RowOfCurrent DEF Asks
    <3> QED
      BY <2>3, <2>4, <3>6, <3>10 DEF Up
  <2> QED
    BY <1>2, <2>1, <2>2, <2>4, SweepsRight, RightSame
<1> QED
  BY <1>3, <1>4

LEMMA RightSweep ==
  ASSUME TypeInv, TypeInv', RowsInv, RowsInv', HomeInv, HomeInv', RightInv,
         NEW t \in Thread, Sweep(t)
  PROVE  RightInv'
<1> DEFINE o == job[t]
           R == rows[SiteOf[t]]
           x == First(o.todo)
           y == First(ById(SiteOf[t], x.id))
           at == IF y = NoRow THEN o.at ELSE "delete"
           j == Sweeps(o, x, y, at)
           n == IF o.todo = {} THEN Idle ELSE j
<1>1. /\ o.at = "sweep" /\ o \in Job /\ o.kind = "sweep" /\ o.from = None
      /\ UNCHANGED <<rows, mail>> /\ R \subseteq Row /\ Within(t, n)
  <2>1. /\ o.at = "sweep" /\ o \in Job /\ o.kind = "sweep" /\ o.from = None
        /\ UNCHANGED <<outside, rows, mail, cause>> /\ R \subseteq Row
    BY Typed DEF Sweep, Reads, JobOK, PlaceOK
  <2>2. job' = [job EXCEPT ![t] = n]
    BY DEF Sweep, Becomes, Sweeps
  <2> QED
    BY <2>1, <2>2 DEF Within
<1>2. SameView /\ \A v : ~Leaves(o, v)
  BY <1>1 DEF SameView, Leaves
<1>3. CASE o.todo = {}
  <2>1. Within(t, Idle)
    BY <1>1, <1>3
  <2> QED
    BY <1>2, <2>1, NothingAtHand, RightSame
<1>4. CASE o.todo # {}
  <2>1. Within(t, j)
    BY <1>1, <1>4
  <2>2. y \in Row
    <3>1. ById(SiteOf[t], x.id) \subseteq R
      BY DEF ById
    <3> HIDE DEF x
    <3> QED
      BY <3>1, ByIdTyped
  <2>3. at \in {"sweep", "delete"}
    BY <1>1
  <2> HIDE DEF x, y, at
  <2>4. /\ j.at = at /\ SameWork(j, o) /\ j.old = y /\ j.todo = o.todo \ {x}
    BY <1>1, <2>2, <2>3, JobSweeps
  <2> HIDE DEF j
  <2>5. ASSUME Clean', NEW i \in Keys(j), i[1] # None
        PROVE  ~Up(pdn, current, i[1])
    <3>1. Clean /\ Apart
      BY <2>1, <2>5, Cleanly DEF Within
    <3>2. o.todo \subseteq R
      BY <1>1, <3>1 DEF RowsInv, OwnInv, Own
    <3>3. x \in o.todo /\ y = x
      BY <1>4, <3>2, LookedUp DEF x, y
    <3>4. \/ i = <<o.cols.ue, o.cols.ip>>
          \/ i = <<x.cols.ue, x.cols.ip>>
          \/ \E z \in o.todo : i = <<z.cols.ue, z.cols.ip>>
      <4>1. \/ i = <<j.cols.ue, j.cols.ip>>
            \/ i = <<j.old.cols.ue, j.old.cols.ip>>
            \/ \E z \in j.todo : i = <<z.cols.ue, z.cols.ip>>
        BY KeysOf
      <4>2. j.cols = o.cols /\ j.old = x /\ j.todo \subseteq o.todo
        BY <2>4, <3>3 DEF SameWork
      <4> QED
        BY <4>1, <4>2
    <3>5. i \in Keys(o)
      <4>1. /\ <<o.cols.ue, o.cols.ip>> \in Keys(o)
            /\ \A z \in o.todo : <<z.cols.ue, z.cols.ip>> \in Keys(o)
        BY KeysOf
      <4> QED
        BY <3>3, <3>4, <4>1
    <3>6. ClearRight(o, pdn, current)
      BY <3>1, RightParts DEF RightNow, JobRight
    <3> QED
      BY <1>1, <2>5, <3>5, <3>6 DEF ClearRight
  <2> QED
    BY <1>1, <1>2, <2>1, <2>4, <2>5, SweepsRight, RightSame DEF SameWork
<1> QED
  BY <1>3, <1>4

\* The row that an STR finds names the call.
LEMMA GetStr ==
  ASSUME TypeInv, NEW t \in Thread, Get(t), job[t].kind = "str",
         NEW j \in Job, job' = [job EXCEPT ![t] = j]
  PROVE  \/ /\ j.at = "answer" /\ \A x \in rows[SiteOf[t]] : x.cols.rx # j.c
         \/ /\ j.at = "send"
            /\ \E x \in rows[SiteOf[t]] : x.cols.rx = j.c /\ j.cols = x.cols
<1> DEFINE o == job[t]
           R == rows[SiteOf[t]]
           X == Caller(SiteOf[t], o)
           x == First(X)
<1>1. /\ o \in Job /\ R \subseteq Row /\ job'[t] = j
      /\ X = {y \in R : y.cols.rx = o.c}
  BY Typed, OneMinds DEF Caller
<1>2. /\ x = NoRow <=> X = {}
      /\ x # NoRow => x \in X
  <2>1. X \subseteq R
    BY DEF Caller
  <2> HIDE DEF X
  <2> QED
    BY <2>1, ByIdTyped
<1> DEFINE n == IF x = NoRow
                THEN [o EXCEPT !.at = "answer", !.ok = o.kind = "str"]
                ELSE IF o.kind = "call"
                THEN [o EXCEPT !.at = "find",
                               !.cols = [x.cols EXCEPT !.rx = o.c]]
                ELSE [o EXCEPT !.at = "send", !.cols = x.cols]
<1>3. Loads(t, n)
  BY DEF Get
<1>4. j = n
  <2> HIDE DEF n
  <2>1. job' = [job EXCEPT ![t] = n]
    BY <1>3 DEF Loads, Becomes
  <2> QED
    BY <1>1, <2>1, OneMinds
<1> HIDE DEF x
<1>5. CASE x = NoRow
  <2>1. j.at = "answer" /\ j.c = o.c
    BY <1>1, <1>4, <1>5 DEF Job
  <2> QED
    BY <1>1, <1>2, <1>5, <2>1
<1>6. CASE x # NoRow
  <2>1. j.at = "send" /\ j.c = o.c /\ j.cols = x.cols
    BY <1>1, <1>4, <1>6 DEF Job
  <2> QED
    BY <1>1, <1>2, <1>6, <2>1
<1> QED
  BY <1>5, <1>6

LEMMA RightGet ==
  ASSUME TypeInv, TypeInv', RowsInv, RowsInv', HomeInv, HomeInv', RightInv,
         NEW t \in Thread, Get(t)
  PROVE  RightInv'
<1> DEFINE o == job[t]
           A == SiteOf[t]
           R == rows[A]
           c == o.c
           u == pdn[call[c].s].ue
<1>1. PICK j \in Job :
        /\ Within(t, j) /\ Busy(t) /\ UNCHANGED <<rows, mail>>
        /\ o.at = "get" /\ o.kind \in {"call", "str"}
        /\ j.kind = o.kind /\ j.c = c /\ j.from = o.from
        /\ \/ j.at = "answer" /\ j.cols = o.cols
           \/ /\ j.kind = "call" /\ j.at = "find"
              /\ \E x \in R : /\ x.cols.ip = o.cols.ip
                              /\ j.cols = [x.cols EXCEPT !.rx = j.c]
                              /\ j.cols.ue = x.cols.ue
           \/ j.kind = "str" /\ j.at = "send"
  BY GetJob
<1>2. /\ o.from = None /\ Real(o.cols, pdn) /\ c \in Call /\ A \in Site
      /\ job' = [job EXCEPT ![t] = j] /\ job'[t] = j /\ UNCHANGED mail
      /\ call[c].at # "new"
  <2>1. o.from = None /\ Real(o.cols, pdn) /\ c \in Call /\ A \in Site
    BY <1>1, Typed DEF JobOK, PlaceOK
  <2>2. job' = [job EXCEPT ![t] = j] /\ job'[t] = j /\ UNCHANGED mail
    BY <1>1, OneMinds DEF Within
  <2>3. call[c].at # "new"
    BY <1>1 DEF TypeInv, CallInv
  <2> QED
    BY <2>1, <2>2, <2>3
<1>3. SameView /\ \A v : ~Leaves(o, v) /\ ~Accepts(j, v)
  BY <1>1 DEF SameView, Leaves, Accepts, Asks
<1>4. ClearRight(j, pdn, current) /\ AskRight(j, pdn, call)
  BY <1>1 DEF ClearRight, AskRight, Asks
<1>5. ASSUME Clean'
      PROVE  /\ Clean /\ Apart /\ Apart' /\ Unique(R)
             /\ RightNow(t) /\ CallRight(o, rows, mail, pdn, current, call)
             /\ StrRight(o, pdn, call, Sure)
             /\ \A v \in Ue : Accounted(v) /\ Borne(v)
             /\ \A x \in R : Exact(x.cols, pdn) /\ x.cols.ue \in Ue
  <2>1. Clean /\ Apart /\ Apart'
    BY <1>1, <1>5, Cleanly DEF Within
  <2> QED
    BY <1>2, <2>1, RightParts
       DEF RightNow, JobRight, RowsInv, UniqueInv, ExactInv, Exact, Real
<1>6. ASSUME Clean', NEW x \in R, j.cols.ue = x.cols.ue, j.at # "answer"
      PROVE  Will(rows, mail, A, x.cols)
  <2>1. AtWork(job'[t], x.cols.ue)
    <3>1. job'[t] = j /\ j.at # "idle" /\ j.from = None
      BY <1>1, <1>2, <1>6
    <3>2. \E k \in Keys(j) : k[1] = x.cols.ue
      BY <1>6, ChangedKey
    <3> QED
      BY <3>1, <3>2 DEF AtWork
  <2>2. Has(rows, A, x.cols)
    BY <1>6 DEF Has
  <2> QED
    BY <1>2, <1>5, <1>6, <2>1, <2>2, WillOwn
<1>7. ASSUME Clean', o.kind = "call"
      PROVE  CallRight(j, rows, mail, pdn, current, call)
  <2>0. /\ call[c].at \notin {"new", "ending", "over"} /\ current[u] = call[c].s
        /\ o.cols.ue = u /\ OnCalls(pdn, call, u) \subseteq {c}
        /\ \A l : Will(rows, mail, A, l) /\ l.ip = o.cols.ip => l.ue = u
    <3>1. o.at = "get" /\ CallRight(o, rows, mail, pdn, current, call)
      BY <1>1, <1>5, <1>7
    <3> QED
      BY <1>2, <1>7, <3>1, Zenon DEF CallRight
  <2>1. CASE j.at = "answer"
    <3>1. j.kind = "call" /\ j.c = c /\ j.cols = o.cols
      BY <1>1, <1>7, <2>1
    <3> QED
      BY <2>0, <2>1, <3>1, Zenon DEF CallRight
  <2>2. CASE j.at = "find"
    <3>1. PICK x \in R : /\ x.cols.ip = o.cols.ip
                         /\ j.cols = [x.cols EXCEPT !.rx = c]
                         /\ j.cols.ue = x.cols.ue
      BY <1>1, <1>7, <2>2, Zenon
    <3>2. Will(rows, mail, A, x.cols)
      BY <1>6, <1>7, <2>2, <3>1
    <3>3. x.cols.ue = u
      BY <1>2, <2>0, <3>1, <3>2, Zenon
    <3>4. j.cols.rx = c
      <4>1. x.cols \in Columns
        BY <3>1, Typed DEF Row
      <4> QED
        BY <3>1, <4>1 DEF Columns
    <3>5. j.kind = "call" /\ j.c = c /\ j.cols.ue = u
      BY <1>1, <1>7, <3>1, <3>3
    <3> QED
      BY <2>0, <2>2, <3>4, <3>5, Zenon DEF CallRight
  <2> QED
    BY <1>1, <1>7, <2>1, <2>2, Zenon
\* The row that has the bearer of the call.
<1>8. ASSUME Clean', o.kind = "str", NEW b \in Sure, b[2] = c,
             AtWork(o, u) \/ AtWork(job'[t], u)
      PROVE  \E y \in R : y.cols.rx = c /\ y.cols.s = b[1] /\ y.cols.ue = u
  <2>1. pdn[b[1]].ue = u
    BY <1>5, <1>8, SureBearers DEF AtHome
  <2>2. u \in Ue
    <3>1. call[c].s \in 1 .. Len(pdn)
      BY <1>2 DEF TypeInv, CallInv
    <3> QED
      BY <3>1, SessionOf
  <2>3. \E l : Will(rows, mail, A, l) /\ l.s = b[1] /\ l.rx = c
    BY <1>2, <1>5, <1>8, <2>1, <2>2 DEF Borne
  <2>4. PICK l : Will(rows, mail, A, l) /\ l.s = b[1] /\ l.rx = c
    BY <2>3
  <2>5. l.ue = u
    BY <1>2, <1>5, <1>8, <2>1, <2>4, WillTyped DEF Exact
  <2>6. Has(rows, A, l)
    BY <1>2, <1>5, <1>8, <2>2, <2>4, <2>5, WillOwn
  <2> QED
    BY <2>4, <2>5, <2>6 DEF Has
<1>9. ASSUME Clean', o.kind = "str"
      PROVE  StrRight(j, pdn, call, Sure)
  <2>1. CASE j.at = "answer" /\ \A x \in R : x.cols.rx # c
    <3>1. o.cols.ue = u
      BY <1>5, <1>9 DEF StrRight
    <3>2. AtWork(o, u)
      BY <1>1, <1>2, <3>1, ChangedKey DEF AtWork
    <3>3. \A b \in Sure : b[2] # c
      BY <1>8, <1>9, <2>1, <3>2
    <3> QED
      BY <1>1, <1>9, <2>1, <3>1, <3>3 DEF StrRight
  <2>2. CASE j.at = "send" /\ \E x \in R : x.cols.rx = c /\ j.cols = x.cols
    <3>1. PICK x \in R : x.cols.rx = c /\ j.cols = x.cols
      BY <2>2
    <3>2. Will(rows, mail, A, x.cols)
      BY <1>6, <1>9, <2>2, <3>1
    <3>3. x.cols.ue = u
      <4>1. Accounted(x.cols.ue) /\ x.cols.rx # None
        BY <1>2, <1>5, <1>9, <3>1, EmergencyAssumption
      <4> QED
        BY <1>2, <3>1, <3>2, <4>1 DEF Accounted
    <3>4. AtWork(job'[t], u)
      <4>1. \E k \in Keys(j) : k[1] = j.cols.ue
        BY ChangedKey
      <4>2. j.cols.ue = u /\ j.at # "idle" /\ j.from = None
        BY <1>1, <1>2, <2>2, <3>1, <3>3
      <4> QED
        BY <1>2, <4>1, <4>2 DEF AtWork
    <3>5. ASSUME NEW b \in Sure, b[2] = c
          PROVE  b[1] = j.cols.s
      BY <1>5, <1>8, <1>9, <3>1, <3>3, <3>4, <3>5 DEF Unique
    <3>6. j.c = c /\ j.cols.ue = pdn[call[j.c].s].ue /\ j.at # "answer"
      BY <1>1, <2>2, <3>1, <3>3
    <3> QED
      BY <3>5, <3>6 DEF StrRight
  <2>3. \/ j.at = "answer" /\ \A x \in R : x.cols.rx # j.c
        \/ /\ j.at = "send"
           /\ \E x \in R : x.cols.rx = j.c /\ j.cols = x.cols
    BY <1>2, <1>9, GetStr
  <2> QED
    BY <1>1, <2>1, <2>2, <2>3
<1>10. Clean' => JobRight(j, rows, mail, pdn, current, call, Sure)
  BY <1>1, <1>4, <1>7, <1>9 DEF JobRight, CallRight, StrRight
<1>11. Clean' => JobRight(j, rows', mail', pdn, current, call, Sure)
  BY <1>1, <1>10
<1> QED
  BY <1>1, <1>3, <1>11, RightSame

\* What a handler that removes a row finds.
LEMMA FindClear ==
  ASSUME TypeInv, NEW t \in Thread, Find(t), job[t].kind = "clear",
         NEW j, job' = [job EXCEPT ![t] = j]
  PROVE  /\ SameWork(j, job[t]) /\ j.todo = job[t].todo
         /\ \/ /\ j.at = After(job[t]) /\ j.old = NoRow
               /\ \A x \in rows[SiteOf[t]] : x.cols.ue # j.cols.ue
            \/ /\ j.at = "delete" /\ j.old.cols.ue = j.cols.ue
<1> DEFINE o == job[t]
           R == rows[SiteOf[t]]
           X == Sought(SiteOf[t], o)
           x == First(X)
           at == IF o.kind # "clear" THEN "commit"
                 ELSE IF x = NoRow THEN After(o) ELSE "delete"
           n == LoadsRow(o, x, at)
<1>1. o.at = "find" /\ Loads(t, n)
  BY DEF Find, LoadsRow
<1>2. j = n
  <2> HIDE DEF n
  <2>1. job' = [job EXCEPT ![t] = n]
    BY <1>1 DEF Loads, Becomes
  <2>2. job'[t] = n
    BY <2>1, OneMinds
  <2>3. job'[t] = j
    BY OneMinds
  <2> QED
    BY <2>2, <2>3
<1>3. o \in Job /\ X = {y \in R : y.cols.ue = o.cols.ue}
  BY Typed DEF Sought
<1>4. /\ x \in Row
      /\ x = NoRow <=> X = {}
      /\ x # NoRow => x \in X
  <2>1. X \subseteq R
    BY DEF Sought
  <2> HIDE DEF o
  <2> QED
    BY <2>1, ByIdTyped
<1>5. at = (IF x = NoRow THEN After(o) ELSE "delete") /\ at \in Places
  BY DEF After, Places
<1> HIDE DEF x, at
<1>6. SameWork(j, o) /\ j.todo = o.todo /\ j.at = at /\ j.old = x
  BY <1>2, <1>3, <1>4, <1>5, JobLoads
<1> HIDE DEF n, o
<1>7. j.cols = o.cols
  BY <1>6 DEF SameWork
<1>8. CASE x = NoRow
  BY <1>3, <1>4, <1>5, <1>6, <1>7, <1>8 DEF o
<1>9. CASE x # NoRow
  BY <1>3, <1>4, <1>5, <1>6, <1>7, <1>9 DEF o
<1> QED
  BY <1>8, <1>9

LEMMA RightFind ==
  ASSUME TypeInv, TypeInv', RowsInv, RowsInv', HomeInv, HomeInv', SyncInv,
         RightInv, NEW t \in Thread, Find(t)
  PROVE  RightInv'
<1> DEFINE o == job[t]
           A == SiteOf[t]
           R == rows[A]
<1>1. PICK j \in Job :
        /\ Within(t, j) /\ Onward(t, j) /\ UNCHANGED <<rows, mail>>
        /\ o.at = "find" /\ j.at \in {"commit", "delete", "respond", "answer"}
        /\ j.at = "commit" <=> j.kind \in {"set", "call"}
  BY FindJob
<1>0. PICK u \in Ue : u = o.cols.ue
  BY <1>1, Typed DEF JobOK, PlaceOK, Real
<1>2. /\ o \in Job /\ o.kind \in {"set", "clear", "call"} /\ u = o.cols.ue
      /\ A \in Site /\ SameWork(j, o) /\ job' = [job EXCEPT ![t] = j]
      /\ (o.from # None => o.kind \in {"set", "clear"}) /\ o.at # "idle"
  BY <1>0, <1>1, Typed DEF JobOK, PlaceOK, Onward, Within
<1>3. j.kind = o.kind /\ j.c = o.c /\ j.cols = o.cols /\ j.from = o.from
  BY <1>2 DEF SameWork
<1>4. SameView
  BY <1>1 DEF SameView
<1>5. Clean' => /\ Clean /\ Sound /\ Apart
                /\ ClearRight(o, pdn, current) /\ AskRight(o, pdn, call)
                /\ CallRight(o, rows, mail, pdn, current, call)
  BY <1>1, Cleanly, RightParts DEF Within, RightNow, JobRight
<1>6. CASE o.from # None
  <2>1. /\ \A R0, M, p, n, k, B : JobRight(j, R0, M, p, n, k, B)
        /\ \A v : ~Leaves(o, v) /\ ~Accepts(j, v)
    BY <1>2, <1>3, <1>6, NothingRight DEF Leaves
  <2> QED
    BY <1>1, <1>4, <2>1, RightSame
<1>7. CASE o.from = None /\ o.kind \in {"set", "call"}
  <2>1. \A v : /\ Leaves(o, v) => Leaves(j, v)
               /\ ~Accepts(j, v)
    BY <1>1, <1>3, <1>7 DEF Leaves, Accepts
  <2>2. Clean' => JobRight(j, rows, mail, pdn, current, call, Sure)
    BY <1>1, <1>2, <1>3, <1>5, <1>7
       DEF JobRight, ClearRight, AskRight, CallRight, StrRight, Asks
  <2>3. Clean' => JobRight(j, rows', mail', pdn, current, call, Sure)
    BY <1>1, <2>2
  <2> QED
    BY <1>1, <1>4, <2>1, <2>3, RightSame
<1>8. CASE o.from = None /\ o.kind = "clear"
  <2>1. j.todo = o.todo
    BY <1>2, <1>8, FindClear
  <2>2. \/ /\ j.at = After(o) /\ j.old = NoRow
           /\ \A x \in R : x.cols.ue # j.cols.ue
        \/ j.at = "delete" /\ j.old.cols.ue = j.cols.ue
    BY <1>2, <1>8, FindClear
  <2>3. After(o) = "answer"
    BY <1>8 DEF After
  <2>4. AtWork(o, u)
    BY <1>2, <1>8, ChangedKey DEF AtWork
  <2>5. ASSUME Clean', NEW i \in Keys(j), i[1] # None
        PROVE  ~Up(pdn, current, i[1])
    <3>1. j.old.cols.ue \in {None, u}
      BY <1>2, <1>3, <2>2, NoRowIsRow
    <3>2. \/ i = <<o.cols.ue, o.cols.ip>>
          \/ i = <<j.old.cols.ue, j.old.cols.ip>>
          \/ \E z \in o.todo : i = <<z.cols.ue, z.cols.ip>>
      <4>1. \/ i = <<j.cols.ue, j.cols.ip>>
            \/ i = <<j.old.cols.ue, j.old.cols.ip>>
            \/ \E z \in j.todo : i = <<z.cols.ue, z.cols.ip>>
        BY KeysOf
      <4> QED
        BY <1>3, <2>1, <4>1
    <3>3. /\ <<o.cols.ue, o.cols.ip>> \in Keys(o)
          /\ \A z \in o.todo : <<z.cols.ue, z.cols.ip>> \in Keys(o)
      BY KeysOf
    <3>4. \E k \in Keys(o) : k[1] = i[1]
      BY <1>2, <2>5, <3>1, <3>2, <3>3
    <3> QED
      BY <1>2, <1>5, <1>8, <2>5, <3>4 DEF ClearRight
  <2>6. Clean' => JobRight(j, rows', mail', pdn, current, call, Sure)
    BY <1>1, <1>3, <1>8, <2>5, <2>2, <2>3
       DEF JobRight, ClearRight, AskRight, CallRight, StrRight, Asks
  <2>7. \A v : ~Accepts(j, v)
    BY <1>3, <1>8 DEF Accepts, Asks
  <2>8. CASE j.at = "delete"
    <3>1. \A v : Leaves(o, v) => Leaves(j, v)
      BY <1>3, <1>8, <2>8 DEF Leaves
    <3> QED
      BY <1>1, <1>4, <2>6, <2>7, <3>1, RightSame
  <2>9. CASE j.at = "answer" /\ \A x \in R : x.cols.ue # u
    <3>1. \A v \in Ue : v # u => ~Leaves(o, v)
      BY <1>2 DEF Leaves
    <3>2. ASSUME Clean'
          PROVE  \A g \in Site : \A l : l.ue = u => ~Will(rows, mail, g, l)
      <4> SUFFICES ASSUME NEW g \in Site, NEW l, l.ue = u,
                          Will(rows, mail, g, l)
                   PROVE  FALSE
        OBVIOUS
      <4>1. Agreed(rows, mail, job)
        BY <1>5, <3>2, SyncParts
      <4>2. ~Copying(job, u)
        <5> SUFFICES ASSUME NEW v \in Thread, job[v].at = "copy",
                            Changed(job[v]) = u
                     PROVE  FALSE
          BY DEF Copying
        <5>1. v # t /\ job[v].from = None
          BY <1>1, Typed DEF JobOK, PlaceOK
        <5>2. AtWork(job[v], u)
          BY <5>1, ChangedKey DEF AtWork
        <5> QED
          BY <1>2, <1>5, <2>4, <3>2, <5>1, <5>2, NobodyElse
      <4>3. Will(rows, mail, A, l)
        BY <1>2, <4>1, <4>2 DEF Agreed
      <4>4. Has(rows, A, l)
        BY <1>2, <1>5, <2>4, <3>2, <4>3, WillOwn
      <4> QED
        BY <2>9, <4>4 DEF Has
    <3>3. Clean' => Accounted(u)'
      BY <1>1, <3>2 DEF Accounted
    <3>4. ASSUME Clean'
          PROVE  Provided(u)'
      <4>1. ~Up(pdn, current, u)
        <5>1. \E k \in Keys(o) : k[1] = u
          BY <1>2, ChangedKey
        <5> QED
          BY <1>2, <1>5, <1>8, <3>4, <5>1, EmergencyAssumption DEF ClearRight
      <4>2. ASSUME NEW v \in Thread, Accepts(job'[v], u)
            PROVE  FALSE
        <5>1. job'[t] = j /\ \A w \in Thread \ {t} : job'[w] = job[w]
          BY <1>2, OneMinds
        <5>2. v # t /\ job'[v] = job[v]
          BY <2>7, <4>2, <5>1
        <5>3. AtWork(job[v], u)
          BY <4>2, <5>2, ChangedKey DEF Accepts, Asks, AtWork
        <5> QED
          BY <1>2, <1>5, <2>4, <3>4, <5>2, <5>3, NobodyElse
      <4>3. ~Up(pdn', current', u)
        BY <1>1, <4>1 DEF Within, outside
      <4> QED
        BY <4>2, <4>3 DEF Provided
    <3>5. Moved(t, j, u) /\ UNCHANGED outside /\ u \in Ue \cup {None}
      BY <1>1, <1>2, <2>4 DEF Moved, Within
    <3> HIDE DEF Moved
    <3> QED
      BY <1>4, <2>6, <2>7, <3>1, <3>3, <3>4, <3>5, RightPlain
  <2> QED
    BY <1>2, <1>3, <2>2, <2>3, <2>8, <2>9
<1> QED
  BY <1>2, <1>6, <1>7, <1>8

\* What a step of t about u does when it leaves the PGWs and the calls alone.
LEMMA MovesWithin ==
  ASSUME TypeInv, UNCHANGED outside, NEW t \in Thread, NEW u \in Ue,
         AtWork(job[t], u),
         \A g \in Site : \A l : l.ue # u =>
           (Will(rows', mail', g, l) <=> Will(rows, mail, g, l)),
         \A g \in Site : \A l : Will(rows', mail', g, l) /\ l.ue = u =>
           \/ \E h \in Site : Will(rows, mail, h, l)
           \/ <<l.ue, l.ip>> \in Keys(job[t])
  PROVE  Moves(u)
<1>1. UNCHANGED <<pdn, current, call, bearers, Sure>> /\ Grows(pdn, pdn')
  BY SameOutside, SameSure
<1>2. u # None
  BY EmergencyAssumption
<1> QED
  BY <1>1, <1>2 DEF Moves

\* A handler that stores or removes a row for another site.
LEMMA RightCopied ==
  ASSUME TypeInv, TypeInv', RowsInv, RowsInv', HomeInv, HomeInv', RightInv,
         NEW t \in Thread, NEW j, Wrote(t, j), job[t].from # None
  PROVE  RightInv'
<1>1. /\ job' = [job EXCEPT ![t] = j] /\ UNCHANGED <<outside, mail, cause>>
      /\ SameWork(j, job[t])
  BY DEF Wrote
<1>2. j.from # None /\ j.kind \in {"set", "clear"}
  BY <1>1, Typed DEF JobOK, PlaceOK, SameWork
<1>3. /\ \A R, M, p, n, k, B : JobRight(j, R, M, p, n, k, B)
      /\ \A v : ~Leaves(job[t], v) /\ ~Accepts(j, v)
  BY <1>2, NothingRight DEF Leaves
<1>4. Within(t, j)
  BY <1>1 DEF Within
<1>5. Clean' => SameView
  <2>1. Clean' => Apart
    BY <1>4, Cleanly DEF Within
  <2> QED
    BY <2>1, WroteViews
<1> QED
  BY <1>3, <1>4, <1>5, RightSame

LEMMA RightCommit ==
  ASSUME TypeInv, TypeInv', RowsInv, RowsInv', HomeInv, HomeInv', RightInv,
         NEW t \in Thread, NEW j, Wrote(t, j), job[t].from = None,
         job[t].kind \in {"set", "call"}
  PROVE  RightInv'
<1> DEFINE o == job[t]
           A == SiteOf[t]
           R == rows[A]
           Q == rows'[A]
           c == o.c
<1>1. /\ job' = [job EXCEPT ![t] = j] /\ UNCHANGED <<outside, mail, cause>>
      /\ SameWork(j, o) /\ j.at = "copy" /\ o.at = "commit"
      /\ \E x \in Q : x.cols = j.cols
  BY DEF Wrote, SameWork
<1>2. j.kind = o.kind /\ j.c = o.c /\ j.cols = o.cols /\ j.from = None
  BY <1>1 DEF SameWork
<1>3. PICK u \in Ue : u = o.cols.ue
  BY <1>1, Typed DEF JobOK, PlaceOK, Real
<1>4. UNCHANGED <<pdn, current, call, bearers, Sure>> /\ A \in Site /\ u # None
  BY <1>1, Typed, EmergencyAssumption, SameSure DEF outside
<1>5. /\ job'[t] = j /\ \A v \in Thread \ {t} : job'[v] = job[v]
  BY <1>1, OneMinds
<1>6. AtWork(o, u) /\ Changed(j) = u
  BY <1>1, <1>2, <1>3, ChangedKey DEF AtWork, Changed
<1>7. <<o.cols.ue, o.cols.ip>> \in Keys(o)
  BY KeysOf
<1>8. Moved(t, j, u)
  BY <1>1, <1>6 DEF Moved
<1> SUFFICES ASSUME Clean'
             PROVE  RightInv'
  BY DEF RightInv
<1>9. /\ Clean /\ Apart /\ Apart'
  BY <1>1, Cleanly
<1>10. /\ AskRight(o, pdn, call) /\ CallRight(o, rows, mail, pdn, current, call)
       /\ IpRight /\ Accounted(u) /\ Provided(u) /\ Borne(u)
  BY <1>9, RightParts DEF RightNow, JobRight
<1>11. /\ Own(R, o) /\ Unique(R) /\ Unique(Q) /\ Exact(o.cols, pdn)
  BY <1>1, <1>4, <1>9 DEF RowsInv, OwnInv, UniqueInv, ExactInv, ExactJob
<1>12. /\ \A g \in Site : \A k : g # A \/ k.ue # u =>
            (Will(rows', mail', g, k) <=> Will(rows, mail, g, k))
       /\ \A k : k.ue = u =>
            /\ Will(rows, mail, A, k) <=> Has(rows, A, k)
            /\ Will(rows', mail', A, k) <=> Has(rows', A, k)
  BY <1>6, <1>9, WroteViews
<1>13. \A k : k.ue = u => (Will(rows', mail', A, k) <=> k = o.cols)
  BY <1>1, <1>2, <1>3, <1>11, <1>12 DEF Has, Unique
<1>14. Moves(u)
  <2>1. \A g \in Site : \A l : Will(rows', mail', g, l) /\ l.ue = u =>
          \/ \E h \in Site : Will(rows, mail, h, l)
          \/ <<l.ue, l.ip>> \in Keys(o)
    BY <1>7, <1>12, <1>13
  <2> QED
    BY <1>1, <1>6, <1>12, <2>1, MovesWithin
\* The row that an AAR writes.
<1>15. ASSUME o.kind = "call"
       PROVE  /\ o.old \in R /\ o.old.cols.ue = u /\ o.old.cols.ip = o.cols.ip
              /\ o.old.cols.s = o.cols.s
              /\ Will(rows, mail, A, o.old.cols)
  <2>1. o.old \in R /\ o.cols = [o.old.cols EXCEPT !.rx = c]
    BY <1>1, <1>11, <1>15 DEF Own
  <2>2. o.old.cols \in Columns
    BY <2>1, Typed DEF Row
  <2>3. /\ o.old.cols.ue = o.cols.ue /\ o.old.cols.ip = o.cols.ip
        /\ o.old.cols.s = o.cols.s
    <3> HIDE DEF o
    <3> QED
      BY <2>1, <2>2, RxOnly
  <2> QED
    BY <1>3, <1>12, <2>1, <2>3 DEF Has
<1>16. IpRight'
  <2> SUFFICES ASSUME NEW g \in Site, NEW l, Will(rows', mail', g, l),
                      NEW s \in 1 .. Len(pdn), pdn[s].at # "over",
                      pdn[s].ip = l.ip
               PROVE  pdn[s].ue = l.ue
    BY <1>4 DEF IpRight
  <2>1. CASE Will(rows, mail, g, l)
    BY <1>10, <2>1 DEF IpRight
  <2>2. CASE ~Will(rows, mail, g, l)
    <3>1. l = o.cols
      BY <1>12, <1>13, <2>2
    <3>2. CASE o.kind = "set"
      <4>1. pdn[o.cols.s].at = "asked"
        BY <1>1, <1>9, <3>2 DEF HomeInv, AskedInv, Asks
      <4> QED
        BY <1>9, <1>11, <3>1, <4>1
           DEF HomeInv, AddressInv, AddressOK, Exact, Real
    <3>3. CASE o.kind = "call"
      BY <1>3, <1>4, <1>10, <1>15, <3>1, <3>3 DEF IpRight
    <3> QED
      BY <3>2, <3>3
  <2> QED
    BY <2>1, <2>2
<1>17. JobRight(j, rows', mail', pdn', current', call', Sure')
  <2>1. JobRight(j, rows', mail', pdn, current, call, Sure)
    BY <1>1, <1>2, <1>10
       DEF JobRight, ClearRight, AskRight, CallRight, StrRight, Asks
  <2> QED
    BY <1>4, <2>1
<1>18. \A v \in Ue : v # u =>
         /\ Leaves(job[t], v) => Leaves(j, v)
         /\ Accepts(j, v) => Accepts(job[t], v)
  BY <1>1, <1>3 DEF Leaves, Accepts
<1>19. Accounted(u)'
  <2> SUFFICES ASSUME NEW g \in Site, NEW l, Will(rows', mail', g, l), l.ue = u
               PROVE  /\ \/ current[u] # None
                         \/ \E v \in Thread : Leaves(job'[v], u)
                      /\ l.rx # None => /\ call[l.rx].at # "new"
                                        /\ pdn[call[l.rx].s].ue = u
    BY <1>4 DEF Accounted
  <2>1. CASE Will(rows, mail, g, l)
    <3>1. \A v \in Thread : Leaves(job[v], u) => Leaves(job'[v], u)
      BY <1>1, <1>2, <1>5 DEF Leaves
    <3> QED
      BY <1>10, <2>1, <3>1 DEF Accounted
  <2>2. CASE ~Will(rows, mail, g, l)
    <3>1. l = o.cols
      BY <1>12, <1>13, <2>2
    <3>2. CASE o.kind = "set"
      BY <1>1, <1>2, <1>3, <1>5, <1>10, <3>1, <3>2 DEF Leaves, AskRight, Asks
    <3>3. CASE o.kind = "call"
      <4>1. /\ o.cols.rx = c /\ call[c].at # "new" /\ current[u] = call[c].s
            /\ pdn[call[c].s].ue = u
        BY <1>1, <1>3, <1>10, <3>3, Zenon DEF CallRight
      <4>2. c \in Call
        BY <3>3, Typed DEF JobOK, PlaceOK
      <4> QED
        BY <3>1, <4>1, <4>2 DEF TypeInv, CallInv
    <3> QED
      BY <3>2, <3>3
  <2> QED
    BY <2>1, <2>2
<1>20. Provided(u)'
  <2> SUFFICES ASSUME \/ Up(pdn, current, u)
                      \/ \E v \in Thread : Accepts(job'[v], u),
                      NEW g \in Site
               PROVE  \E l : l.ue = u /\ Will(rows', mail', g, l)
    BY <1>4 DEF Provided
  <2>1. \A v \in Thread : Accepts(job'[v], u) => Accepts(job[v], u)
    BY <1>1, <1>5 DEF Accepts
  <2>2. \E l : l.ue = u /\ Will(rows, mail, g, l)
    BY <1>10, <2>1 DEF Provided
  <2>3. Will(rows', mail', A, o.cols)
    BY <1>3, <1>13
  <2> QED
    BY <1>3, <1>12, <2>2, <2>3
<1>21. Borne(u)'
  <2> SUFFICES ASSUME NEW b \in Sure, pdn[b[1]].ue = u
               PROVE  /\ call[b[2]].at # "over" /\ pdn[b[1]].at = "up"
                      /\ current[u] = b[1]
                      /\ \A g \in Site : \E l : /\ Will(rows', mail', g, l)
                                                /\ l.s = b[1] /\ l.rx = b[2]
    BY <1>4 DEF Borne
  <2>1. /\ call[b[2]].at # "over" /\ pdn[b[1]].at = "up" /\ current[u] = b[1]
        /\ \A g \in Site : \E l : /\ Will(rows, mail, g, l)
                                  /\ l.s = b[1] /\ l.rx = b[2]
    BY <1>10 DEF Borne
  <2>2. b[2] \in OnCalls(pdn, call, u)
    <3>1. b[2] \in Call /\ call[b[2]].at # "new"
      BY SureBearers
    <3>2. pdn[call[b[2]].s].ue = u
      BY <1>9, SureBearers DEF AtHome
    <3> QED
      BY <2>1, <3>1, <3>2 DEF OnCalls
  <2>3. o.kind = "call"
    BY <1>1, <1>3, <1>10, <2>2 DEF AskRight, Asks
  <2>4. b[2] = c /\ o.cols.rx = c
    BY <1>1, <1>3, <1>10, <2>2, <2>3 DEF CallRight
  <2>5. PICK l : Will(rows, mail, A, l) /\ l.s = b[1] /\ l.rx = b[2]
    BY <1>4, <2>1
  <2>6. l.ue = u
    BY <1>4, <1>9, <2>5, WillTyped DEF Exact
  <2>7. o.cols.s = b[1]
    <3>1. PICK y \in R : y.cols = l
      BY <1>12, <2>5, <2>6 DEF Has
    <3>2. y = o.old
      BY <1>11, <1>15, <2>3, <2>6, <3>1 DEF Unique
    <3> QED
      BY <1>15, <2>3, <2>5, <3>1, <3>2
  <2>8. Will(rows', mail', A, o.cols)
    BY <1>3, <1>13
  <2>9. ASSUME NEW g \in Site
        PROVE  \E k : Will(rows', mail', g, k) /\ k.s = b[1] /\ k.rx = b[2]
    BY <1>12, <2>1, <2>4, <2>7, <2>8
  <2> QED
    BY <2>1, <2>9
<1> HIDE DEF Moved
<1> QED
  BY <1>8, <1>14, <1>16, <1>17, <1>18, <1>19, <1>20, <1>21, RightMove

LEMMA BearerUp ==
  ASSUME TypeInv, NEW u, Borne(u), NEW b \in Sure, pdn[b[1]].ue = u
  PROVE  /\ Up(pdn, current, u) /\ current[u] = b[1] /\ pdn[b[1]].at = "up"
         /\ call[b[2]].at # "over"
<1>1. /\ call[b[2]].at # "over" /\ pdn[b[1]].at = "up" /\ current[u] = b[1]
  BY DEF Borne
<1>2. b[1] \in Nat
  BY SureBearers
<1> QED
  BY <1>1, <1>2, EmergencyAssumption DEF Up

LEMMA RightDelete ==
  ASSUME TypeInv, TypeInv', RowsInv, RowsInv', HomeInv, HomeInv', RightInv,
         NEW t \in Thread, NEW j, Wrote(t, j), job[t].from = None,
         job[t].kind \in {"clear", "sweep"}, j.old = job[t].old
  PROVE  RightInv'
<1> DEFINE o == job[t]
           A == SiteOf[t]
           R == rows[A]
           Q == rows'[A]
<1>1. /\ job' = [job EXCEPT ![t] = j] /\ UNCHANGED <<outside, mail, cause>>
      /\ SameWork(j, o) /\ j.at = "copy" /\ o.at = "delete"
      /\ \A x \in Q : x.cols.ue # Changed(j)
      /\ Changed(j) \in Ue /\ \E k \in Keys(o) : k[1] = Changed(j)
      /\ Keys(j) = Keys(o)
  BY DEF Wrote, SameWork
<1>2. j.kind = o.kind /\ j.cols = o.cols /\ j.from = None
  BY <1>1 DEF SameWork
<1>3. PICK u \in Ue : u = Changed(j)
  BY <1>1
<1>4. UNCHANGED <<pdn, current, call, bearers, Sure>> /\ A \in Site /\ u # None
  BY <1>1, Typed, EmergencyAssumption, SameSure DEF outside
<1>5. /\ job'[t] = j /\ \A v \in Thread \ {t} : job'[v] = job[v]
  BY <1>1, OneMinds
<1>6. AtWork(o, u)
  BY <1>1, <1>3 DEF AtWork
<1>7. Moved(t, j, u)
  BY <1>1, <1>6 DEF Moved
<1> SUFFICES ASSUME Clean'
             PROVE  RightInv'
  BY DEF RightInv
<1>8. /\ Clean /\ Apart
  BY <1>1, Cleanly
<1>9. /\ ClearRight(o, pdn, current)
      /\ IpRight /\ Accounted(u) /\ Borne(u)
  BY <1>8, RightParts DEF RightNow, JobRight
<1>10. Own(R, o)
  BY <1>8 DEF RowsInv, OwnInv
<1>11. /\ \A g \in Site : \A k : g # A \/ k.ue # u =>
            (Will(rows', mail', g, k) <=> Will(rows, mail, g, k))
       /\ \A k : k.ue = u =>
            (Will(rows', mail', A, k) <=> Has(rows', A, k))
  BY <1>3, <1>8, WroteViews
<1>12. \A g \in Site : \A k : Will(rows', mail', g, k) => Will(rows, mail, g, k)
  BY <1>1, <1>3, <1>11 DEF Has
<1>13. ~Up(pdn, current, u)
  BY <1>1, <1>3, <1>4, <1>9 DEF ClearRight
<1>14. Moves(u)
  BY <1>1, <1>6, <1>11, <1>12, MovesWithin
<1>15. IpRight'
  BY <1>4, <1>9, <1>12 DEF IpRight
<1>16. JobRight(j, rows', mail', pdn', current', call', Sure')
  <2>1. o.kind = "clear" => j.old.cols.ue = j.cols.ue
    BY <1>1, <1>2, <1>10 DEF Own
  <2>2. JobRight(j, rows', mail', pdn, current, call, Sure)
    BY <1>1, <1>2, <1>9, <2>1
       DEF JobRight, ClearRight, AskRight, CallRight, StrRight, Asks
  <2> QED
    BY <1>4, <2>2
<1>17. \A v \in Ue : /\ Leaves(job[t], v) => Leaves(j, v)
                     /\ ~Accepts(j, v)
  BY <1>1, <1>2 DEF Leaves, Accepts
<1>18. Accounted(u)'
  <2> SUFFICES ASSUME NEW g \in Site, NEW l, Will(rows', mail', g, l), l.ue = u
               PROVE  /\ \/ current[u] # None
                         \/ \E v \in Thread : Leaves(job'[v], u)
                      /\ l.rx # None => /\ call[l.rx].at # "new"
                                        /\ pdn[call[l.rx].s].ue = u
    BY <1>4 DEF Accounted
  <2>1. \A v \in Thread : Leaves(job[v], u) => Leaves(job'[v], u)
    BY <1>5, <1>17
  <2> QED
    BY <1>9, <1>12, <2>1 DEF Accounted
<1>19. Provided(u)'
  <2>1. ASSUME NEW v \in Thread, Accepts(job'[v], u)
        PROVE  FALSE
    <3>1. v # t /\ job'[v] = job[v]
      BY <1>5, <1>17, <2>1
    <3>2. AtWork(job[v], u)
      BY <2>1, <3>1, ChangedKey DEF Accepts, Asks, AtWork
    <3> QED
      BY <1>6, <1>8, <3>1, <3>2, NobodyElse
  <2> QED
    BY <1>4, <1>13, <2>1 DEF Provided
<1>20. Borne(u)'
  <2>1. \A b \in Sure : pdn[b[1]].ue # u
    BY <1>9, <1>13, BearerUp
  <2> QED
    BY <1>4, <2>1 DEF Borne
<1> HIDE DEF Moved
<1> QED
  BY <1>7, <1>14, <1>15, <1>16, <1>17, <1>18, <1>19, <1>20, RightMove

LEMMA RightWrites ==
  ASSUME TypeInv, TypeInv', RowsInv, RowsInv', HomeInv, HomeInv', RightInv,
         NEW t \in Thread, Commit(t) \/ Delete(t)
  PROVE  RightInv'
<1> SUFFICES ASSUME Clean'
             PROVE  RightInv'
  BY DEF RightInv
<1>1. UNCHANGED cause
  BY DEF Commit, Delete, Writes
<1>2. Apart
  BY <1>1, Cleanly
<1>3. PICK j : Wrote(t, j)
  BY <1>2, Written
<1>4. CASE Commit(t)
  <2>1. job[t].kind \in {"set", "call"}
    BY <1>4, Typed DEF Commit, JobOK, PlaceOK
  <2> QED
    BY <1>3, <2>1, RightCopied, RightCommit
<1>5. CASE Delete(t)
  <2>1. PICK n \in Job : /\ Within(t, n) /\ n.old = job[t].old
                         /\ SameWork(n, job[t]) /\ n.kind \in {"clear", "sweep"}
    BY <1>5, DeleteJob
  <2>2. job'[t] = n
    BY <2>1, OneMinds DEF Within
  <2>3. job'[t] = j
    BY <1>3, OneMinds DEF Wrote
  <2>4. job[t].kind \in {"clear", "sweep"} /\ j.old = job[t].old
    BY <2>1, <2>2, <2>3 DEF SameWork
  <2> QED
    BY <1>3, <2>4, RightCopied, RightDelete
<1> QED
  BY <1>4, <1>5

LEMMA RightQueue ==
  ASSUME TypeInv, TypeInv', RowsInv, RowsInv', HomeInv, HomeInv', FreshInv,
         SyncInv, RightInv, NEW t \in Thread, QueueCopy(t)
  PROVE  RightInv'
<1> DEFINE o == job[t]
           A == SiteOf[t]
           j == GoesTo(o, After(o))
<1>1. /\ o.at = "copy" /\ job' = [job EXCEPT ![t] = j]
      /\ UNCHANGED <<outside, clock, rows, cause, requests, faults>>
  BY DEF QueueCopy, Goes, GoesTo
<1>2. /\ o \in Job /\ o.from = None /\ A \in Site
      /\ o.kind \in {"set", "clear", "call", "sweep"}
  BY <1>1, Typed, JobFields DEF JobOK, PlaceOK
<1>3. /\ After(o) \in Places
      /\ o.kind = "call" => After(o) = "send"
      /\ o.kind = "sweep" => After(o) = "sweep"
      /\ o.kind \in {"set", "clear"} => After(o) = "answer"
  BY <1>2 DEF After, Places
<1>4. j.at = After(o) /\ SameWork(j, o) /\ j.old = o.old /\ j.todo = o.todo
  BY <1>2, <1>3, JobGoes
<1> HIDE DEF j
<1>5. j.kind = o.kind /\ j.c = o.c /\ j.cols = o.cols /\ j.from = None
  BY <1>2, <1>4 DEF SameWork
<1>6. Keys(j) = Keys(o)
  BY <1>4, <1>5, SameKeys
<1>7. UNCHANGED <<pdn, current, call, bearers, Sure>>
  BY <1>1, SameSure DEF outside
<1>8. /\ job'[t] = j /\ \A v \in Thread \ {t} : job'[v] = job[v]
  BY <1>1, OneMinds
<1> SUFFICES ASSUME Clean'
             PROVE  RightInv'
  BY DEF RightInv
<1>9. /\ Clean /\ Apart /\ Sound
  BY <1>1, Cleanly
<1>10. PICK u \in Ue :
         /\ u = Changed(o) /\ AtWork(o, u)
         /\ \A g \in Site : \A k : k.ue # u =>
              (Will(rows', mail', g, k) <=> Will(rows, mail, g, k))
         /\ \A g \in Site : \A k : k.ue = u =>
              (Will(rows', mail', g, k) <=> Will(rows, mail, A, k))
         /\ \A k : k.ue = u =>
              (Will(rows, mail, A, k) <=>
                 o.kind \in {"set", "call"} /\ k = o.cols)
  BY <1>9, Queued
<1>11. /\ ClearRight(o, pdn, current) /\ AskRight(o, pdn, call)
       /\ CallRight(o, rows, mail, pdn, current, call)
       /\ IpRight /\ Accounted(u) /\ Provided(u) /\ Borne(u)
  BY <1>9, RightParts DEF RightNow, JobRight
<1>12. o.kind # "sweep" => o.cols.ue = u
  BY <1>1, <1>2, <1>10, <1>11 DEF Changed, ClearRight
<1>13. Moved(t, j, u)
  BY <1>1, <1>10 DEF Moved
<1>14. \A g \in Site : \A l : Will(rows', mail', g, l) =>
         \E h \in Site : Will(rows, mail, h, l)
  BY <1>2, <1>10
<1>15. Moves(u)
  BY <1>1, <1>10, <1>14, MovesWithin
<1>16. IpRight'
  <2> SUFFICES ASSUME NEW g \in Site, NEW l, Will(rows', mail', g, l),
                      NEW s \in 1 .. Len(pdn), pdn[s].at # "over",
                      pdn[s].ip = l.ip
               PROVE  pdn[s].ue = l.ue
    BY <1>7 DEF IpRight
  <2>1. PICK h \in Site : Will(rows, mail, h, l)
    BY <1>14
  <2> QED
    BY <1>11, <2>1 DEF IpRight
<1>17. JobRight(j, rows', mail', pdn', current', call', Sure')
  <2>1. ClearRight(j, pdn, current)
    BY <1>1, <1>2, <1>3, <1>4, <1>5, <1>6, <1>11 DEF ClearRight
  <2>2. AskRight(j, pdn, call) /\ StrRight(j, pdn, call, Sure)
    BY <1>1, <1>2, <1>5, <1>11 DEF AskRight, Asks, StrRight
  <2>3. CallRight(j, rows', mail', pdn, current, call)
    <3> SUFFICES ASSUME o.kind = "call"
                 PROVE  CallRight(j, rows', mail', pdn, current, call)
      BY <1>5 DEF CallRight
    <3>1. \A g \in Site : Will(rows', mail', g, o.cols)
      BY <1>10, <1>12
    <3> QED
      <4>1. /\ o.at = "copy" /\ j.at = "send" /\ j.kind = "call"
            /\ CallRight(o, rows, mail, pdn, current, call)
        BY <1>1, <1>3, <1>4, <1>5, <1>11
      <4> QED
        BY <1>5, <3>1, <4>1, Zenon DEF CallRight
  <2> QED
    BY <1>7, <2>1, <2>2, <2>3 DEF JobRight
<1>18. \A v \in Ue : v # u =>
         /\ Leaves(job[t], v) => Leaves(j, v)
         /\ Accepts(j, v) => Accepts(job[t], v)
  BY <1>5, <1>12 DEF Leaves, Accepts, Asks
<1>19. Accounted(u)'
  <2> SUFFICES ASSUME NEW g \in Site, NEW l, Will(rows', mail', g, l), l.ue = u
               PROVE  /\ \/ current[u] # None
                         \/ \E v \in Thread : Leaves(job'[v], u)
                      /\ l.rx # None => /\ call[l.rx].at # "new"
                                        /\ pdn[call[l.rx].s].ue = u
    BY <1>7 DEF Accounted
  <2>1. Will(rows, mail, A, l) /\ o.kind \in {"set", "call"}
    BY <1>10
  <2>2. \A v \in Thread : Leaves(job[v], u) => Leaves(job'[v], u)
    BY <1>3, <1>4, <1>5, <1>8, <2>1 DEF Leaves
  <2> QED
    BY <1>2, <1>11, <2>1, <2>2 DEF Accounted
<1>20. Provided(u)'
  <2>1. CASE o.kind \in {"set", "call"}
    BY <1>10, <1>12, <2>1 DEF Provided
  <2>2. CASE o.kind \in {"clear", "sweep"}
    <3>1. ~Up(pdn, current, u)
      BY <1>1, <1>2, <1>10, <1>11, <2>2, EmergencyAssumption
         DEF ClearRight, AtWork
    <3>2. ASSUME NEW v \in Thread, Accepts(job'[v], u)
          PROVE  FALSE
      <4>1. v # t /\ job'[v] = job[v]
        BY <1>5, <1>8, <2>2, <3>2 DEF Accepts, Asks
      <4>2. AtWork(job[v], u)
        BY <3>2, <4>1, ChangedKey DEF Accepts, Asks, AtWork
      <4> QED
        BY <1>9, <1>10, <4>1, <4>2, NobodyElse
    <3> QED
      BY <1>7, <3>1, <3>2 DEF Provided
  <2> QED
    BY <1>2, <2>1, <2>2
<1>21. Borne(u)'
  <2> SUFFICES ASSUME NEW b \in Sure, pdn[b[1]].ue = u, NEW g \in Site
               PROVE  /\ call[b[2]].at # "over" /\ pdn[b[1]].at = "up"
                      /\ current[u] = b[1]
                      /\ \E l : /\ Will(rows', mail', g, l)
                                /\ l.s = b[1] /\ l.rx = b[2]
    BY <1>2, <1>7 DEF Borne
  <2>1. /\ call[b[2]].at # "over" /\ pdn[b[1]].at = "up" /\ current[u] = b[1]
        /\ \E l : Will(rows, mail, A, l) /\ l.s = b[1] /\ l.rx = b[2]
    BY <1>2, <1>11 DEF Borne
  <2>2. PICK l : Will(rows, mail, A, l) /\ l.s = b[1] /\ l.rx = b[2]
    BY <2>1
  <2>3. l.ue = u
    BY <1>2, <1>9, <2>2, WillTyped DEF Exact
  <2> QED
    BY <1>10, <2>1, <2>2, <2>3
<1> HIDE DEF Moved
<1> QED
  BY <1>13, <1>15, <1>16, <1>17, <1>18, <1>19, <1>20, <1>21, RightMove

\* A RAR: which of the bearers the PGW has answered for there are then.
LEMMA SentSure ==
  ASSUME TypeInv, NEW t \in Thread, Sent(t)
  PROVE  LET o == job[t] IN
         /\ \A b \in Sure' :
              \/ b \in Sure
              \/ /\ b[1] = o.cols.s /\ b[2] = o.c /\ o.kind = "call"
                 /\ pdn[o.cols.s].at = "up"
         /\ o.kind = "str" =>
              \A b \in Sure' : b[2] = o.c => b[1] # o.cols.s
<1> DEFINE o == job[t]
           s == o.cols.s
<1>1. bearers \subseteq Bearer /\ o.kind \in {"call", "str"}
  BY SentIs DEF TypeInv, TypeOK
<1>2. \/ o.kind = "call" /\ bearers' = bearers
      \/ bearers' = BearerAfter(o)
      \/ bearers' = bearers \cup OnItsWay(o)
  BY DEF Sent, Send, SendFails
<1> HIDE DEF o
<1>3. CASE o.kind = "str"
  <2>1. CASE bearers' = bearers \
                        {<<s, o.c, "up">>, <<s, o.c, "late">>}
    BY <1>1, <1>3, <2>1 DEF Sure, Bearer, o
  <2>2. CASE bearers' = bearers \cup OnItsWay(o)
    <3>1. /\ \A b \in OnItsWay(o) : b[3] = "remove"
          /\ \A b \in bearers : b[1] = s /\ b[2] = o.c =>
               <<b[1], b[2], "remove">> \in OnItsWay(o)
      BY <1>3 DEF OnItsWay
    <3> QED
      BY <1>3, <2>2, <3>1 DEF Sure, o
  <2> QED
    BY <1>2, <1>3, <2>1, <2>2 DEF BearerAfter
<1>4. CASE o.kind = "call"
  <2>1. \A b \in bearers' :
          \/ b \in bearers \/ b[3] # "up"
          \/ b[1] = s /\ b[2] = o.c /\ pdn[s].at = "up"
    BY <1>2, <1>4 DEF BearerAfter, OnItsWay
  <2>2. bearers \subseteq bearers'
    BY <1>2, <1>4 DEF BearerAfter
  <2> QED
    BY <1>4, <2>1, <2>2 DEF Sure, o
<1> QED
  BY <1>1, <1>3, <1>4

LEMMA RightSent ==
  ASSUME TypeInv, TypeInv', RowsInv, RowsInv', HomeInv, HomeInv', FreshInv,
         RightInv, NEW t \in Thread, Sent(t)
  PROVE  RightInv'
<1> DEFINE o == job[t]
           c == o.c
<1>0. PICK ok \in BOOLEAN : job' = [job EXCEPT ![t] = Answered(o, ok)]
  BY SentIs
<1> DEFINE j == Answered(o, ok)
<1>1. /\ o.at = "send" /\ job' = [job EXCEPT ![t] = j]
      /\ UNCHANGED <<pdn, current, call, rows, mail, cause>>
      /\ o.kind \in {"call", "str"} /\ o.from = None /\ Real(o.cols, pdn)
      /\ o \in Job /\ pdn \in Seq(Pdn)
  BY <1>0, SentIs, Typed
<1>2. j.at = "answer" /\ SameWork(j, o)
  BY <1>1, JobAnswers
<1> HIDE DEF j
<1>3. j.kind = o.kind /\ j.c = o.c /\ j.cols = o.cols /\ j.from = None
  BY <1>1, <1>2 DEF SameWork
<1>4. /\ job'[t] = j /\ \A v \in Thread \ {t} : job'[v] = job[v]
  BY <1>1, OneMinds
<1>5. PICK u \in Ue : u = o.cols.ue
  BY <1>1 DEF Real
<1>6. Moved(t, j, u)
  <2>1. AtWork(o, u)
    BY <1>1, <1>5, ChangedKey DEF AtWork
  <2> QED
    BY <1>1, <2>1 DEF Moved
<1>7. \A g \in Site : \A l : Will(rows', mail', g, l) <=> Will(rows, mail, g, l)
  BY <1>1
<1> SUFFICES ASSUME Clean'
             PROVE  RightInv'
  BY DEF RightInv
<1>8. /\ Clean /\ Sound /\ Apart
  BY <1>1, Cleanly
<1>9. /\ CallRight(o, rows, mail, pdn, current, call)
      /\ StrRight(o, pdn, call, Sure)
      /\ IpRight /\ Accounted(u) /\ Provided(u) /\ Borne(u)
  BY <1>8, RightParts DEF RightNow, JobRight
<1>10. \A b \in Sure' :
         \/ b \in Sure
         \/ /\ b[1] = o.cols.s /\ b[2] = c /\ o.kind = "call"
            /\ pdn[o.cols.s].at = "up"
  BY SentSure
<1>11. o.kind = "call" => pdn[o.cols.s].ue = u
  BY <1>1, <1>5, <1>8 DEF RowsInv, ExactInv, ExactJob, Exact
<1>12. Moves(u)
  <2>1. Grows(pdn, pdn')
    BY <1>1, SameSessions
  <2>2. \A b \in Sure' : b \in Sure \/ pdn'[b[1]].ue = u
    BY <1>1, <1>10, <1>11
  <2> QED
    BY <1>1, <1>7, <2>1, <2>2 DEF Moves
<1>13. IpRight'
  BY <1>1, <1>7, <1>9 DEF IpRight
<1>14. JobRight(j, rows', mail', pdn', current', call', Sure')
  <2>1. ClearRight(j, pdn, current) /\ AskRight(j, pdn, call)
    BY <1>1, <1>3 DEF ClearRight, AskRight, Asks
  <2>2. CallRight(j, rows, mail, pdn, current, call)
    BY <1>2, <1>3, <1>9, Zenon DEF CallRight
  <2>3. StrRight(j, pdn, call, Sure')
    <3> SUFFICES ASSUME o.kind = "str"
                 PROVE  StrRight(j, pdn, call, Sure')
      BY <1>3 DEF StrRight
    <3>1. ASSUME NEW b \in Sure', b[2] = c
          PROVE  FALSE
      <4>1. b \in Sure /\ b[1] # o.cols.s
        BY <3>1, SentSure
      <4> QED
        BY <1>1, <1>9, <3>1, <4>1 DEF StrRight
    <3> QED
      BY <1>2, <1>3, <1>9, <3>1 DEF StrRight
  <2>4. JobRight(j, rows, mail, pdn, current, call, Sure')
    BY <2>1, <2>2, <2>3 DEF JobRight
  <2> QED
    BY <1>1, <2>4
<1>15. \A v \in Ue : ~Leaves(o, v) /\ ~Accepts(j, v)
  BY <1>1, <1>3 DEF Leaves, Accepts, Asks
<1>16. Accounted(u)' /\ Provided(u)'
  <2>1. \A v \in Thread : /\ Leaves(job[v], u) => Leaves(job'[v], u)
                          /\ Accepts(job'[v], u) => Accepts(job[v], u)
    BY <1>4, <1>15
  <2>2. Accounted(u)'
    BY <1>1, <1>7, <1>9, <2>1 DEF Accounted
  <2>3. Provided(u)'
    BY <1>1, <1>7, <1>9, <2>1 DEF Provided
  <2> QED
    BY <2>2, <2>3
<1>17. Borne(u)'
  <2> SUFFICES ASSUME NEW b \in Sure', pdn[b[1]].ue = u
               PROVE  /\ call[b[2]].at # "over" /\ pdn[b[1]].at = "up"
                      /\ current[u] = b[1]
                      /\ \A g \in Site : \E l : /\ Will(rows, mail, g, l)
                                                /\ l.s = b[1] /\ l.rx = b[2]
    BY <1>1 DEF Borne
  <2>1. CASE b \in Sure
    BY <1>9, <2>1 DEF Borne
  <2>2. CASE b \notin Sure
    <3>1. /\ b[1] = o.cols.s /\ b[2] = c /\ o.kind = "call"
          /\ pdn[o.cols.s].at = "up"
      BY <1>10, <2>2
    <3>2. o.cols.s = call[c].s
      <4>1. JobFresh(o, rows[SiteOf[t]], pdn, call)
        BY <1>8, FreshParts DEF JobsFresh
      <4> QED
        BY <1>1, <3>1, <4>1 DEF JobFresh
    <3>3. /\ call[c].at # "over" /\ current[u] = call[c].s /\ o.cols.rx = c
          /\ \A g \in Site : Will(rows, mail, g, o.cols)
      BY <1>1, <1>5, <1>9, <3>1 DEF CallRight
    <3> QED
      BY <3>1, <3>2, <3>3
  <2> QED
    BY <2>1, <2>2
<1> HIDE DEF Moved
<1> QED
  BY <1>6, <1>12, <1>13, <1>14, <1>15, <1>16, <1>17, RightMove

\* What the answer changes: the session that was asked for, or the call.
LEMMA AnswerParts ==
  ASSUME TypeInv, NEW t \in Thread, Answer(t)
  PROVE  LET o == job[t] IN
         /\ o.at = "answer" /\ job' = [job EXCEPT ![t] = Sweeper(t)]
         /\ UNCHANGED <<bearers, Sure, rows, mail, cause>>
         /\ o.from = None /\ Real(o.cols, pdn) /\ o.kind # "sweep"
         /\ o.kind = "set" /\ o.ok =>
              /\ UNCHANGED call /\ Len(pdn') = Len(pdn)
              /\ current' = [current EXCEPT ![o.cols.ue] = o.cols.s]
              /\ \A i \in 1 .. Len(pdn) :
                   pdn'[i].at = IF i = o.cols.s THEN "up" ELSE pdn[i].at
         /\ o.kind # "set" => UNCHANGED <<pdn, current>>
         /\ \A c \in Call :
              \/ call'[c] = call[c]
              \/ /\ c = o.c /\ o.kind \in {"call", "str"}
                 /\ call'[c].at = "over" => o.kind = "str"
<1> DEFINE o == job[t]
           s == o.cols.s
<1>1. /\ o.at = "answer" /\ job' = [job EXCEPT ![t] = Sweeper(t)]
      /\ UNCHANGED <<bearers, Sure, rows, mail, cause>>
      /\ o.from = None /\ Real(o.cols, pdn) /\ o.kind # "sweep"
  BY Typed, SameSure DEF Answer, Becomes, JobOK, PlaceOK
<1>2. o.kind # "set" => UNCHANGED <<pdn, current>>
  BY DEF Answer
<1>3. ASSUME o.kind = "set", o.ok
      PROVE  /\ UNCHANGED call /\ Len(pdn') = Len(pdn)
             /\ current' = [current EXCEPT ![o.cols.ue] = s]
             /\ \A i \in 1 .. Len(pdn) :
                  pdn'[i].at = IF i = s THEN "up" ELSE pdn[i].at
  <2>1. pdn' = [pdn EXCEPT ![s].at = "up"] /\ pdn \in Seq(Pdn)
    BY <1>3 DEF Answer, TypeInv, TypeOK
  <2>2. UNCHANGED call /\ current' = [current EXCEPT ![o.cols.ue] = s]
    BY <1>3 DEF Answer
  <2> HIDE DEF s
  <2>3. /\ Len(pdn') = Len(pdn)
        /\ \A i \in 1 .. Len(pdn) :
             pdn'[i].at = IF i = s THEN "up" ELSE pdn[i].at
    BY <2>1, PdnChanged
  <2> QED
    BY <2>2, <2>3
<1>4. \A c \in Call :
        \/ call'[c] = call[c]
        \/ /\ c = o.c /\ o.kind \in {"call", "str"}
           /\ call'[c].at = "over" => o.kind = "str"
  <2> SUFFICES ASSUME NEW c \in Call, call'[c] # call[c]
               PROVE  /\ c = o.c /\ o.kind \in {"call", "str"}
                      /\ call'[c].at = "over" => o.kind = "str"
    OBVIOUS
  <2>1. call \in [Call -> CallType]
    BY DEF TypeInv, TypeOK, CallType
  <2>2. \/ o.kind = "str" /\ call' = [call EXCEPT ![o.c].at = "over"]
        \/ /\ o.kind = "call"
           /\ \E at \in {"up", "refused"} : call' = [call EXCEPT ![o.c].at = at]
    BY DEF Answer
  <2> QED
    BY <2>1, <2>2 DEF CallType
<1> QED
  BY <1>1, <1>2, <1>3, <1>4

LEMMA RightAnswer ==
  ASSUME TypeInv, TypeInv', RowsInv, RowsInv', HomeInv, HomeInv', FreshInv,
         RightInv, NEW t \in Thread, Answer(t)
  PROVE  RightInv'
<1> DEFINE o == job[t]
           s == o.cols.s
           c == o.c
           j == Sweeper(t)
<1>1. /\ o.at = "answer" /\ job' = [job EXCEPT ![t] = j]
      /\ UNCHANGED <<bearers, Sure, rows, mail, cause>>
      /\ o.from = None /\ Real(o.cols, pdn)
      /\ o.kind \in {"set", "clear", "call", "str"}
      /\ o.kind # "set" => UNCHANGED <<pdn, current>>
      /\ \A d \in Call :
           \/ call'[d] = call[d]
           \/ /\ d = c /\ o.kind \in {"call", "str"}
              /\ call'[d].at = "over" => o.kind = "str"
  BY AnswerParts, Typed, JobFields
<1>2. /\ Grows(pdn, pdn')
      /\ \A d \in Call : /\ call'[d].s = call[d].s
                         /\ call'[d].at = "new" <=> call[d].at = "new"
  BY AnswerOutside
<1>3. PICK u \in Ue : u = o.cols.ue
  BY <1>1 DEF Real
<1>4. /\ \A R, M, p, n, k, B : JobRight(j, R, M, p, n, k, B)
      /\ \A v : ~Leaves(j, v) /\ ~Accepts(j, v)
  BY NothingAtHand
<1>5. /\ job'[t] = j /\ \A v \in Thread \ {t} : job'[v] = job[v]
  BY <1>1, OneMinds
<1> HIDE DEF j
<1>6. Moved(t, j, u)
  <2>1. AtWork(o, u)
    BY <1>1, <1>3, ChangedKey DEF AtWork
  <2> QED
    BY <1>1, <2>1 DEF Moved
<1>7. \A g \in Site : \A l : Will(rows', mail', g, l) <=> Will(rows, mail, g, l)
  BY <1>1
<1> SUFFICES ASSUME Clean'
             PROVE  RightInv'
  BY DEF RightInv
<1>8. /\ Clean /\ Sound /\ Apart
  BY <1>1, Cleanly
<1>9. /\ AskRight(o, pdn, call) /\ CallRight(o, rows, mail, pdn, current, call)
      /\ StrRight(o, pdn, call, Sure)
      /\ IpRight /\ Accounted(u) /\ Provided(u) /\ Borne(u)
  BY <1>8, RightParts DEF RightNow, JobRight
<1>10. \A d \in Call : call[d].at # "new" =>
         call[d].s \in 1 .. Len(pdn) /\ pdn'[call'[d].s].ue = pdn[call[d].s].ue
  BY <1>2 DEF TypeInv, CallInv, Grows
<1>11. \A l, g : Will(rows, mail, g, l) /\ g \in Site => l.rx \in Call \cup {None}
  BY <1>8, WillTyped DEF Columns
<1>12. \A b \in Sure : /\ b[1] \in 1 .. Len(pdn) /\ b[2] \in Call
                          /\ call[b[2]].at # "new"
                          /\ pdn'[b[1]].ue = pdn[b[1]].ue
                          /\ pdn[call[b[2]].s].ue = pdn[b[1]].ue
  <2>1. \A b \in Sure : /\ b[1] \in 1 .. Len(pdn) /\ b[2] \in Call
                           /\ call[b[2]].at # "new"
    BY SureBearers
  <2>2. \A b \in Sure : pdn[call[b[2]].s].ue = pdn[b[1]].ue
    BY <1>8, SureBearers DEF AtHome
  <2> QED
    BY <1>2, <2>1, <2>2 DEF Grows
<1> HIDE DEF o, Moved
<1>13. CASE o.kind = "clear"
  <2>1. Within(t, j)
    <3>1. UNCHANGED call
      BY <1>13 DEF Answer, o
    <3> QED
      BY <1>1, <1>13, <3>1 DEF Within, outside
  <2>2. \A v \in Ue : ~Leaves(o, v)
    BY <1>1, <1>13 DEF Leaves
  <2>3. SameView
    BY <1>7 DEF SameView
  <2> QED
    BY <1>4, <2>1, <2>2, <2>3, RightSame DEF o
<1>14. CASE o.kind \in {"call", "str"}
  <2>1. c \in Call /\ call[c].at # "new" /\ pdn[call[c].s].ue = u
    <3>1. c \in Call /\ call[c].at # "new"
      BY <1>14, Typed DEF JobOK, PlaceOK, TypeInv, CallInv, o
    <3> QED
      BY <1>3, <1>9, <1>14, <3>1 DEF CallRight, StrRight
  <2>2. UNCHANGED <<pdn, current>>
    BY <1>1, <1>14
  <2>3. Moves(u)
    BY <1>1, <1>2, <1>7, <1>10, <2>1, <2>2 DEF Moves
  <2>4. IpRight'
    BY <1>7, <1>9, <2>2 DEF IpRight
  <2>5. \A v : ~Leaves(o, v)
    BY <1>14 DEF Leaves
  <2>6. \A v \in Thread : /\ Leaves(job[v], u) => Leaves(job'[v], u)
                          /\ Accepts(job'[v], u) => Accepts(job[v], u)
    BY <1>4, <1>5, <2>5 DEF o
  <2>7. Accounted(u)'
    <3> SUFFICES ASSUME NEW g \in Site, NEW l, Will(rows, mail, g, l), l.ue = u
                 PROVE  /\ \/ current[u] # None
                           \/ \E v \in Thread : Leaves(job'[v], u)
                        /\ l.rx # None => /\ call'[l.rx].at # "new"
                                          /\ pdn'[call'[l.rx].s].ue = u
      BY <1>7, <2>2 DEF Accounted
    <3>1. /\ current[u] # None \/ \E v \in Thread : Leaves(job[v], u)
          /\ l.rx # None => call[l.rx].at # "new" /\ pdn[call[l.rx].s].ue = u
      BY <1>9 DEF Accounted
    <3> QED
      BY <1>2, <1>10, <1>11, <2>6, <3>1
  <2>8. Provided(u)'
    BY <1>7, <1>9, <2>2, <2>6 DEF Provided
  <2>9. Borne(u)'
    <3> SUFFICES ASSUME NEW b \in Sure, pdn[b[1]].ue = u
                 PROVE  /\ call'[b[2]].at # "over" /\ pdn[b[1]].at = "up"
                        /\ current[u] = b[1]
                        /\ \A g \in Site : \E l : /\ Will(rows, mail, g, l)
                                                  /\ l.s = b[1] /\ l.rx = b[2]
      BY <1>1, <1>7, <2>2 DEF Borne
    <3>1. /\ call[b[2]].at # "over" /\ pdn[b[1]].at = "up"
          /\ current[u] = b[1]
          /\ \A g \in Site : \E l : /\ Will(rows, mail, g, l)
                                    /\ l.s = b[1] /\ l.rx = b[2]
      BY <1>9 DEF Borne
    <3>2. call'[b[2]].at # "over"
      BY <1>1, <1>9, <1>12, <1>14, <3>1 DEF StrRight
    <3> QED
      BY <3>1, <3>2
  <2>10. JobRight(j, rows', mail', pdn', current', call', Sure')
    BY <1>4
  <2> QED
    BY <1>4, <1>6, <2>3, <2>4, <2>5, <2>7, <2>8, <2>9, <2>10, RightMove DEF o
<1>15. CASE o.kind = "set"
  <2>1. Asks(o) /\ pdn[s].at = "asked" /\ s \in 1 .. Len(pdn) /\ pdn[s].ue = u
    <3>1. Asks(o)
      BY <1>1, <1>15 DEF Asks
    <3>2. Exact(o.cols, pdn)
      BY <1>1, <1>8, <1>15 DEF RowsInv, ExactInv, ExactJob, o
    <3> QED
      BY <1>3, <1>8, <3>1, <3>2 DEF HomeInv, AskedInv, Exact, Real, o
  <2>2. /\ UNCHANGED call /\ Len(pdn') = Len(pdn)
        /\ current' = [current EXCEPT ![u] = s]
        /\ \A i \in 1 .. Len(pdn) :
             pdn'[i].at = IF i = s THEN "up" ELSE pdn[i].at
    <3>1. JobFresh(o, rows[SiteOf[t]], pdn, call)
      BY <1>8, FreshParts DEF JobsFresh, o
    <3>2. o.ok
      BY <2>1, <3>1 DEF JobFresh
    <3> QED
      BY <1>3, <1>15, <3>2, AnswerParts DEF o
  <2>3. /\ current'[u] = s /\ s # None
        /\ \A v \in Ue : v # u => current'[v] = current[v]
    BY <2>1, <2>2, EmergencyAssumption DEF TypeInv, TypeOK
  <2>4. \A b \in Sure : pdn[b[1]].ue # u
    <3> SUFFICES ASSUME NEW b \in Sure, pdn[b[1]].ue = u
                 PROVE  FALSE
      OBVIOUS
    <3>1. call[b[2]].at # "over"
      BY <1>9, BearerUp
    <3>2. b[2] \in OnCalls(pdn, call, u)
      BY <1>12, <3>1 DEF OnCalls
    <3> QED
      BY <1>3, <1>9, <2>1, <3>2 DEF AskRight
  <2>5. Moves(u)
    <3>1. \A i \in 1 .. Len(pdn) : pdn'[i].at = pdn[i].at \/ pdn[i].ue = u
      BY <2>1, <2>2
    <3> QED
      BY <1>1, <1>2, <1>7, <2>2, <2>3, <3>1 DEF Moves
  <2>6. IpRight'
    <3> SUFFICES ASSUME NEW g \in Site, NEW l, Will(rows, mail, g, l),
                        NEW i \in 1 .. Len(pdn), pdn'[i].at # "over",
                        pdn'[i].ip = l.ip
                 PROVE  pdn'[i].ue = l.ue
      BY <1>7, <2>2 DEF IpRight
    <3>1. pdn[i].at # "over"
      BY <2>1, <2>2
    <3>2. pdn'[i].ip = pdn[i].ip /\ pdn'[i].ue = pdn[i].ue
      BY <1>2 DEF Grows
    <3> QED
      BY <1>9, <3>1, <3>2 DEF IpRight
  <2>7. Accounted(u)'
    <3> SUFFICES ASSUME NEW g \in Site, NEW l, Will(rows, mail, g, l), l.ue = u,
                        l.rx # None
                 PROVE  call'[l.rx].at # "new" /\ pdn'[call'[l.rx].s].ue = u
      BY <1>7, <2>3 DEF Accounted
    <3>1. call[l.rx].at # "new" /\ pdn[call[l.rx].s].ue = u
      BY <1>9 DEF Accounted
    <3> QED
      BY <1>2, <1>10, <1>11, <3>1
  <2>8. Provided(u)'
    <3>1. Accepts(o, u)
      BY <1>1, <1>3, <2>1 DEF Accepts
    <3>2. \A g \in Site : \E l : l.ue = u /\ Will(rows, mail, g, l)
      BY <1>9, <3>1 DEF Provided, o
    <3> QED
      BY <1>7, <3>2 DEF Provided
  <2>9. Borne(u)'
    BY <1>1, <1>12, <2>4 DEF Borne
  <2>10. \A v \in Ue : v # u => ~Leaves(o, v)
    BY <1>3 DEF Leaves
  <2>11. JobRight(j, rows', mail', pdn', current', call', Sure')
    BY <1>4
  <2> QED
    BY <1>4, <1>6, <2>5, <2>6, <2>7, <2>8, <2>9, <2>10, <2>11, RightMove DEF o
<1> QED
  BY <1>1, <1>13, <1>14, <1>15 DEF o

LEMMA CcrIClean ==
  ASSUME NEW t, CcrI(t), Clean'
  PROVE  \E u \in Ue, ip \in Ip : Connects(t, u, ip)
<1>1. PICK u \in Ue, ip \in Ip :
        /\ Request(t, Handler("find", "set", Filled(Len(pdn) + 1, u, ip),
                              None, None),
                   (IF \E h \in Site : \E x \in rows[h] :
                         x.cols.ip = ip /\ x.cols.ue # u
                    THEN {"reused"} ELSE {})
                   \cup (IF Calls(u) # {} THEN {"anew"} ELSE {}))
        /\ pdn' = Append(pdn, [ue |-> u, ip |-> ip, at |-> "asked"])
        /\ UNCHANGED <<current, call, bearers>>
  BY DEF CcrI
<1> DEFINE j == Handler("find", "set", Filled(Len(pdn) + 1, u, ip), None, None)
<1>2. /\ ~Busy(t) /\ job' = [job EXCEPT ![t] = j]
      /\ UNCHANGED <<clock, rows, mail>> /\ cause \subseteq cause'
      /\ Calls(u) # {} => "anew" \in cause'
      /\ (\E h \in Site : \E x \in rows[h] : x.cols.ip = ip /\ x.cols.ue # u)
           => "reused" \in cause'
  BY <1>1 DEF Request, Begin, Blame
<1> HIDE DEF j
<1>3. /\ Calls(u) = {}
      /\ \A h \in Site : \A x \in rows[h] : x.cols.ip = ip => x.cols.ue = u
  BY <1>2 DEF Clean
<1> QED
  BY <1>1, <1>2, <1>3 DEF j, Connects

\* The UE that gets an address is the only one that will have it in a row.
LEMMA IpAsked ==
  ASSUME TypeInv, TypeInv', RowsInv, RowsInv', SyncInv, Sound, Apart, Apart',
         NEW t \in Thread, NEW j, ~Busy(t), job' = [job EXCEPT ![t] = j],
         j.at # "idle", j.from = None, j.cols.ue \in Ue, j.cols.ip \in Ip,
         UNCHANGED <<rows, mail>>,
         \A h \in Site : \A x \in rows[h] :
           x.cols.ip = j.cols.ip => x.cols.ue = j.cols.ue,
         NEW g \in Site, NEW l, Will(rows, mail, g, l), l.ip = j.cols.ip
  PROVE  l.ue = j.cols.ue
<1> DEFINE A == SiteOf[t]
<1>1. /\ job'[t] = j /\ \A v \in Thread \ {t} : job'[v] = job[v]
  BY OneMinds
<1>2. <<j.cols.ue, j.cols.ip>> \in Keys(j) /\ j.cols.ip # None /\ A \in Site
  BY KeysOf, Typed, EmergencyAssumption
<1>3. \A K : <<l.ue, l.ip>> \in K => Conflict(Keys(j), K)
  <2> SUFFICES ASSUME NEW K, <<l.ue, l.ip>> \in K
               PROVE  Conflict(Keys(j), K)
    OBVIOUS
  <2>1. <<j.cols.ue, j.cols.ip>>[2] = <<l.ue, l.ip>>[2]
    OBVIOUS
  <2> QED
    BY <1>2, <2>1 DEF Conflict
<1>4. CASE Copying(job, l.ue)
  <2>1. PICK v \in Thread : job[v].at = "copy" /\ Changed(job[v]) = l.ue
    BY <1>4 DEF Copying
  <2>2. <<l.ue, l.ip>> \in Keys(job[v])
    BY <2>1, SyncParts DEF CopyingOK
  <2>3. v # t /\ job'[v] = job[v] /\ job[v].from = None
    BY <1>1, <2>1, Typed DEF Busy, JobOK, PlaceOK
  <2>4. ~Conflict(Keys(job'[t]), Keys(job'[v]))
    BY <1>1, <2>1, <2>3 DEF RowsInv, ApartInv, Busy
  <2> QED
    BY <1>1, <1>3, <2>2, <2>3, <2>4
<1>5. CASE ~Copying(job, l.ue)
  <2>1. Will(rows, mail, A, l)
    BY <1>2, <1>5, SyncParts DEF Agreed
  <2>2. CASE Has(rows, A, l)
    BY <1>2, <2>2 DEF Has
  <2>3. CASE Announced(mail, A, l)
    <3>1. PICK h \in Site : SaidBy(mail[h][A], l)
      BY <2>3 DEF Announced
    <3>2. PICK i \in 1 .. Len(mail[h][A]) : mail[h][A][i].cols = l
      BY <3>1 DEF SaidBy, Sets
    <3>3. h # A
      <4>1. mail[A][A] = << >>
        BY <1>2 DEF TypeInv
      <4> QED
        BY <3>2, <4>1, EmptySeq
    <3>4. ~Conflict(Keys(job'[t]), {<<l.ue, l.ip>>})
      <4>1. LET c == mail'[h][A][i].cols
            IN  ~Conflict(Keys(job'[t]), {<<c.ue, c.ip>>})
        <5>1. Busy(t)' /\ job'[t].from = None /\ mail' = mail /\ MailInv'
          BY <1>1 DEF RowsInv, Busy
        <5> HIDE DEF A
        <5> QED
          BY <1>2, <3>2, <3>3, <5>1 DEF MailInv, A
      <4>2. mail'[h][A][i].cols = l
        BY <3>2
      <4> QED
        BY <4>1, <4>2
    <3> QED
      BY <1>1, <1>3, <3>4
  <2> QED
    BY <2>1, <2>2, <2>3 DEF Will
<1> QED
  BY <1>4, <1>5

LEMMA RightCcrI ==
  ASSUME TypeInv, TypeInv', RowsInv, RowsInv', HomeInv, HomeInv', SyncInv,
         RightInv, NEW t \in Worker, CcrI(t)
  PROVE  RightInv'
<1> SUFFICES ASSUME Clean'
             PROVE  RightInv'
  BY DEF RightInv
<1>1. PICK u \in Ue, ip \in Ip : Connects(t, u, ip)
  BY CcrIClean
<1> DEFINE s == Len(pdn) + 1
           j == Handler("find", "set", Filled(s, u, ip), None, None)
<1>2. /\ t \in Thread /\ ~Busy(t) /\ job' = [job EXCEPT ![t] = j]
      /\ pdn' = Append(pdn, [ue |-> u, ip |-> ip, at |-> "asked"])
      /\ UNCHANGED <<current, call, bearers, Sure, clock, rows, mail>>
      /\ cause \subseteq cause' /\ Calls(u) = {}
      /\ \A h \in Site : \A x \in rows[h] : x.cols.ip = ip => x.cols.ue = u
  BY <1>1, SameSure DEF Thread, Connects
<1>3. /\ j.at = "find" /\ j.kind = "set" /\ j.from = None
      /\ j.cols.ue = u /\ j.cols.ip = ip /\ j.cols.rx = None /\ s \in Nat
  <2>1. s \in Session /\ s \in Nat
    BY <1>2, Typed DEF Session
  <2>2. Filled(s, u, ip) \in Columns /\ Filled(s, u, ip).rx = None
    BY <2>1, FilledOK DEF Filled
  <2>3. Filled(s, u, ip).ue = u /\ Filled(s, u, ip).ip = ip
    BY DEF Filled
  <2> QED
    BY <2>1, <2>2, <2>3 DEF Handler
<1> HIDE DEF j
<1>4. /\ job'[t] = j /\ \A v \in Thread \ {t} : job'[v] = job[v]
  BY <1>2, OneMinds
<1>5. /\ Clean /\ Sound /\ Apart /\ Apart'
  BY <1>2, Cleanly
<1>6. /\ IpRight /\ Accounted(u) /\ Provided(u) /\ Borne(u)
  BY <1>5, RightParts
<1>7. Moved(t, j, u)
  <2>1. AtWork(j, u)
    BY <1>3, ChangedKey DEF AtWork
  <2> QED
    BY <1>2, <2>1 DEF Moved
<1>8. \A v : ~Leaves(job[t], v) /\ ~Accepts(j, v)
  BY <1>2, <1>3 DEF Leaves, Accepts, Busy
<1>9. /\ Len(pdn') = s /\ Grows(pdn, pdn') /\ pdn'[s].ue = u /\ pdn'[s].ip = ip
      /\ \A i \in 1 .. Len(pdn) : pdn'[i] = pdn[i]
      /\ \A i \in 1 .. Len(pdn') : i \in 1 .. Len(pdn) \/ i = s
  <2>1. pdn \in Seq(Pdn)
    BY DEF TypeInv, TypeOK
  <2>2. /\ Len(pdn') = s /\ Grows(pdn, pdn')
        /\ \A i \in 1 .. Len(pdn) : pdn'[i] = pdn[i]
        /\ pdn'[s] = [ue |-> u, ip |-> ip, at |-> "asked"]
    BY <1>2, <2>1, PdnAsked
  <2>3. Len(pdn) \in Nat
    BY <2>1
  <2>4. \A i \in 1 .. Len(pdn') : i \in 1 .. Len(pdn) \/ i = s
    BY <2>2, <2>3
  <2> QED
    BY <2>2, <2>4
<1> HIDE DEF s
<1>10. \A d \in Call : call[d].at # "new" =>
         call[d].s \in 1 .. Len(pdn) /\ pdn'[call'[d].s].ue = pdn[call[d].s].ue
  BY <1>2, <1>9 DEF TypeInv, CallInv
<1>11. \A g \in Site : \A l : Will(rows', mail', g, l) <=> Will(rows, mail, g, l)
  BY <1>2
<1>12. Moves(u)
  BY <1>2, <1>9, <1>11 DEF Moves
<1>13. IpRight'
  <2> SUFFICES ASSUME NEW g \in Site, NEW l, Will(rows, mail, g, l),
                      NEW i \in 1 .. Len(pdn'), pdn'[i].at # "over",
                      pdn'[i].ip = l.ip
               PROVE  pdn'[i].ue = l.ue
    BY <1>11 DEF IpRight
  <2>1. CASE i = s
    <3>1. /\ j.at # "idle" /\ j.from = None /\ j.cols.ue \in Ue
          /\ j.cols.ip \in Ip /\ l.ip = j.cols.ip /\ pdn'[i].ue = j.cols.ue
          /\ \A h \in Site : \A x \in rows[h] :
               x.cols.ip = j.cols.ip => x.cols.ue = j.cols.ue
      BY <1>2, <1>3, <1>9, <2>1
    <3>2. ~Busy(t) /\ job' = [job EXCEPT ![t] = j] /\ UNCHANGED <<rows, mail>>
      BY <1>2
    <3>3. l.ue = j.cols.ue
      BY <1>2, <1>5, <3>1, <3>2, IpAsked
    <3> QED
      BY <3>1, <3>3
  <2>2. CASE i \in 1 .. Len(pdn)
    BY <1>6, <1>9, <2>2 DEF IpRight
  <2> QED
    BY <1>9, <2>1, <2>2
<1>14. JobRight(j, rows', mail', pdn', current', call', Sure')
  <2>1. OnCalls(pdn', call', u) = {}
    <3>1. OnCalls(pdn', call', u) = Calls(u)
      BY <1>2, <1>10 DEF OnCalls, Calls
    <3> QED
      BY <1>2, <3>1
  <2> QED
    BY <1>3, <2>1 DEF JobRight, ClearRight, AskRight, CallRight, StrRight
<1>15. \A v \in Thread : /\ Leaves(job[v], u) => Leaves(job'[v], u)
                         /\ Accepts(job'[v], u) => Accepts(job[v], u)
  BY <1>4, <1>8
<1>16. Accounted(u)'
  <2> SUFFICES ASSUME NEW g \in Site, NEW l, Will(rows, mail, g, l), l.ue = u
               PROVE  /\ \/ current[u] # None
                         \/ \E v \in Thread : Leaves(job'[v], u)
                      /\ l.rx # None => /\ call'[l.rx].at # "new"
                                        /\ pdn'[call'[l.rx].s].ue = u
    BY <1>2, <1>11 DEF Accounted
  <2>1. /\ current[u] # None \/ \E v \in Thread : Leaves(job[v], u)
        /\ l.rx # None => call[l.rx].at # "new" /\ pdn[call[l.rx].s].ue = u
    BY <1>6 DEF Accounted
  <2>2. l.rx \in Call \cup {None}
    BY <1>5, WillTyped DEF Columns
  <2> QED
    BY <1>2, <1>10, <1>15, <2>1, <2>2
<1>17. Provided(u)'
  <2>1. Up(pdn', current', u) => Up(pdn, current, u)
    BY <1>2, <1>9 DEF Up, TypeInv, CurrentInv
  <2> QED
    BY <1>6, <1>11, <1>15, <2>1 DEF Provided
<1>18. Borne(u)'
  <2>1. \A b \in Sure : b[1] \in 1 .. Len(pdn)
    BY SureBearers
  <2> QED
    BY <1>2, <1>6, <1>9, <1>11, <2>1 DEF Borne
<1> HIDE DEF Moved
<1> QED
  BY <1>2, <1>7, <1>8, <1>12, <1>13, <1>14, <1>16, <1>17, <1>18, RightMove

LEMMA CcrTClean ==
  ASSUME NEW t, CcrT(t), Clean'
  PROVE  \E s \in 1 .. Len(pdn) : Disconnects(t, s)
<1>1. PICK s \in 1 .. Len(pdn) :
        /\ pdn[s].at = "up" /\ Ended(s) /\ UNCHANGED call
        /\ Request(t, Handler("find", "clear", About(s), None, None),
                   IF current[pdn[s].ue] \in {s, None} THEN {} ELSE {"late"})
        /\ current' = [current EXCEPT ![pdn[s].ue] = IF @ = s THEN None ELSE @]
  BY DEF CcrT
<1> DEFINE j == Handler("find", "clear", About(s), None, None)
<1>2. /\ ~Busy(t) /\ job' = [job EXCEPT ![t] = j]
      /\ UNCHANGED <<rows, mail>> /\ cause \subseteq cause'
      /\ current[pdn[s].ue] \notin {s, None} => "late" \in cause'
  BY <1>1 DEF Request, Begin, Blame
<1> HIDE DEF j
<1>3. current[pdn[s].ue] \in {s, None}
  BY <1>2 DEF Clean
<1> QED
  BY <1>1, <1>2, <1>3 DEF j, Disconnects

LEMMA RightCcrT ==
  ASSUME TypeInv, TypeInv', RowsInv, RowsInv', HomeInv, HomeInv', RightInv,
         NEW t \in Worker, CcrT(t)
  PROVE  RightInv'
<1> SUFFICES ASSUME Clean'
             PROVE  RightInv'
  BY DEF RightInv
<1>1. PICK s \in 1 .. Len(pdn) : Disconnects(t, s)
  BY CcrTClean
<1> DEFINE j == Handler("find", "clear", About(s), None, None)
<1>2. PICK u \in Ue : u = pdn[s].ue
  BY SessionOf
<1>3. /\ t \in Thread /\ ~Busy(t) /\ job' = [job EXCEPT ![t] = j]
      /\ pdn[s].at = "up" /\ Ended(s) /\ current[u] \in {s, None}
      /\ current' = [current EXCEPT ![u] = IF @ = s THEN None ELSE @]
      /\ UNCHANGED <<call, rows, mail>> /\ cause \subseteq cause'
  BY <1>1, <1>2 DEF Disconnects, Thread
<1>4. /\ j.at = "find" /\ j.kind = "clear" /\ j.from = None /\ j.cols.ue = u
      /\ j.old = NoRow /\ j.todo = {}
  BY <1>2 DEF Handler, About, Filled
<1> HIDE DEF j
<1>5. /\ job'[t] = j /\ \A v \in Thread \ {t} : job'[v] = job[v]
  BY <1>3, OneMinds
<1>6. /\ Clean /\ Apart
  BY <1>3, Cleanly
<1>7. /\ IpRight /\ Accounted(u) /\ Provided(u) /\ Borne(u)
  BY <1>6, RightParts
<1>8. Moved(t, j, u)
  <2>1. AtWork(j, u)
    BY <1>4, ChangedKey DEF AtWork
  <2> QED
    BY <1>3, <2>1 DEF Moved
<1>9. \A v : ~Leaves(job[t], v) /\ ~Accepts(j, v)
  BY <1>3, <1>4 DEF Leaves, Accepts, Busy
<1>10. /\ Grows(pdn, pdn') /\ Len(pdn') = Len(pdn)
       /\ \A i \in 1 .. Len(pdn) :
            pdn'[i].at = IF i = s THEN "over" ELSE pdn[i].at
       /\ Sure' = {b \in Sure : b[1] # s}
  <2>1. pdn \in Seq(Pdn) /\ pdn' = [pdn EXCEPT ![s].at = "over"]
        /\ Sure' = {b \in Sure : b[1] # s}
    BY <1>3, EndedSure DEF TypeInv, TypeOK, Ended
  <2> QED
    BY <2>1, PdnChanged
<1>11. /\ current'[u] = None
       /\ \A v \in Ue : v # u => current'[v] = current[v]
  BY <1>3 DEF TypeInv, TypeOK
<1>12. \A d \in Call : call[d].at # "new" =>
         call[d].s \in 1 .. Len(pdn) /\ pdn'[call'[d].s].ue = pdn[call[d].s].ue
  BY <1>3, <1>10 DEF TypeInv, CallInv, Grows
<1>13. \A g \in Site : \A l : Will(rows', mail', g, l) <=> Will(rows, mail, g, l)
  BY <1>3
<1>14. Moves(u)
  <2>1. \A i \in 1 .. Len(pdn) : pdn'[i].at = pdn[i].at \/ pdn[i].ue = u
    BY <1>2, <1>10
  <2> QED
    BY <1>3, <1>10, <1>11, <1>13, <2>1 DEF Moves
<1>15. IpRight'
  <2> SUFFICES ASSUME NEW g \in Site, NEW l, Will(rows, mail, g, l),
                      NEW i \in 1 .. Len(pdn), pdn'[i].at # "over",
                      pdn'[i].ip = l.ip
               PROVE  pdn'[i].ue = l.ue
    BY <1>10, <1>13 DEF IpRight
  <2>1. pdn[i].at # "over" /\ pdn'[i].ip = pdn[i].ip /\ pdn'[i].ue = pdn[i].ue
    BY <1>10 DEF Grows
  <2> QED
    BY <1>7, <2>1 DEF IpRight
<1>16. ~Up(pdn', current', u)
  BY <1>11 DEF Up
<1>17. JobRight(j, rows', mail', pdn', current', call', Sure')
  <2>1. ASSUME NEW i \in Keys(j), i[1] # None
        PROVE  i[1] = u
    <3>1. \/ i = <<j.cols.ue, j.cols.ip>>
          \/ i = <<j.old.cols.ue, j.old.cols.ip>>
          \/ \E x \in j.todo : i = <<x.cols.ue, x.cols.ip>>
      BY KeysOf
    <3>2. j.old.cols.ue = None
      BY <1>4, NoRowIsRow
    <3> QED
      BY <1>4, <2>1, <3>1, <3>2
  <2>2. ClearRight(j, pdn', current')
    BY <1>4, <1>16, <2>1 DEF ClearRight
  <2> QED
    BY <1>4, <2>2 DEF JobRight, AskRight, CallRight, StrRight, Asks
<1>18. Accounted(u)'
  <2> SUFFICES ASSUME NEW g \in Site, NEW l, Will(rows, mail, g, l), l.ue = u
               PROVE  /\ \E v \in Thread : Leaves(job'[v], u)
                      /\ l.rx # None => /\ call'[l.rx].at # "new"
                                        /\ pdn'[call'[l.rx].s].ue = u
    BY <1>13 DEF Accounted
  <2>1. Leaves(j, u)
    BY <1>4 DEF Leaves
  <2>2. l.rx # None => call[l.rx].at # "new" /\ pdn[call[l.rx].s].ue = u
    BY <1>7 DEF Accounted
  <2>3. l.rx \in Call \cup {None}
    BY <1>6, WillTyped DEF Columns
  <2> QED
    BY <1>3, <1>5, <1>12, <2>1, <2>2, <2>3
<1>19. Provided(u)'
  <2>1. \A v \in Thread : Accepts(job'[v], u) => Accepts(job[v], u)
    BY <1>5, <1>9
  <2> QED
    BY <1>7, <1>13, <1>16, <2>1 DEF Provided
<1>20. Borne(u)'
  <2> SUFFICES ASSUME NEW b \in Sure', pdn'[b[1]].ue = u
               PROVE  FALSE
    BY DEF Borne
  <2>1. b \in Sure /\ b[1] # s
    BY <1>10
  <2>2. pdn[b[1]].ue = u
    BY <1>10, <2>1, SureBearers DEF Grows
  <2>3. current[u] = b[1] /\ current[u] # None
    BY <1>7, <2>1, <2>2, BearerUp DEF Up
  <2> QED
    BY <1>3, <2>1, <2>3
<1> HIDE DEF Moved
<1> QED
  BY <1>3, <1>8, <1>9, <1>14, <1>15, <1>17, <1>18, <1>19, <1>20, RightMove

\* A request about the call c of the UE u begins.
LEMMA RightBegins ==
  ASSUME TypeInv, TypeInv', RowsInv, RowsInv', HomeInv, HomeInv', RightInv,
         NEW t \in Thread, NEW u \in Ue, NEW c \in Call, NEW j, ~Busy(t),
         job' = [job EXCEPT ![t] = j], cause \subseteq cause',
         j.at = "get", j.from = None, j.cols.ue = u, j.kind \in {"call", "str"},
         UNCHANGED <<pdn, current, bearers, Sure, rows, mail>>,
         \A d \in Call : d # c => call'[d] = call[d],
         call[c].at = "new" \/ pdn[call[c].s].ue = u,
         call'[c].at \notin {"new", "over"}, pdn[call'[c].s].ue = u,
         Clean' => JobRight(j, rows, mail, pdn, current, call', Sure)
  PROVE  RightInv'
<1> SUFFICES ASSUME Clean'
             PROVE  RightInv'
  BY DEF RightInv
<1>1. /\ Clean /\ Apart
  BY Cleanly
<1>2. /\ IpRight /\ Accounted(u) /\ Provided(u) /\ Borne(u)
  BY <1>1, RightParts
<1>3. /\ job'[t] = j /\ \A v \in Thread \ {t} : job'[v] = job[v]
  BY OneMinds
<1>4. Moved(t, j, u)
  <2>1. AtWork(j, u)
    BY ChangedKey DEF AtWork
  <2> QED
    BY <2>1 DEF Moved
<1>5. \A v : ~Leaves(job[t], v) /\ ~Accepts(j, v)
  BY DEF Leaves, Accepts, Busy
<1>6. \A g \in Site : \A l : Will(rows', mail', g, l) <=> Will(rows, mail, g, l)
  OBVIOUS
<1>7. Moves(u)
  <2>1. Grows(pdn, pdn')
    BY SameSessions DEF TypeInv, TypeOK
  <2> QED
    BY <1>6, <2>1 DEF Moves
<1>8. IpRight'
  BY <1>2, <1>6 DEF IpRight
<1>9. JobRight(j, rows', mail', pdn', current', call', Sure')
  OBVIOUS
<1>10. \A v \in Thread : /\ Leaves(job[v], u) => Leaves(job'[v], u)
                         /\ Accepts(job'[v], u) => Accepts(job[v], u)
  BY <1>3, <1>5
<1>11. Accounted(u)'
  <2> SUFFICES ASSUME NEW g \in Site, NEW l, Will(rows, mail, g, l), l.ue = u
               PROVE  /\ \/ current[u] # None
                         \/ \E v \in Thread : Leaves(job'[v], u)
                      /\ l.rx # None => /\ call'[l.rx].at # "new"
                                        /\ pdn[call'[l.rx].s].ue = u
    BY <1>6 DEF Accounted
  <2>1. /\ current[u] # None \/ \E v \in Thread : Leaves(job[v], u)
        /\ l.rx # None => call[l.rx].at # "new" /\ pdn[call[l.rx].s].ue = u
    BY <1>2 DEF Accounted
  <2>2. l.rx \in Call \cup {None}
    BY <1>1, WillTyped DEF Columns
  <2> QED
    BY <1>10, <2>1, <2>2
<1>12. Provided(u)'
  BY <1>2, <1>6, <1>10 DEF Provided
<1>13. Borne(u)'
  <2> SUFFICES ASSUME NEW b \in Sure, pdn[b[1]].ue = u
               PROVE  /\ call'[b[2]].at # "over" /\ pdn[b[1]].at = "up"
                      /\ current[u] = b[1]
                      /\ \A g \in Site : \E l : /\ Will(rows, mail, g, l)
                                                /\ l.s = b[1] /\ l.rx = b[2]
    BY <1>6 DEF Borne
  <2>1. b[2] \in Call
    BY SureBearers
  <2> QED
    BY <1>2, <2>1 DEF Borne
<1> HIDE DEF Moved
<1> QED
  BY <1>4, <1>5, <1>7, <1>8, <1>9, <1>11, <1>12, <1>13, RightMove

LEMMA AarClean ==
  ASSUME NEW t, Aar(t), Clean'
  PROVE  \E u \in Ue, c \in Call : Calling(t, u, c)
<1>1. PICK u \in Ue, c \in Call :
        LET s == current[u] IN
        /\ s # None
        /\ pdn[s].at = "up"
        /\ call[c] \in {[s |-> None, at |-> "new"], [s |-> s, at |-> "up"]}
        /\ Request(t, Handler("get", "call", About(s), c, None),
                   IF Calls(u) \ {c} # {} THEN {"second"} ELSE {})
        /\ call' = [call EXCEPT ![c] = [s |-> s, at |-> "asked"]]
        /\ UNCHANGED <<pdn, current, bearers>>
  BY DEF Aar
<1> DEFINE j == Handler("get", "call", About(current[u]), c, None)
<1>2. /\ ~Busy(t) /\ job' = [job EXCEPT ![t] = j]
      /\ UNCHANGED <<rows, mail>> /\ cause \subseteq cause'
      /\ Calls(u) \ {c} # {} => "second" \in cause'
  BY <1>1 DEF Request, Begin, Blame
<1> HIDE DEF j
<1>3. Calls(u) \subseteq {c}
  BY <1>2 DEF Clean
<1> QED
  BY <1>1, <1>2, <1>3 DEF j, Calling

LEMMA RightAar ==
  ASSUME TypeInv, TypeInv', RowsInv, RowsInv', HomeInv, HomeInv', RightInv,
         NEW t \in Worker, Aar(t)
  PROVE  RightInv'
<1> SUFFICES ASSUME Clean'
             PROVE  RightInv'
  BY DEF RightInv
<1>1. PICK u \in Ue, c \in Call : Calling(t, u, c)
  BY AarClean
<1>2. PICK s \in 1 .. Len(pdn) : s = current[u] /\ pdn[s].ue = u
  BY <1>1 DEF Calling, TypeInv, CurrentInv
<1> DEFINE j == Handler("get", "call", About(s), c, None)
<1>3. /\ t \in Thread /\ ~Busy(t) /\ pdn[s].at = "up" /\ Calls(u) \subseteq {c}
      /\ call[c] \in {[s |-> None, at |-> "new"], [s |-> s, at |-> "up"]}
      /\ job' = [job EXCEPT ![t] = j]
      /\ call' = [call EXCEPT ![c] = [s |-> s, at |-> "asked"]]
      /\ UNCHANGED <<pdn, current, bearers, Sure, rows, mail>>
      /\ cause \subseteq cause'
  BY <1>1, <1>2, SameSure DEF Calling, Thread
<1>4. /\ j.at = "get" /\ j.kind = "call" /\ j.from = None /\ j.c = c
      /\ j.cols.ue = u /\ j.cols.ip = pdn[s].ip
  BY <1>2 DEF Handler, About, Filled
<1> HIDE DEF j
<1>5. /\ \A d \in Call : d # c => call'[d] = call[d]
      /\ call'[c].s = s /\ call'[c].at = "asked"
      /\ call[c].at = "new" \/ call[c].s = s
  BY <1>3 DEF TypeInv, TypeOK
<1>6. Clean /\ Apart
  BY <1>3, Cleanly
<1>7. JobRight(j, rows, mail, pdn, current, call', Sure)
  <2>1. \A g \in Site : \A l :
          Will(rows, mail, g, l) /\ l.ip = j.cols.ip => l.ue = u
    BY <1>2, <1>3, <1>4, <1>6, RightParts DEF IpRight
  <2>2. OnCalls(pdn, call', u) \subseteq {c}
    BY <1>3, <1>5 DEF OnCalls, Calls
  <2>3. CallRight(j, rows, mail, pdn, current, call')
    BY <1>2, <1>4, <1>5, <2>1, <2>2 DEF CallRight
  <2> QED
    BY <1>4, <2>3 DEF JobRight, ClearRight, AskRight, StrRight, Asks
<1>8. /\ call[c].at = "new" \/ pdn[call[c].s].ue = u
      /\ call'[c].at \notin {"new", "over"} /\ pdn[call'[c].s].ue = u
  BY <1>2, <1>5
<1>9. j.kind \in {"call", "str"}
  BY <1>4
<1> QED
  BY <1>3, <1>4, <1>5, <1>7, <1>8, <1>9, RightBegins

LEMMA RightStr ==
  ASSUME TypeInv, TypeInv', RowsInv, RowsInv', HomeInv, HomeInv', RightInv,
         NEW t \in Worker, Str(t)
  PROVE  RightInv'
<1>1. PICK c \in Call :
        /\ call[c].at \in {"asked", "up", "refused"}
        /\ Request(t, Handler("get", "str", About(call[c].s), c, None), {})
        /\ call' = [call EXCEPT ![c].at = "ending"]
        /\ UNCHANGED <<pdn, current, bearers>>
  BY DEF Str
<1>2. PICK s \in 1 .. Len(pdn) : s = call[c].s
  BY <1>1 DEF TypeInv, CallInv
<1>3. PICK u \in Ue : u = pdn[s].ue
  BY SessionOf
<1> DEFINE j == Handler("get", "str", About(s), c, None)
<1>4. /\ t \in Thread /\ ~Busy(t) /\ job' = [job EXCEPT ![t] = j]
      /\ UNCHANGED <<pdn, current, bearers, Sure, rows, mail>>
      /\ cause \subseteq cause'
  BY <1>1, <1>2, SameSure DEF Request, Begin, Blame, Thread
<1>5. /\ j.at = "get" /\ j.kind = "str" /\ j.from = None /\ j.c = c
      /\ j.cols.ue = u
  BY <1>3 DEF Handler, About, Filled
<1> HIDE DEF j
<1>6. /\ \A d \in Call : d # c => call'[d] = call[d]
      /\ call'[c].s = s /\ call'[c].at = "ending"
  BY <1>1, <1>2 DEF TypeInv, TypeOK
<1>7. JobRight(j, rows, mail, pdn, current, call', Sure)
  BY <1>3, <1>5, <1>6
     DEF JobRight, ClearRight, AskRight, CallRight, StrRight, Asks
<1>8. /\ call[c].at = "new" \/ pdn[call[c].s].ue = u
      /\ call'[c].at \notin {"new", "over"} /\ pdn[call'[c].s].ue = u
  BY <1>2, <1>3, <1>6
<1>9. j.kind \in {"call", "str"}
  BY <1>5
<1> QED
  BY <1>4, <1>5, <1>6, <1>7, <1>8, <1>9, RightBegins

\* A session ends that nobody tells of, or nothing happens.
LEMMA RightAlone ==
  ASSUME TypeInv, TypeInv', RowsInv, HomeInv, HomeInv', RightInv,
         UNCHANGED <<rows, mail, job, current, call, cause>>,
         Grows(pdn, pdn'), Len(pdn') = Len(pdn), Sure' \subseteq Sure,
         \A s \in 1 .. Len(pdn) :
           \/ pdn'[s].at = pdn[s].at
           \/ pdn'[s].at = "over" /\ \A b \in Sure' : b[1] # s
  PROVE  RightInv'
<1>1. \A g \in Site : \A l : Will(rows', mail', g, l) <=> Will(rows, mail, g, l)
  OBVIOUS
<1>2. Moves(None)
  BY <1>1 DEF Moves
<1>3. JobsMove(None)
  BY DEF JobsMove, Bystander
<1>4. ASSUME Clean'
      PROVE  IpRight'
  <2> SUFFICES ASSUME NEW g \in Site, NEW l, Will(rows, mail, g, l),
                      NEW s \in 1 .. Len(pdn), pdn'[s].at # "over",
                      pdn'[s].ip = l.ip
               PROVE  pdn'[s].ue = l.ue
    BY <1>1 DEF IpRight
  <2>1. pdn[s].at # "over" /\ pdn'[s].ip = pdn[s].ip /\ pdn'[s].ue = pdn[s].ue
    BY DEF Grows
  <2>2. IpRight
    BY <1>4, RightParts DEF Clean
  <2> QED
    BY <2>1, <2>2 DEF IpRight
<1> QED
  BY <1>2, <1>3, <1>4, RightStep

LEMMA RightDetach ==
  ASSUME TypeInv, TypeInv', RowsInv, HomeInv, HomeInv', RightInv, Detach
  PROVE  RightInv'
<1>1. PICK s \in 1 .. Len(pdn) : pdn[s].at = "up" /\ Ended(s)
  BY DEF Detach
<1>2. /\ pdn \in Seq(Pdn) /\ pdn' = [pdn EXCEPT ![s].at = "over"]
      /\ Sure' = {b \in Sure : b[1] # s}
      /\ UNCHANGED <<rows, mail, job, current, call, cause>>
  BY <1>1, EndedSure DEF Detach, Ended, TypeInv, TypeOK
<1>3. /\ Grows(pdn, pdn') /\ Len(pdn') = Len(pdn)
      /\ \A i \in 1 .. Len(pdn) :
           pdn'[i].at = IF i = s THEN "over" ELSE pdn[i].at
  BY <1>2, PdnChanged
<1> QED
  BY <1>2, <1>3, RightAlone

LEMMA RightNothing ==
  ASSUME TypeInv, TypeInv', RowsInv, HomeInv, HomeInv', RightInv,
         UNCHANGED <<outside, rows, mail, job, cause>>
  PROVE  RightInv'
<1>1. Grows(pdn, pdn') /\ UNCHANGED <<pdn, current, call, bearers, Sure>>
  BY SameOutside, SameSure DEF outside
<1> QED
  BY <1>1, RightAlone

LEMMA RightArrive ==
  ASSUME TypeInv, TypeInv', RowsInv, HomeInv, HomeInv', RightInv, Arrive
  PROVE  RightInv'
<1>1. PICK b \in bearers :
        LET at(x) == <<b[1], b[2], x>>
        IN  \/ bearers' = (bearers \ {b}) \cup {at("late")} /\ b[3] = "install"
            \/ bearers' = bearers \ {b, at("up"), at("late")} /\ b[3] = "remove"
  BY DEF Arrive
<1>2. b \in Bearer /\ bearers \subseteq Bearer
  BY DEF TypeInv, TypeOK
<1>3. Sure' \subseteq Sure
  <2> SUFFICES ASSUME NEW x \in Sure'
               PROVE  x \in Sure
    OBVIOUS
  <2>1. /\ x \in bearers /\ x[3] = "up" /\ x = <<x[1], x[2], "up">>
        /\ <<x[1], x[2], "remove">> \notin bearers'
    BY <1>1, <1>2 DEF Sure, Bearer
  <2>2. ASSUME <<x[1], x[2], "remove">> \in bearers
        PROVE  FALSE
    <3>1. b = <<x[1], x[2], "remove">> /\ b[3] = "remove"
      BY <1>1, <2>1, <2>2
    <3>2. x = <<b[1], b[2], "up">>
      BY <2>1, <3>1
    <3> QED
      BY <1>1, <3>1, <3>2 DEF Sure
  <2> QED
    BY <2>1, <2>2 DEF Sure
<1>4. UNCHANGED <<pdn, rows, mail, job, current, call, cause>>
  BY DEF Arrive
<1>5. Grows(pdn, pdn')
  BY <1>4, SameSessions DEF TypeInv, TypeOK
<1> QED
  BY <1>3, <1>4, <1>5, RightAlone

LEMMA RightLost ==
  ASSUME "lost" \in cause'
  PROVE  RightInv'
BY DEF RightInv, Clean

-----------------------------------------------------------------------------
LEMMA InitRight == Init => RightInv
<1> SUFFICES ASSUME Init
             PROVE  /\ IpRight
                    /\ \A u \in Ue : Accounted(u) /\ Provided(u) /\ Borne(u)
                    /\ \A t \in Thread : RightNow(t)
  BY DEF RightInv
<1>1. /\ pdn = << >> /\ Sure = {} /\ current = [u \in Ue |-> None]
      /\ \A h \in Site : rows[h] = {}
      /\ \A h, g \in Site : mail[h][g] = << >>
      /\ \A t \in Thread : job[t] = Idle
  BY DEF Init, Sure
<1>2. \A g \in Site : \A l : ~Will(rows, mail, g, l)
  BY <1>1, EmptySeq DEF Will, Announced, SaidBy, Has
<1>3. \A t \in Thread : RightNow(t) /\ \A u : ~Accepts(job[t], u)
  BY <1>1, NothingAtHand DEF RightNow
<1>4. \A u \in Ue : ~Up(pdn, current, u)
  BY <1>1 DEF Up
<1> QED
  BY <1>1, <1>2, <1>3, <1>4 DEF IpRight, Accounted, Provided, Borne

LEMMA RightKept ==
  /\ TypeInv /\ RowsInv /\ HomeInv /\ FreshInv /\ SyncInv /\ RightInv
  /\ [Next]_vars
  => RightInv'
<1> SUFFICES ASSUME TypeInv, RowsInv, HomeInv, FreshInv, SyncInv, RightInv,
                    [Next]_vars
             PROVE  RightInv'
  OBVIOUS
<1>0. TypeInv' /\ RowsInv' /\ HomeInv'
  BY TypeKept, RowsKept, HomeKept
<1>1. CASE UNCHANGED vars
  BY <1>0, <1>1, RightNothing DEF vars
<1>2. CASE Next
  <2>1. CASE Tick
    BY <1>0, <2>1, RightNothing DEF Tick
  <2>2. CASE Detach
    BY <1>0, <2>2, RightDetach
  <2>3. ASSUME NEW t \in Worker, CcrI(t) \/ CcrT(t)
        PROVE  RightInv'
    BY <1>0, <2>3, RightCcrI, RightCcrT
  <2>4. ASSUME NEW t \in Worker, Aar(t) \/ Str(t)
        PROVE  RightInv'
    BY <1>0, <2>4, RightAar, RightStr
  <2>5. ASSUME NEW t \in Worker, Dies(t)
        PROVE  RightInv'
    BY <2>5, RightLost DEF Dies, Blame
  <2>6. ASSUME NEW t \in Thread, Get(t) \/ Find(t) \/ Commit(t) \/ Delete(t)
        PROVE  RightInv'
    BY <1>0, <2>6, RightGet, RightFind, RightWrites
  <2>7. ASSUME NEW t \in Thread, QueueCopy(t) \/ Sent(t) \/ Answer(t)
        PROVE  RightInv'
    BY <1>0, <2>7, RightQueue, RightSent, RightAnswer
  <2>8. ASSUME NEW t \in Thread, Another(t) \/ List(t) \/ Sweep(t)
        PROVE  RightInv'
    BY <1>0, <2>8, RightAnother, RightList, RightSweep
  <2>9. ASSUME NEW t \in Thread, DbFails(t) \/ Respond(t)
        PROVE  RightInv'
    BY <1>0, <2>9, RightFails, RightRespond
  <2>10. ASSUME NEW t \in Api, NEW h \in Site, Deliver(t, h)
         PROVE  RightInv'
    BY <1>0, <2>10, RightDeliver
  <2>11. ASSUME NEW h \in Site, NEW g \in Site, GiveUp(h, g)
         PROVE  RightInv'
    BY <2>11, RightLost DEF GiveUp, Blame
  <2>12. CASE Arrive
    BY <1>0, <2>12, RightArrive
  <2> QED
    BY <1>2, <2>1, <2>2, <2>3, <2>4, <2>5, <2>6, <2>7, <2>8, <2>9, <2>10,
       <2>11, <2>12, StepKinds
<1> QED
  BY <1>1, <1>2

LEMMA RightAlways ==
  Spec => [](TypeInv /\ RowsInv /\ HomeInv /\ FreshInv /\ SyncInv /\ RightInv)
<1>1. Init => TypeInv /\ RowsInv /\ HomeInv /\ FreshInv /\ SyncInv /\ RightInv
  BY InitTypeInv, InitRows, InitHome, InitFresh, InitSync, InitRight
<1>2. /\ TypeInv /\ RowsInv /\ HomeInv /\ FreshInv /\ SyncInv /\ RightInv
      /\ [Next]_vars
      => (TypeInv /\ RowsInv /\ HomeInv /\ FreshInv /\ SyncInv /\ RightInv)'
  BY TypeKept, RowsKept, HomeKept, FreshKept, SyncKept, RightKept
<1> QED
  BY <1>1, <1>2, PTL DEF Spec

\* When it is quiet, the sites have what they will have.
LEMMA QuietView ==
  ASSUME Quiet
  PROVE  /\ \A g \in Site : \A k : Will(rows, mail, g, k) <=> Has(rows, g, k)
         /\ \A u : ~Copying(job, u) /\ ~Settling(job, u)
         /\ \A u, g : g \in Site => ~Pending(mail, u, g)
         /\ \A u : \A t \in Thread : ~Leaves(job[t], u) /\ ~Asks(job[t])
<1>1. /\ \A t \in Thread : job[t].at = "idle"
      /\ \A h, g \in Site : mail[h][g] = << >>
  BY DEF Quiet, Busy
<1>2. \A u, g : g \in Site => ~Pending(mail, u, g)
  BY <1>1, EmptySeq DEF Pending
<1>3. \A g \in Site : \A k : Will(rows, mail, g, k) <=> Has(rows, g, k)
  BY <1>2, ViewIsRows
<1>4. \A u : ~Copying(job, u) /\ ~Settling(job, u)
  BY <1>1 DEF Copying, Settling, Settles
<1>5. \A u : \A t \in Thread : ~Leaves(job[t], u) /\ ~Asks(job[t])
  BY <1>1 DEF Leaves, Asks
<1> QED
  BY <1>2, <1>3, <1>4, <1>5

LEMMA KnownThen ==
  TypeInv /\ RowsInv /\ HomeInv /\ FreshInv /\ SyncInv /\ RightInv => Known
<1> SUFFICES ASSUME TypeInv, RowsInv, HomeInv, FreshInv, SyncInv, RightInv,
                    Quiet, cause = {}, NEW h \in Site
             PROVE  /\ \A g \in Site : Stored(g) = Stored(h)
                    /\ \A k \in Stored(h) :
                         k.s = current[k.ue] /\ k.ip = pdn[k.s].ip
                    /\ \A u \in Ue :
                         current[u] # None /\ pdn[current[u]].at = "up" =>
                           Cardinality({x \in rows[h] : x.cols.ue = u}) = 1
  BY DEF Known
<1>1. Clean /\ Sound /\ Apart
  BY DEF Clean, Sound, Apart
<1>2. /\ \A g \in Site : \A k : Will(rows, mail, g, k) <=> Has(rows, g, k)
      /\ \A u : ~Copying(job, u) /\ ~Settling(job, u)
      /\ \A u, g : g \in Site => ~Pending(mail, u, g)
      /\ \A u : \A t \in Thread : ~Leaves(job[t], u) /\ ~Asks(job[t])
  BY QuietView
<1>3. \A g \in Site : \A k : Has(rows, g, k) <=> k \in Stored(g)
  BY DEF Has, Stored
<1>4. ASSUME NEW g \in Site
      PROVE  Stored(g) = Stored(h)
  <2>1. \A k : Has(rows, g, k) <=> Has(rows, h, k)
    BY <1>1, <1>2, SyncParts DEF Agreed
  <2>2. \A k : k \in Stored(g) <=> k \in Stored(h)
    BY <1>3, <2>1
  <2> QED
    BY <2>2
<1>5. ASSUME NEW k \in Stored(h)
      PROVE  k.s = current[k.ue] /\ k.ip = pdn[k.s].ip
  <2>1. PICK x \in rows[h] : x.cols = k
    BY <1>5 DEF Stored
  <2>2. Exact(k, pdn)
    BY <1>1, <2>1 DEF RowsInv, ExactInv
  <2>3. k.ue \in Ue /\ k.s \in 1 .. Len(pdn) /\ pdn[k.s].ue = k.ue
    BY <2>2 DEF Exact, Real
  <2>4. current[k.ue] # None
    <3>1. Will(rows, mail, h, k)
      BY <1>2, <1>3, <1>5
    <3>2. Accounted(k.ue)
      BY <1>1, <2>3, RightParts
    <3> QED
      BY <1>2, <3>1, <3>2 DEF Accounted
  <2>5. Latest(pdn, k.s)
    <3>1. Fine(k, job, pdn)
      BY <1>1, <1>2, <2>1, FreshParts DEF RowsFresh
    <3> QED
      BY <1>2, <3>1 DEF Fine
  <2>6. Latest(pdn, current[k.ue])
    BY <1>1, <1>2, <2>3, <2>4, FreshParts DEF CurrentFresh
  <2>7. current[k.ue] \in 1 .. Len(pdn) /\ pdn[current[k.ue]].ue = k.ue
    BY <2>3, <2>4 DEF TypeInv, CurrentInv
  <2>8. k.s = current[k.ue]
    BY <2>3, <2>5, <2>6, <2>7, OneLatest
  <2> QED
    BY <2>2, <2>8 DEF Exact
<1>6. ASSUME NEW u \in Ue, current[u] # None, pdn[current[u]].at = "up"
      PROVE  Cardinality({x \in rows[h] : x.cols.ue = u}) = 1
  <2>1. Provided(u) /\ Up(pdn, current, u)
    BY <1>1, <1>6, RightParts DEF Up
  <2>2. PICK l : l.ue = u /\ Will(rows, mail, h, l)
    BY <2>1 DEF Provided
  <2>3. PICK x \in rows[h] : x.cols = l
    BY <1>2, <2>2 DEF Has
  <2>4. \A y \in rows[h] : y.cols.ue = u => y = x
    BY <1>1, <2>2, <2>3 DEF RowsInv, UniqueInv, Unique
  <2>5. {y \in rows[h] : y.cols.ue = u} = {x}
    BY <2>2, <2>3, <2>4
  <2> QED
    BY <2>5, FS_Singleton
<1> QED
  BY <1>4, <1>5, <1>6

\* Answer_16777238_272, Update_Emergency_Subscriber and handleGeored: with
\* nothing open or on its way and no cause for them to be apart, every site has
\* the same rows, one for each emergency UE that has an open session, naming
\* the session accepted last and its address.
THEOREM KnownEverywhere == Spec => []Known
BY RightAlways, KnownThen, PTL

\* Answer_16777236_275: without a cause for it, no call that is over has a
\* bearer that the PGW has answered for, unless a RAR to remove it, of which
\* the HSS has had no answer, may still come.
THEOREM CeasedCalls == Spec => []Ceased
<1>1. TypeInv /\ RightInv => Ceased
  <2> SUFFICES ASSUME TypeInv, RightInv, cause = {}, NEW b \in bearers,
                      b[3] = "up", call[b[2]].at = "over",
                      <<b[1], b[2], "remove">> \notin bearers
               PROVE  FALSE
    BY DEF Ceased
  <2>1. b \in Sure
    BY DEF Sure
  <2>2. pdn[b[1]].ue \in Ue
    BY <2>1, SureBearers, SessionOf
  <2>3. Borne(pdn[b[1]].ue)
    BY <2>2, RightParts DEF Clean
  <2> QED
    BY <2>1, <2>3 DEF Borne
<1> QED
  BY <1>1, RightAlways, PTL
=============================================================================
