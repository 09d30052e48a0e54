------------------------- MODULE HssLocationProofs -------------------------
(***************************************************************************)
(* Theorems about HssLocation, for any number of sites, threads, MMEs,     *)
(* CSCFs, requests and faults.                                             *)
(***************************************************************************)
EXTENDS HssLocation, SequenceTheorems, TLAPS

\* What a handler keeps of the request it serves.
HandlerOf(j) ==
  /\ j.kind \in {"ulr", "pur", "push_clr"} =>
       j.by \in Mme /\ j.part = "mme" /\ ~j.more
  /\ j.kind \in {"sar", "sar_dereg"} =>
       j.by \in Cscf /\ j.part = "scscf" /\ ~j.more
  /\ j.kind = "geored" =>
       ~j.more /\ (j.at # "idle" => j.by \in Site)
  /\ j.at = "answer" => j.kind \in {"ulr", "sar", "geored"}
  /\ j.more => j.part = "mme"

HandlerInv == \A t \in Thread : HandlerOf(job[t])

\* The API works on the head of a queue, and one thread on each.
Works(t) == job[t].kind = "geored" /\ Busy(t)

HandInv ==
  /\ \A t \in Thread :
       Works(t) => t \in Api /\ mail[job[t].by][SiteOf[t]] # << >>
  /\ \A t, u \in Thread :
       Works(t) /\ Works(u) /\ SiteOf[t] = SiteOf[u] /\ job[t].by = job[u].by
         => t = u

\* In one site two updates of one part overlap only as the history says.
MutexInv ==
  \A t, u \in Thread, p \in Part :
    t # u /\ SiteOf[t] = SiteOf[u] /\ Updates(t, p) /\ Updates(u, p)
      => <<p, "overlap">> \in cause

\* A handler that found whom it was to find in the row finds it there still.
LookedInv ==
  \A t \in Thread :
    LET j == job[t]
    IN  /\ j.kind \in {"sar_dereg", "push_clr"}
        /\ j.at \in {"load", "commit"}
        /\ <<j.part, "overlap">> \notin cause
        => row[SiteOf[t]][j.part] = j.by

\* What PeerOfMme says of a row.
Sound(r) == IF r.mme = None THEN r.peer = None
            ELSE HssKnown(r) /\ r.peer[1] = r.mme

\* With CLRs disabled and no overlap: every row is sound, and so is whatever
\* a handler or a copy carries; what a handler has read is still there.
Clear == ~clr /\ <<"mme", "overlap">> \notin cause

RowsSound == \A s \in Site : Sound(row[s])

MailSound ==
  \A s, r \in Site : \A i \in 1 .. Len(mail[s][r]) :
    mail[s][r][i].part = "mme" => Sound(mail[s][r][i].row)

JobSound(t) ==
  LET j == job[t]
  IN  j.part = "mme" =>
        /\ j.at \in {"check", "load", "commit"} => Sound(j.new)
        /\ j.at = "copy" => Sound(j.seen)
        /\ j.at = "commit" => /\ j.seen.mme = row[SiteOf[t]].mme
                              /\ j.seen.peer = row[SiteOf[t]].peer

PeerInv ==
  Clear => RowsSound /\ MailSound /\ \A t \in Thread : JobSound(t)

TypeInv == TypeOK /\ HandlerInv /\ HandInv

-----------------------------------------------------------------------------
LEMMA EmptyIsRow == EmptyRow \in Row
BY DEF EmptyRow, Row

LEMMA IdleIsJob == Idle \in Job /\ HandlerOf(Idle)
BY EmptyIsRow DEF Idle, Job, Part, Kind, HandlerOf

LEMMA InitTypeInv == Init => TypeInv
<1> SUFFICES ASSUME Init
             PROVE  TypeInv
  OBVIOUS
<1>1. \A t \in Thread : job[t] = Idle
  BY DEF Init
<1>2. TypeOK
  <2>1. /\ row \in [Site -> Row]
        /\ job \in [Thread -> Job]
    BY EmptyIsRow, IdleIsJob DEF Init
  <2>2. /\ mail \in [Site -> [Site -> Seq(Copy)]]
        /\ \A s \in Site : mail[s][s] = << >>
        /\ clrMail \in [Site -> Seq(Mme)]
    BY DEF Init
  <2> QED
    BY <2>1, <2>2, HssAssumption DEF Init, TypeOK
<1>3. HandlerInv
  BY <1>1, IdleIsJob DEF HandlerInv
<1>4. HandInv
  BY <1>1 DEF HandInv, Works, Busy, Idle
<1> QED
  BY <1>2, <1>3, <1>4 DEF TypeInv

\* A step that changes the handler of one thread, takes nothing from a queue
\* and gives the thread no queue to work on.
LEMMA OneHandler ==
  ASSUME TypeInv,
         NEW t \in Thread, NEW j \in Job, HandlerOf(j),
         job' = [job EXCEPT ![t] = j],
         j.kind = "geored" /\ j.at # "idle" => Works(t) /\ j.by = job[t].by,
         \A s, r \in Site : mail[s][r] # << >> => mail'[s][r] # << >>
  PROVE  /\ job' \in [Thread -> Job]
         /\ HandlerInv'
         /\ HandInv'
<1>1. job \in [Thread -> Job] /\ SiteOf \in [Thread -> Site]
  BY HssAssumption DEF TypeInv, TypeOK
<1>2. job' \in [Thread -> Job] /\ HandlerInv'
  BY <1>1 DEF TypeInv, HandlerInv
<1>3. \A u \in Thread : Works(u)' => Works(u) /\ job'[u].by = job[u].by
  BY <1>1 DEF Works, Busy
<1>4. \A u \in Thread : Works(u) => job[u].by \in Site
  BY DEF TypeInv, HandlerInv, HandlerOf, Works, Busy
<1>5. HandInv'
  BY <1>1, <1>3, <1>4 DEF TypeInv, HandInv
<1> QED
  BY <1>2, <1>5

-----------------------------------------------------------------------------
\* A request is taken: the handler it starts is well formed.
LEMMA RequestTypes ==
  ASSUME TypeInv,
         NEW t \in Thread, NEW j \in Job, NEW why \in SUBSET (Part \X Cause),
         HandlerOf(j), j.kind # "geored", Request(t, j, why),
         held' \subseteq Mme, ueAt' \in held' \cup {None},
         imsAt' \in Cscf \cup {None}
  PROVE  TypeInv'
<1>1. /\ job' = [job EXCEPT ![t] = j]
      /\ cause' \subseteq Part \X Cause
      /\ requests' \in Nat
  <2>1. Parts(j) \subseteq Part
    BY DEF Parts, Part, Job
  <2>2. "overlap" \in Cause
    BY DEF Cause
  <2> QED
    BY <2>1, <2>2 DEF TypeInv, TypeOK, Request, Begin
<1>2. job' \in [Thread -> Job] /\ HandlerInv' /\ HandInv'
  BY <1>1, OneHandler DEF Request
<1> QED
  BY <1>1, <1>2 DEF TypeInv, TypeOK, Request

\* The handlers that requests start.
LEMMA HandlerTypes ==
  ASSUME NEW kind \in Kind, NEW by \in Mme \cup Cscf \cup Site \cup {None},
         NEW at \in {"check", "load"}, NEW part \in Part, NEW new \in Row
  PROVE  LET j == Handler(kind, by, at, part, new)
         IN  /\ j \in Job
             /\ j.kind = kind /\ j.by = by /\ j.at = at
             /\ j.part = part /\ ~j.more /\ j.new = new
BY EmptyIsRow DEF Handler, Job

LEMMA ServedByIsRow ==
  ASSUME NEW m \in Mme, NEW s \in Site
  PROVE  ServedBy(m, s) \in Row
BY DEF ServedBy, EmptyRow, Row, Peer

LEMMA CausesOf ==
  /\ {} \in SUBSET (Part \X Cause)
  /\ {<<"mme", "purge">>} \in SUBSET (Part \X Cause)
  /\ \A told : Untold(told) \in SUBSET (Part \X Cause)
  /\ \A told : Untold(told) \cup {<<"scscf", "silent">>}
                 \in SUBSET (Part \X Cause)
<1>1. /\ "mme" \in Part /\ "scscf" \in Part
      /\ "purge" \in Cause /\ "silent" \in Cause
  BY DEF Part, Cause
<1> QED
  BY <1>1 DEF Untold

\* A CLR that reaches an MME ends what it holds.
LEMMA CancelTypes ==
  ASSUME TypeInv, NEW told, Cancel(told)
  PROVE  /\ held' \subseteq Mme
         /\ ueAt' \in held' \cup {None}
         /\ imsAt' \in Cscf \cup {None}
BY DEF TypeInv, TypeOK, Cancel

LEMMA MmeRequestTypes ==
  ASSUME TypeInv, NEW t \in Thread,
         Ulr(t) \/ Pur(t) \/ PushClr(t) \/ Deregister(t)
  PROVE  TypeInv'
<1> USE EmptyIsRow, CausesOf
<1>1. SiteOf[t] \in Site /\ "mme" \in Part
  BY HssAssumption DEF Part
<1>2. /\ held \subseteq Mme
      /\ ueAt \in held \cup {None} /\ imsAt \in Cscf \cup {None}
  BY DEF TypeInv, TypeOK
<1>3. CASE Ulr(t)
  <2> PICK m \in Mme :
        Request(t, Handler("ulr", m, "load", "mme", ServedBy(m, SiteOf[t])),
                {})
    BY <1>3 DEF Ulr
  <2> DEFINE j == Handler("ulr", m, "load", "mme", ServedBy(m, SiteOf[t]))
  <2>1. j \in Job /\ HandlerOf(j) /\ j.kind # "geored"
    BY <1>1, HandlerTypes, ServedByIsRow DEF HandlerOf, Kind
  <2> HIDE DEF j
  <2> QED
    BY <1>2, <1>3, <2>1, RequestTypes DEF Ulr, external, j
<1>4. CASE Pur(t)
  <2> DEFINE why(m) == IF ueAt = m THEN {} ELSE {<<"mme", "purge">>}
             j(m) == Handler("pur", m, "load", "mme", EmptyRow)
  <2>1. PICK m \in held : /\ Request(t, j(m), why(m))
                          /\ held' = held \ {m}
                          /\ ueAt' = IF ueAt = m THEN None ELSE ueAt
    BY <1>4 DEF Pur
  <2>2. j(m) \in Job /\ HandlerOf(j(m)) /\ j(m).kind # "geored"
    BY <1>1, <1>2, HandlerTypes DEF HandlerOf, Kind
  <2>3. why(m) \in SUBSET (Part \X Cause)
    OBVIOUS
  <2> HIDE DEF j, why
  <2> QED
    BY <1>2, <1>4, <2>1, <2>2, <2>3, RequestTypes DEF Pur
<1>5. CASE PushClr(t)
  <2> DEFINE why(m, told) == IF ueAt = m THEN Untold(told) ELSE {}
             j(m) == Handler("push_clr", m, "check", "mme", EmptyRow)
  <2>1. PICK m \in Mme, told \in SUBSET Mme :
          Request(t, j(m), why(m, told)) /\ Cancel(told)
    BY <1>5 DEF PushClr
  <2>2. j(m) \in Job /\ HandlerOf(j(m)) /\ j(m).kind # "geored"
    BY <1>1, HandlerTypes DEF HandlerOf, Kind
  <2>3. why(m, told) \in SUBSET (Part \X Cause)
    OBVIOUS
  <2> HIDE DEF j, why
  <2> QED
    BY <2>1, <2>2, <2>3, RequestTypes, CancelTypes
<1>6. CASE Deregister(t)
  <2> DEFINE why(told) == Untold(told) \cup
                          IF imsAt = None THEN {} ELSE {<<"scscf", "silent">>}
             h == Handler("deregister", None, "load", "mme", EmptyRow)
             j == [h EXCEPT !.more = TRUE]
  <2>1. PICK told \in SUBSET Mme : Request(t, j, why(told)) /\ Cancel(told)
    BY <1>6 DEF Deregister
  <2>2. j \in Job /\ HandlerOf(j) /\ j.kind # "geored"
    BY <1>1 DEF HandlerOf, Handler, Job, Kind
  <2>3. why(told) \in SUBSET (Part \X Cause)
    OBVIOUS
  <2> HIDE DEF j, h, why
  <2> QED
    BY <2>1, <2>2, <2>3, RequestTypes, CancelTypes
<1> QED
  BY <1>3, <1>4, <1>5, <1>6

LEMMA CscfRequestTypes ==
  ASSUME TypeInv, NEW t \in Thread, Sar(t) \/ SarDereg(t) \/ UarDereg(t)
  PROVE  TypeInv'
<1> USE EmptyIsRow, CausesOf
<1>1. /\ held \subseteq Mme
      /\ ueAt \in held \cup {None} /\ imsAt \in Cscf \cup {None}
      /\ "scscf" \in Part
  BY DEF TypeInv, TypeOK, Part
<1>2. CASE Sar(t)
  <2> DEFINE r(c) == [EmptyRow EXCEPT !.scscf = c]
             j(c) == Handler("sar", c, "load", "scscf", r(c))
  <2>1. PICK c \in Cscf : Request(t, j(c), {})
    BY <1>2 DEF Sar
  <2>2. r(c) \in Row
    BY DEF EmptyRow, Row
  <2>3. j(c) \in Job /\ HandlerOf(j(c)) /\ j(c).kind # "geored"
    BY <1>1, <2>2, HandlerTypes DEF HandlerOf, Kind
  <2> HIDE DEF j
  <2> QED
    BY <1>1, <1>2, <2>1, <2>3, RequestTypes DEF Sar, external
<1>3. CASE SarDereg(t)
  <2>1. PICK c \in Cscf : /\ Request(t, Deregistration(c), {})
                          /\ imsAt' = IF imsAt = c THEN None ELSE imsAt
    BY <1>3 DEF SarDereg
  <2>2. /\ Deregistration(c) \in Job /\ HandlerOf(Deregistration(c))
        /\ Deregistration(c).kind # "geored"
    BY <1>1, HandlerTypes DEF HandlerOf, Kind, Deregistration
  <2> QED
    BY <1>1, <1>3, <2>1, <2>2, RequestTypes DEF SarDereg
<1>4. CASE UarDereg(t)
  <2> DEFINE j == Handler("uar_dereg", None, "load", "scscf", EmptyRow)
  <2>1. j \in Job /\ HandlerOf(j) /\ j.kind # "geored"
    <3>1. "uar_dereg" \in Kind
      BY DEF Kind
    <3>2. /\ j \in Job /\ j.kind = "uar_dereg"
          /\ j.at = "load" /\ ~j.more
      BY <1>1, <3>1, HandlerTypes
    <3> QED
      BY <3>2 DEF HandlerOf
  <2>2. Request(t, j, {}) /\ imsAt' = None
    BY <1>4 DEF UarDereg
  <2> HIDE DEF j
  <2> QED
    BY <1>1, <1>4, <2>1, <2>2, RequestTypes DEF UarDereg
<1> QED
  BY <1>2, <1>3, <1>4

-----------------------------------------------------------------------------
\* What a handler may become in a step of an update.
Follows(k, j) ==
  /\ k \in Job /\ HandlerOf(k)
  /\ k.kind = "geored" /\ k.at # "idle" => j.kind = "geored" /\ k.by = j.by

LEMMA FinishedFollows ==
  ASSUME NEW j \in Job, HandlerOf(j), j.at # "idle"
  PROVE  Follows(Finished(j), j)
<1> DEFINE k == [j EXCEPT !.at = "answer", !.new = EmptyRow,
                          !.seen = EmptyRow]
<1>1. CASE j.kind \in {"ulr", "sar", "geored"}
  <2>1. Finished(j) = k
    BY <1>1 DEF Finished
  <2>2. k \in Job /\ k.kind = j.kind /\ k.by = j.by /\ k.at = "answer"
        /\ k.part = j.part /\ k.more = j.more
    BY EmptyIsRow DEF Job
  <2>3. HandlerOf(k)
    BY <1>1, <2>2 DEF HandlerOf
  <2> QED
    BY <2>1, <2>2, <2>3 DEF Follows
<1>2. CASE j.kind \notin {"ulr", "sar", "geored"}
  BY <1>2, IdleIsJob DEF Finished, Follows, Idle
<1> QED
  BY <1>1, <1>2

LEMMA MovesFollow ==
  ASSUME NEW j \in Job, HandlerOf(j), j.at # "idle", j.at # "answer"
  PROVE  /\ Follows([j EXCEPT !.at = "load"], j)
         /\ \A r \in Row : Follows([j EXCEPT !.at = "commit", !.seen = r], j)
         /\ \A r \in Row : Follows([j EXCEPT !.at = "copy", !.seen = r], j)
         /\ Follows([j EXCEPT !.at = "reload", !.new = EmptyRow,
                              !.seen = EmptyRow], j)
<1>1. Follows([j EXCEPT !.at = "load"], j)
  BY DEF Follows, Job, HandlerOf
<1>2. \A r \in Row : Follows([j EXCEPT !.at = "commit", !.seen = r], j)
  BY DEF Follows, Job, HandlerOf
<1>3. \A r \in Row : Follows([j EXCEPT !.at = "copy", !.seen = r], j)
  BY DEF Follows, Job, HandlerOf
<1>4. Follows([j EXCEPT !.at = "reload", !.new = EmptyRow,
                        !.seen = EmptyRow], j)
  BY EmptyIsRow DEF Follows, Job, HandlerOf
<1> QED
  BY <1>1, <1>2, <1>3, <1>4

\* The handler an update leaves when it is through with a part.
Onward(j) == IF j.more THEN [j EXCEPT !.at = "load", !.part = "scscf",
                                      !.more = FALSE]
             ELSE Finished(j)

LEMMA OnwardFollows ==
  ASSUME NEW j \in Job, HandlerOf(j), j.at # "idle"
  PROVE  Follows(Onward(j), j)
<1> DEFINE k == [j EXCEPT !.at = "load", !.part = "scscf", !.more = FALSE]
<1>1. CASE j.more
  <2>1. k \in Job /\ k.kind = j.kind /\ k.by = j.by /\ k.at = "load"
        /\ k.part = "scscf" /\ k.more = FALSE
    BY DEF Job, Part
  <2>2. j.kind \notin {"ulr", "pur", "push_clr", "sar", "sar_dereg", "geored"}
    BY <1>1 DEF HandlerOf
  <2> QED
    BY <1>1, <2>1, <2>2 DEF Onward, Follows, HandlerOf
<1>2. CASE ~j.more
  BY <1>2, FinishedFollows DEF Onward
<1> QED
  BY <1>1, <1>2

\* A step of an update, then, types what it touches.
LEMMA StepTypes ==
  ASSUME TypeInv, NEW t \in Thread, Busy(t),
         NEW k, Follows(k, job[t]), job' = [job EXCEPT ![t] = k],
         \A s, r \in Site : mail[s][r] # << >> => mail'[s][r] # << >>
  PROVE  /\ job' \in [Thread -> Job]
         /\ HandlerInv'
         /\ HandInv'
BY OneHandler DEF Follows, Works, Busy

\* The row an UPDATE leaves.
LEMMA StoredIsRow ==
  ASSUME NEW now \in Row, NEW seen, NEW new \in Row, NEW part
  PROVE  Stored(now, seen, new, part) \in Row
BY DEF Stored, Row

LEMMA UpdateTypes ==
  ASSUME TypeInv, NEW t \in Thread, Update(t)
  PROVE  TypeInv'
<1> DEFINE j == job[t]
           s == SiteOf[t]
<1>1. /\ j \in Job /\ HandlerOf(j) /\ s \in Site /\ row[s] \in Row
      /\ j.part \in Part /\ j.new \in Row /\ j.seen \in Row
  BY HssAssumption DEF TypeInv, TypeOK, HandlerInv, Job
<1>2. /\ "lost" \in Cause /\ "frozen" \in Cause
      /\ "mme" \in Part /\ "scscf" \in Part
  BY DEF Cause, Part
<1>3. job \in [Thread -> Job]
  BY DEF TypeInv, TypeOK
<1>4. Updated(t) => job' = [job EXCEPT ![t] = Onward(j)]
  BY <1>3 DEF Updated, Onward
<1>5. CASE Check(t)
  <2>1. \E k : Follows(k, j) /\ job' = [job EXCEPT ![t] = k]
    <3>1. CASE row[s][j.part] = j.by
      <4>1. job' = [job EXCEPT ![t] = [j EXCEPT !.at = "load"]]
        BY <1>3, <1>5, <3>1 DEF Check
      <4> QED
        BY <1>1, <1>5, <4>1, MovesFollow DEF Check
    <3>2. CASE row[s][j.part] # j.by
      <4>1. job' = [job EXCEPT ![t] = Finished(j)]
        BY <1>3, <1>5, <3>2 DEF Check
      <4> QED
        BY <1>1, <1>5, <4>1, FinishedFollows DEF Check
    <3> QED
      BY <3>1, <3>2
  <2>2. Busy(t) /\ UNCHANGED mail
    BY <1>5 DEF Check, Busy
  <2>3. job' \in [Thread -> Job] /\ HandlerInv' /\ HandInv'
    BY <2>1, <2>2, StepTypes
  <2> QED
    BY <1>5, <2>3 DEF TypeInv, TypeOK, Check, external
<1>6. CASE Load(t)
  <2> DEFINE k == [j EXCEPT !.at = "commit", !.seen = row[s]]
  <2>1. Follows(k, j)
    BY <1>1, <1>6, MovesFollow DEF Load
  <2>2. job' = [job EXCEPT ![t] = k] /\ Busy(t) /\ UNCHANGED mail
    BY <1>3, <1>6 DEF Load, Busy
  <2>3. job' \in [Thread -> Job] /\ HandlerInv' /\ HandInv'
    BY <2>1, <2>2, StepTypes
  <2> QED
    BY <1>6, <2>3 DEF TypeInv, TypeOK, Load, external
<1>7. CASE LoadClr(t)
  <2> DEFINE old == row[s]
             peer == IF j.new.mme = None THEN None ELSE <<old.peer[1], None>>
             k == [j EXCEPT !.at = "commit", !.seen = old, !.new.peer = peer]
  <2>1. peer \in Peer \cup {None} /\ old.mme \in Mme
    <3>1. old.peer \in Peer
      BY <1>1, <1>7 DEF LoadClr, HssKnown, Row
    <3>2. old.mme # None
      BY <1>7 DEF LoadClr, EvaluatesClr
    <3> QED
      BY <1>1, <3>1, <3>2 DEF Peer, Row
  <2>2. Follows(k, j)
    <3>1. [j.new EXCEPT !.peer = peer] \in Row
      BY <1>1, <2>1 DEF Row
    <3>2. /\ k = [j EXCEPT !.at = "commit", !.seen = old,
                           !.new = [j.new EXCEPT !.peer = peer]]
      OBVIOUS
    <3>3. /\ k \in Job /\ k.kind = j.kind /\ k.by = j.by
          /\ k.at = "commit" /\ k.part = j.part /\ k.more = j.more
      BY <1>1, <3>1, <3>2 DEF Job
    <3>4. HandlerOf(k)
      BY <1>1, <1>7, <3>3 DEF HandlerOf, LoadClr
    <3> QED
      BY <3>3, <3>4 DEF Follows
  <2>3. job' = [job EXCEPT ![t] = k] /\ Busy(t) /\ UNCHANGED mail
    BY <1>3, <1>7 DEF LoadClr, Busy
  <2>4. job' \in [Thread -> Job] /\ HandlerInv' /\ HandInv'
    BY <2>2, <2>3, StepTypes
  <2>5. clrMail' \in [Site -> Seq(Mme)]
    BY <1>1, <1>7, <2>1 DEF LoadClr, TypeInv, TypeOK
  <2> QED
    BY <1>7, <2>4, <2>5 DEF TypeInv, TypeOK, LoadClr, external
<1>8. CASE LoadFails(t)
  <2>1. Follows(Onward(j), j)
    BY <1>1, <1>8, OnwardFollows DEF LoadFails
  <2>2. Busy(t) /\ UNCHANGED mail /\ job' = [job EXCEPT ![t] = Onward(j)]
    BY <1>4, <1>8 DEF LoadFails, Busy
  <2>3. job' \in [Thread -> Job] /\ HandlerInv' /\ HandInv'
    BY <2>1, <2>2, StepTypes
  <2> QED
    BY <1>2, <1>8, <2>3 DEF TypeInv, TypeOK, LoadFails, external
<1>9. CASE Commit(t)
  <2> DEFINE k == [j EXCEPT !.at = "reload", !.new = EmptyRow,
                            !.seen = EmptyRow]
  <2>1. \E l : Follows(l, j) /\ job' = [job EXCEPT ![t] = l]
    <3>1. CASE j.kind = "geored"
      <4>1. job' = [job EXCEPT ![t] = Finished(j)]
        BY <1>3, <1>9, <3>1 DEF Commit
      <4> QED
        BY <1>1, <1>9, <4>1, FinishedFollows DEF Commit
    <3>2. CASE j.kind # "geored"
      <4>1. job' = [job EXCEPT ![t] = k]
        BY <1>3, <1>9, <3>2 DEF Commit
      <4> QED
        BY <1>1, <1>9, <4>1, MovesFollow DEF Commit
    <3> QED
      BY <3>1, <3>2
  <2>2. Busy(t) /\ UNCHANGED mail
    BY <1>9 DEF Commit, Busy
  <2>3. job' \in [Thread -> Job] /\ HandlerInv' /\ HandInv'
    BY <2>1, <2>2, StepTypes
  <2>4. row' \in [Site -> Row]
    BY <1>1, <1>9, StoredIsRow DEF Commit, TypeInv, TypeOK
  <2> QED
    BY <1>9, <2>3, <2>4 DEF TypeInv, TypeOK, Commit, external
<1>10. CASE CommitFails(t)
  <2>1. \E l : Follows(l, j) /\ job' = [job EXCEPT ![t] = l]
    <3>1. CASE j.part = "mme"
      BY <1>1, <1>4, <1>10, <3>1, OnwardFollows DEF CommitFails
    <3>2. CASE j.part # "mme"
      <4>1. job' = [job EXCEPT ![t] = Idle] /\ Follows(Idle, j)
        BY <1>10, <3>2, IdleIsJob DEF CommitFails, Follows, Idle
      <4> QED
        BY <4>1
    <3> QED
      BY <3>1, <3>2
  <2>2. Busy(t) /\ UNCHANGED mail
    BY <1>10 DEF CommitFails, Busy
  <2>3. job' \in [Thread -> Job] /\ HandlerInv' /\ HandInv'
    BY <2>1, <2>2, StepTypes
  <2> QED
    BY <1>1, <1>2, <1>10, <2>3
      DEF TypeInv, TypeOK, CommitFails, external
<1>11. CASE Reload(t)
  <2> DEFINE k == [j EXCEPT !.at = "copy", !.seen = row[s]]
  <2>1. Follows(k, j)
    BY <1>1, <1>11, MovesFollow DEF Reload
  <2>2. job' = [job EXCEPT ![t] = k] /\ Busy(t) /\ UNCHANGED mail
    BY <1>3, <1>11 DEF Reload, Busy
  <2>3. job' \in [Thread -> Job] /\ HandlerInv' /\ HandInv'
    BY <2>1, <2>2, StepTypes
  <2> QED
    BY <1>11, <2>3 DEF TypeInv, TypeOK, Reload, external
<1>12. CASE QueueCopy(t)
  <2> DEFINE copy == [part |-> j.part, row |-> j.seen]
  <2>1. copy \in Copy
    BY <1>1 DEF Copy
  <2>2. /\ mail' \in [Site -> [Site -> Seq(Copy)]]
        /\ \A q \in Site : mail'[q][q] = << >>
        /\ \A p, q \in Site : mail[p][q] # << >> => mail'[p][q] # << >>
    <3>1. CASE UNCHANGED mail
      BY <3>1 DEF TypeInv, TypeOK
    <3>2. CASE Queue(s, j.part, j.seen)
      <4> DEFINE b == [q \in Site |-> IF q = s THEN mail[s][q]
                                      ELSE Append(mail[s][q], copy)]
      <4>1. mail' = [mail EXCEPT ![s] = b]
        BY <1>1, <3>2 DEF Queue, TypeInv, TypeOK
      <4>2. /\ b \in [Site -> Seq(Copy)]
            /\ b[s] = << >>
            /\ \A q \in Site : mail[s][q] # << >> => b[q] # << >>
        <5> HIDE DEF copy
        <5>1. \A q \in Site : /\ mail[s][q] \in Seq(Copy)
                              /\ Append(mail[s][q], copy) \in Seq(Copy)
                              /\ Append(mail[s][q], copy) # << >>
          <6> TAKE q \in Site
          <6>1. mail[s][q] \in Seq(Copy)
            BY <1>1 DEF TypeInv, TypeOK
          <6> QED
            BY <2>1, <6>1, AppendProperties
        <5>2. mail[s][s] = << >>
          BY <1>1 DEF TypeInv, TypeOK
        <5> QED
          BY <1>1, <5>1, <5>2
      <4> HIDE DEF b
      <4> QED
        BY <1>1, <4>1, <4>2 DEF TypeInv, TypeOK
    <3> QED
      BY <1>12, <3>1, <3>2 DEF QueueCopy
  <2>3. Busy(t) /\ job' = [job EXCEPT ![t] = Onward(j)]
    BY <1>4, <1>12 DEF QueueCopy, Busy
  <2>4. Follows(Onward(j), j)
    BY <1>1, <1>12, OnwardFollows DEF QueueCopy
  <2>5. job' \in [Thread -> Job] /\ HandlerInv' /\ HandInv'
    BY <2>2, <2>3, <2>4, StepTypes
  <2>6. cause' \subseteq Part \X Cause
    BY <1>1, <1>2, <1>12 DEF QueueCopy, TypeInv, TypeOK
  <2> QED
    BY <1>12, <2>2, <2>5, <2>6 DEF TypeInv, TypeOK, QueueCopy, external
<1> QED
  BY <1>5, <1>6, <1>7, <1>8, <1>9, <1>10, <1>11, <1>12 DEF Update

-----------------------------------------------------------------------------
LEMMA AnswerTypes ==
  ASSUME TypeInv, NEW t \in Thread, AnswerUlr(t) \/ AnswerSar(t) \/ Die(t)
  PROVE  TypeInv'
<1>1. job[t] \in Job /\ HandlerOf(job[t])
  BY DEF TypeInv, TypeOK, HandlerInv
<1>2. /\ Busy(t) /\ job' = [job EXCEPT ![t] = Idle] /\ UNCHANGED mail
  BY DEF AnswerUlr, AnswerSar, Die, Ends, Busy
<1>3. Follows(Idle, job[t])
  BY IdleIsJob DEF Follows, Idle
<1>4. job' \in [Thread -> Job] /\ HandlerInv' /\ HandInv'
  BY <1>2, <1>3, StepTypes
<1>5. CASE AnswerUlr(t)
  <2>1. job[t].by \in Mme
    BY <1>1, <1>5 DEF HandlerOf, AnswerUlr
  <2> QED
    BY <1>4, <1>5, <2>1 DEF TypeInv, TypeOK, AnswerUlr
<1>6. CASE AnswerSar(t)
  <2>1. job[t].by \in Cscf
    BY <1>1, <1>6 DEF HandlerOf, AnswerSar
  <2> QED
    BY <1>4, <1>6, <2>1 DEF TypeInv, TypeOK, AnswerSar
<1>7. CASE Die(t)
  <2>1. Parts(job[t]) \subseteq Part /\ "lost" \in Cause
    BY <1>1 DEF Parts, Part, Job, Cause
  <2>2. cause' \subseteq Part \X Cause
    BY <1>7, <2>1 DEF Die, TypeInv, TypeOK
  <2> QED
    BY <1>4, <1>7, <2>2 DEF TypeInv, TypeOK, Die, external
<1> QED
  BY <1>5, <1>6, <1>7

\* The head of a queue goes, while nobody works on that queue any more.
LEMMA PopTypes ==
  ASSUME TypeInv, NEW s \in Site, NEW r \in Site,
         mail[s][r] # << >>, Pop(s, r)
  PROVE  /\ mail' \in [Site -> [Site -> Seq(Copy)]]
         /\ \A q \in Site : mail'[q][q] = << >>
         /\ \A p, q \in Site : <<p, q>> # <<s, r>> => mail'[p][q] = mail[p][q]
<1>1. /\ mail \in [Site -> [Site -> Seq(Copy)]]
      /\ \A q \in Site : mail[q][q] = << >>
  BY DEF TypeInv, TypeOK
<1>2. s # r
  BY <1>1
<1>3. Tail(mail[s][r]) \in Seq(Copy)
  BY <1>1
<1>4. mail' = [mail EXCEPT ![s] = [mail[s] EXCEPT ![r] = Tail(mail[s][r])]]
  BY <1>1 DEF Pop
<1> QED
  BY <1>1, <1>2, <1>3, <1>4

LEMMA DeliverTypes ==
  ASSUME TypeInv, NEW t \in Api, NEW s \in Site, Deliver(t, s)
  PROVE  TypeInv'
<1> DEFINE r == SiteOf[t]
           copy == Head(mail[s][r])
           j == Handler("geored", s, "load", copy.part, copy.row)
<1>1. /\ t \in Thread /\ r \in Site /\ SiteOf \in [Thread -> Site]
      /\ job \in [Thread -> Job] /\ mail[s][r] \in Seq(Copy)
  BY HssAssumption DEF TypeInv, TypeOK, Thread
<1>2. /\ mail[s][r] # << >> /\ ~InHand(s, r) /\ ~Busy(t)
      /\ job' = [job EXCEPT ![t] = j] /\ UNCHANGED mail
  BY DEF Deliver, Begin
<1>3. copy \in Copy
  BY <1>1, <1>2
<1>4. /\ j \in Job /\ HandlerOf(j) /\ j.kind = "geored" /\ j.by = s
      /\ Parts(j) \subseteq Part
  <2>1. copy.part \in Part /\ copy.row \in Row
    BY <1>3 DEF Copy
  <2>2. "geored" \in Kind
    BY DEF Kind
  <2>3. /\ j \in Job /\ j.kind = "geored" /\ j.by = s
        /\ j.at = "load" /\ j.part = copy.part /\ ~j.more
    BY <2>1, <2>2, HandlerTypes
  <2> HIDE DEF j
  <2> QED
    BY <2>1, <2>3 DEF HandlerOf, Parts
<1> HIDE DEF j
<1>5. job' \in [Thread -> Job] /\ HandlerInv'
  BY <1>1, <1>2, <1>4 DEF TypeInv, HandlerInv
<1>6. HandInv'
  <2>1. \A u \in Thread : u # t => job'[u] = job[u]
    BY <1>1, <1>2
  <2>2. job'[t] = j
    BY <1>1, <1>2
  <2>3. \A u \in Thread :
          u # t /\ Works(u) /\ SiteOf[u] = r => job[u].by # s
    BY <1>2 DEF InHand, TypeInv, HandInv, Works
  <2> QED
    BY <1>2, <1>4, <2>1, <2>2, <2>3 DEF TypeInv, HandInv, Works, Busy
<1>7. cause' \subseteq Part \X Cause
  <2>1. "overlap" \in Cause
    BY DEF Cause
  <2> QED
    BY <1>4, <2>1 DEF Deliver, Begin, TypeInv, TypeOK, j
<1> QED
  BY <1>5, <1>6, <1>7 DEF TypeInv, TypeOK, Deliver, external

LEMMA RespondTypes ==
  ASSUME TypeInv, NEW t \in Api, Respond(t)
  PROVE  TypeInv'
<1> DEFINE s == job[t].by
           r == SiteOf[t]
<1>1. /\ t \in Thread /\ r \in Site /\ SiteOf \in [Thread -> Site]
      /\ job \in [Thread -> Job]
  BY HssAssumption DEF TypeInv, TypeOK, Thread
<1>2. /\ Works(t) /\ job' = [job EXCEPT ![t] = Idle]
      /\ Pop(s, r) \/ UNCHANGED mail
  BY DEF Respond, Ends, Works, Busy
<1>3. s \in Site /\ mail[s][r] # << >>
  BY <1>1, <1>2 DEF TypeInv, HandlerInv, HandlerOf, HandInv, Works, Busy
<1>4. Follows(Idle, job[t]) /\ Busy(t)
  BY <1>2, IdleIsJob DEF Follows, Idle, Works
<1>5. CASE UNCHANGED mail
  <2>1. job' \in [Thread -> Job] /\ HandlerInv' /\ HandInv'
    BY <1>1, <1>2, <1>4, <1>5, StepTypes
  <2> QED
    BY <1>5, <2>1 DEF TypeInv, TypeOK, Respond, external
<1>6. CASE Pop(s, r)
  <2>1. /\ mail' \in [Site -> [Site -> Seq(Copy)]]
        /\ \A q \in Site : mail'[q][q] = << >>
        /\ \A p, q \in Site : <<p, q>> # <<s, r>> => mail'[p][q] = mail[p][q]
    BY <1>1, <1>3, <1>6, PopTypes
  <2>2. job' \in [Thread -> Job] /\ HandlerInv'
    BY <1>1, <1>2, IdleIsJob DEF TypeInv, HandlerInv
  <2>3. HandInv'
    <3>1. \A u \in Thread :
            Works(u)' => /\ Works(u) /\ job'[u] = job[u] /\ u # t
                         /\ job[u].by \in Site /\ SiteOf[u] \in Site
                         /\ <<job[u].by, SiteOf[u]>> # <<s, r>>
      <4> SUFFICES ASSUME NEW u \in Thread, Works(u)'
                   PROVE  /\ Works(u) /\ job'[u] = job[u] /\ u # t
                          /\ job[u].by \in Site /\ SiteOf[u] \in Site
                          /\ <<job[u].by, SiteOf[u]>> # <<s, r>>
        OBVIOUS
      <4>1. u # t
        BY <1>1, <1>2 DEF Works, Busy, Idle
      <4>2. job'[u] = job[u]
        BY <1>1, <1>2, <4>1
      <4>3. Works(u)
        BY <4>2 DEF Works, Busy
      <4>4. job[u].by \in Site /\ SiteOf[u] \in Site
        BY <1>1, <4>3 DEF TypeInv, HandlerInv, HandlerOf, Works, Busy
      <4> QED
        BY <1>1, <1>2, <4>1, <4>2, <4>3, <4>4 DEF TypeInv, HandInv
    <3>2. \A u \in Thread :
            Works(u)' => mail'[job[u].by][SiteOf[u]] = mail[job[u].by][SiteOf[u]]
      BY <2>1, <3>1
    <3> QED
      BY <3>1, <3>2 DEF TypeInv, HandInv
  <2> QED
    BY <2>1, <2>2, <2>3 DEF TypeInv, TypeOK, Respond, external
<1> QED
  BY <1>2, <1>5, <1>6

LEMMA QueueTypes ==
  ASSUME TypeInv, NEW s \in Site,
         PostClr(s) \/ \E r \in Site : GiveUp(s, r)
  PROVE  TypeInv'
<1>1. CASE PostClr(s)
  <2>1. ~TakesClr
    BY DEF TakesClr, ClrMethod
  <2>2. clrMail' \in [Site -> Seq(Mme)]
    <3>1. clrMail[s] \in Seq(Mme) /\ clrMail[s] # << >>
      BY <1>1 DEF PostClr, TypeInv, TypeOK
    <3>2. Tail(clrMail[s]) \in Seq(Mme)
      BY <3>1
    <3> QED
      BY <1>1, <3>2 DEF PostClr, TypeInv, TypeOK
  <2>3. HandlerInv' /\ HandInv'
    BY <1>1 DEF PostClr, TypeInv, HandlerInv, HandInv, Works, Busy
  <2> QED
    BY <1>1, <2>1, <2>2, <2>3 DEF PostClr, TypeInv, TypeOK
<1>2. ASSUME NEW r \in Site, GiveUp(s, r)
      PROVE  TypeInv'
  <2>1. /\ mail[s][r] # << >> /\ ~InHand(s, r) /\ Pop(s, r)
        /\ UNCHANGED job
    BY <1>2 DEF GiveUp
  <2>2. /\ mail' \in [Site -> [Site -> Seq(Copy)]]
        /\ \A q \in Site : mail'[q][q] = << >>
        /\ \A p, q \in Site : <<p, q>> # <<s, r>> => mail'[p][q] = mail[p][q]
    BY <2>1, PopTypes
  <2>3. \A u \in Thread :
          Works(u) => /\ job[u].by \in Site /\ SiteOf[u] \in Site
                      /\ <<job[u].by, SiteOf[u]>> # <<s, r>>
    BY <2>1, HssAssumption
      DEF InHand, TypeInv, HandInv, HandlerInv, HandlerOf, Works, Busy
  <2>4. HandlerInv' /\ HandInv'
    BY <2>1, <2>2, <2>3 DEF TypeInv, HandlerInv, HandInv, Works, Busy
  <2>5. cause' \subseteq Part \X Cause
    <3>1. mail[s][r] \in Seq(Copy)
      BY DEF TypeInv, TypeOK
    <3>2. Head(mail[s][r]) \in Copy
      BY <2>1, <3>1
    <3>3. Head(mail[s][r]).part \in Part /\ "lost" \in Cause
      BY <3>2 DEF Copy, Cause
    <3> QED
      BY <1>2, <3>3 DEF GiveUp, TypeInv, TypeOK
  <2> QED
    BY <1>2, <2>2, <2>4, <2>5 DEF GiveUp, TypeInv, TypeOK, external
<1> QED
  BY <1>1, <1>2

LEMMA NextTypeInv == TypeInv /\ [Next]_vars => TypeInv'
<1> SUFFICES ASSUME TypeInv, [Next]_vars
             PROVE  TypeInv'
  OBVIOUS
<1>1. CASE UNCHANGED vars
  BY <1>1 DEF vars, external, TypeInv, TypeOK, HandlerInv, HandInv, Works, Busy
<1>2. ASSUME NEW t \in Worker,
             \/ Ulr(t) \/ Pur(t) \/ Sar(t) \/ SarDereg(t) \/ UarDereg(t)
             \/ Update(t) \/ AnswerUlr(t) \/ AnswerSar(t) \/ Die(t)
      PROVE  TypeInv'
  BY <1>2, MmeRequestTypes, CscfRequestTypes, UpdateTypes, AnswerTypes
    DEF Thread
<1>3. ASSUME NEW t \in Api,
             \/ PushClr(t) \/ Deregister(t) \/ Update(t) \/ Respond(t)
             \/ \E s \in Site : Deliver(t, s)
      PROVE  TypeInv'
  BY <1>3, MmeRequestTypes, UpdateTypes, RespondTypes, DeliverTypes
    DEF Thread
<1>4. ASSUME NEW s \in Site, PostClr(s) \/ \E r \in Site : GiveUp(s, r)
      PROVE  TypeInv'
  BY <1>4, QueueTypes
<1> QED
  BY <1>1, <1>2, <1>3, <1>4 DEF Next

LEMMA TypeInvariant == Spec => []TypeInv
<1> QED
  BY InitTypeInv, NextTypeInv, PTL DEF Spec

\* Every variable keeps its type: a handler has what it needs to go on, a
\* copy never goes to its own site, the subscriber was last accepted by an
\* MME that holds it, or by none.
THEOREM LocationTypes == Spec => []TypeOK
<1>1. TypeInv => TypeOK
  BY DEF TypeInv
<1> QED
  BY <1>1, TypeInvariant, PTL

-----------------------------------------------------------------------------
\* What every request starts.
Starts(j) ==
  /\ j.at \in {"check", "load"} /\ j.kind # "geored"
  /\ j.kind \in {"sar_dereg", "push_clr"} => j.at = "check"
  /\ j.part = "mme" => Sound(j.new)

LEMMA EmptyIsSound == Sound(EmptyRow)
BY DEF Sound, EmptyRow

LEMMA RequestSteps ==
  ASSUME TypeInv, NEW t \in Thread,
         \/ Ulr(t) \/ Pur(t) \/ Sar(t) \/ SarDereg(t) \/ UarDereg(t)
         \/ PushClr(t) \/ Deregister(t)
  PROVE  \E j, why : Request(t, j, why) /\ Starts(j)
<1> USE EmptyIsSound
<1>1. CASE Ulr(t)
  <2> PICK m \in Mme :
        Request(t, Handler("ulr", m, "load", "mme", ServedBy(m, SiteOf[t])),
                {})
    BY <1>1 DEF Ulr
  <2> DEFINE j == Handler("ulr", m, "load", "mme", ServedBy(m, SiteOf[t]))
  <2>1. Sound(ServedBy(m, SiteOf[t]))
    <3>1. SiteOf[t] \in Site
      BY HssAssumption
    <3>2. <<m, SiteOf[t]>> # None
      BY <3>1, PeerAssumption DEF Peer
    <3>3. SiteOf[t] # None
      BY <3>1, HssAssumption
    <3>4. m # None
      BY HssAssumption
    <3>5. /\ ServedBy(m, SiteOf[t]).mme = m
          /\ ServedBy(m, SiteOf[t]).peer = <<m, SiteOf[t]>>
      BY DEF ServedBy, EmptyRow
    <3> QED
      BY <3>2, <3>3, <3>4, <3>5 DEF Sound, HssKnown
  <2>2. Starts(j)
    BY <2>1 DEF Starts, Handler
  <2> QED
    BY <2>2
<1>2. CASE Pur(t)
  <2> PICK m \in held : \E why :
        Request(t, Handler("pur", m, "load", "mme", EmptyRow), why)
    BY <1>2 DEF Pur
  <2>1. Starts(Handler("pur", m, "load", "mme", EmptyRow))
    BY DEF Starts, Handler
  <2> QED
    BY <2>1
<1>3. CASE Sar(t)
  <2> DEFINE r(c) == [EmptyRow EXCEPT !.scscf = c]
  <2> PICK c \in Cscf :
        Request(t, Handler("sar", c, "load", "scscf", r(c)), {})
    BY <1>3 DEF Sar
  <2>1. Starts(Handler("sar", c, "load", "scscf", r(c)))
    BY DEF Starts, Handler
  <2> QED
    BY <2>1
<1>4. CASE SarDereg(t)
  <2> PICK c \in Cscf : Request(t, Deregistration(c), {})
    BY <1>4 DEF SarDereg
  <2>1. Starts(Deregistration(c))
    BY DEF Starts, Handler, Deregistration
  <2> QED
    BY <2>1
<1>5. CASE UarDereg(t)
  <2>1. Starts(Handler("uar_dereg", None, "load", "scscf", EmptyRow))
    BY DEF Starts, Handler
  <2> QED
    BY <1>5, <2>1 DEF UarDereg
<1>6. CASE PushClr(t)
  <2> PICK m \in Mme : \E why :
        Request(t, Handler("push_clr", m, "check", "mme", EmptyRow), why)
    BY <1>6 DEF PushClr
  <2>1. Starts(Handler("push_clr", m, "check", "mme", EmptyRow))
    BY DEF Starts, Handler
  <2> QED
    BY <2>1
<1>7. CASE Deregister(t)
  <2> DEFINE h == Handler("deregister", None, "load", "mme", EmptyRow)
             j == [h EXCEPT !.more = TRUE]
  <2> PICK why : Request(t, j, why)
    BY <1>7 DEF Deregister
  <2>1. Starts(j)
    BY DEF Starts, Handler
  <2> QED
    BY <2>1
<1> QED
  BY <1>1, <1>2, <1>3, <1>4, <1>5, <1>6, <1>7

\* A step begins a handler, or goes on with one, or changes no handler.
Begins(t) ==
  /\ ~Busy(t)
  /\ \A p \in Parts(job'[t]) :
       Overlaps(t, p, job'[t].kind) => <<p, "overlap">> \in cause'

GoesOn(t) ==
  /\ Busy(t)
  /\ Busy(t)' => Parts(job'[t]) \subseteq Parts(job[t])

JobStep(t) ==
  /\ \A u \in Thread \ {t} : job'[u] = job[u]
  /\ Begins(t) \/ GoesOn(t)

LEMMA BeginSteps ==
  ASSUME TypeInv, NEW t \in Thread, NEW j, NEW why, Begin(t, j, why)
  PROVE  JobStep(t) /\ cause \subseteq cause' /\ job'[t] = j
<1>1. job \in [Thread -> Job]
  BY DEF TypeInv, TypeOK
<1>2. job'[t] = j /\ \A u \in Thread \ {t} : job'[u] = job[u]
  BY <1>1 DEF Begin
<1> QED
  BY <1>2 DEF Begin, JobStep, Begins

LEMMA FinishedParts ==
  ASSUME NEW j \in Job
  PROVE  Finished(j).at # "idle" => Parts(Finished(j)) \subseteq Parts(j)
<1> DEFINE k == [j EXCEPT !.at = "answer", !.new = EmptyRow,
                          !.seen = EmptyRow]
<1>1. k.part = j.part /\ k.more = j.more
  BY DEF Job
<1>2. Parts(k) = Parts(j)
  BY <1>1 DEF Parts
<1> QED
  BY <1>2 DEF Finished, Idle

LEMMA OnwardSteps ==
  ASSUME TypeInv, NEW t \in Thread, Busy(t), Updated(t)
  PROVE  JobStep(t)
<1>1. job \in [Thread -> Job] /\ job[t] \in Job
  BY DEF TypeInv, TypeOK
<1>2. /\ job'[t] = Onward(job[t])
      /\ \A u \in Thread \ {t} : job'[u] = job[u]
  BY <1>1 DEF Updated, Onward
<1>3. Busy(t)' => Parts(job'[t]) \subseteq Parts(job[t])
  <2>1. CASE job[t].more
    <3>1. /\ Onward(job[t]).part = "scscf"
          /\ Onward(job[t]).more = FALSE
      BY <1>1, <2>1 DEF Onward, Job
    <3> QED
      BY <1>2, <2>1, <3>1 DEF Parts
  <2>2. CASE ~job[t].more
    BY <1>1, <1>2, <2>2, FinishedParts DEF Onward, Busy
  <2> QED
    BY <2>1, <2>2
<1> QED
  BY <1>2, <1>3 DEF JobStep, GoesOn

LEMMA UpdateSteps ==
  ASSUME TypeInv, NEW t \in Thread, Update(t)
  PROVE  JobStep(t) /\ cause \subseteq cause'
<1>1. job \in [Thread -> Job] /\ job[t] \in Job
  BY DEF TypeInv, TypeOK
<1>2. CASE Check(t)
  <2>1. \A u \in Thread \ {t} : job'[u] = job[u]
    BY <1>1, <1>2 DEF Check
  <2>2. \/ job'[t] = [job[t] EXCEPT !.at = "load"]
        \/ job'[t] = Finished(job[t])
    BY <1>1, <1>2 DEF Check
  <2>3. Busy(t)' => Parts(job'[t]) \subseteq Parts(job[t])
    <3> DEFINE k == [job[t] EXCEPT !.at = "load"]
    <3>1. k.part = job[t].part /\ k.more = job[t].more
      BY <1>1 DEF Job
    <3>2. Parts(k) = Parts(job[t])
      BY <3>1 DEF Parts
    <3> QED
      BY <1>1, <2>2, <3>2, FinishedParts DEF Busy
  <2> QED
    BY <1>2, <2>1, <2>3 DEF JobStep, GoesOn, Check, Busy
<1>3. CASE Load(t)
  BY <1>1, <1>3 DEF Load, JobStep, GoesOn, Busy, Parts, Job
<1>4. CASE LoadClr(t)
  <2>1. \A u \in Thread \ {t} : job'[u] = job[u]
    BY <1>1, <1>4 DEF LoadClr
  <2>2. /\ job'[t].part = job[t].part
        /\ job'[t].more = job[t].more
    BY <1>1, <1>4 DEF LoadClr, Job
  <2> QED
    BY <1>4, <2>1, <2>2 DEF LoadClr, JobStep, GoesOn, Busy, Parts
<1>5. CASE LoadFails(t)
  BY <1>5, OnwardSteps DEF LoadFails, Busy
<1>6. CASE Commit(t)
  <2> DEFINE k == [job[t] EXCEPT !.at = "reload", !.new = EmptyRow,
                                 !.seen = EmptyRow]
  <2>1. \A u \in Thread \ {t} : job'[u] = job[u]
    BY <1>1, <1>6 DEF Commit
  <2>2. job'[t] = k \/ job'[t] = Finished(job[t])
    BY <1>1, <1>6 DEF Commit
  <2>3. Busy(t)' => Parts(job'[t]) \subseteq Parts(job[t])
    <3>1. k.part = job[t].part /\ k.more = job[t].more
      BY <1>1 DEF Job
    <3>2. Parts(k) = Parts(job[t])
      BY <3>1 DEF Parts
    <3> QED
      BY <1>1, <2>2, <3>2, FinishedParts DEF Busy
  <2> QED
    BY <1>6, <2>1, <2>3 DEF JobStep, GoesOn, Commit, Busy
<1>7. CASE CommitFails(t)
  <2>1. CASE job[t].part = "mme"
    BY <1>7, <2>1, OnwardSteps DEF CommitFails, Busy
  <2>2. CASE job[t].part # "mme"
    BY <1>1, <1>7, <2>2 DEF CommitFails, JobStep, GoesOn, Busy, Idle
  <2> QED
    BY <1>7, <2>1, <2>2 DEF CommitFails
<1>8. CASE Reload(t)
  BY <1>1, <1>8 DEF Reload, JobStep, GoesOn, Busy, Parts, Job
<1>9. CASE QueueCopy(t)
  BY <1>9, OnwardSteps DEF QueueCopy, Busy
<1> QED
  BY <1>2, <1>3, <1>4, <1>5, <1>6, <1>7, <1>8, <1>9 DEF Update

LEMMA EndSteps ==
  ASSUME TypeInv, NEW t \in Thread,
         AnswerUlr(t) \/ AnswerSar(t) \/ Die(t) \/ Respond(t)
  PROVE  /\ JobStep(t) /\ cause \subseteq cause'
         /\ job' = [job EXCEPT ![t] = Idle] /\ UNCHANGED <<clr, row>>
<1>1. job \in [Thread -> Job]
  BY DEF TypeInv, TypeOK
<1>2. /\ Busy(t) /\ job' = [job EXCEPT ![t] = Idle]
      /\ cause \subseteq cause' /\ UNCHANGED <<clr, row>>
  BY DEF AnswerUlr, AnswerSar, Die, Respond, Ends, Busy
<1> QED
  BY <1>1, <1>2 DEF JobStep, GoesOn, Busy, Idle

LEMMA Steps ==
  ASSUME TypeInv, [Next]_vars
  PROVE  /\ cause \subseteq cause'
         /\ job' = job \/ \E t \in Thread : JobStep(t)
<1>1. CASE UNCHANGED vars
  BY <1>1 DEF vars
<1>2. ASSUME NEW t \in Thread,
             \/ Ulr(t) \/ Pur(t) \/ Sar(t) \/ SarDereg(t) \/ UarDereg(t)
             \/ PushClr(t) \/ Deregister(t)
      PROVE  JobStep(t) /\ cause \subseteq cause'
  BY <1>2, RequestSteps, BeginSteps DEF Request
<1>3. ASSUME NEW t \in Thread, NEW s \in Site, Deliver(t, s)
      PROVE  JobStep(t) /\ cause \subseteq cause'
  BY <1>3, BeginSteps DEF Deliver
<1>4. ASSUME NEW s \in Site, PostClr(s) \/ \E r \in Site : GiveUp(s, r)
      PROVE  job' = job /\ cause \subseteq cause'
  BY <1>4 DEF PostClr, GiveUp
<1> QED
  BY <1>1, <1>2, <1>3, <1>4, UpdateSteps, EndSteps DEF Next, Thread

\* What can happen to the handler of a thread.
Delivered(t, s) ==
  LET copy == Head(mail[s][SiteOf[t]])
  IN  Handler("geored", s, "load", copy.part, copy.row)

LEMMA HandlerSteps ==
  ASSUME TypeInv, [Next]_vars, NEW t \in Thread
  PROVE  \/ job'[t] = job[t]
         \/ job'[t] = Idle
         \/ Update(t)
         \/ \E j : job'[t] = j /\ Starts(j)
         \/ \E s \in Site : /\ mail[s][SiteOf[t]] # << >>
                            /\ job'[t] = Delivered(t, s)
<1>1. ASSUME NEW u \in Thread,
             \/ Ulr(u) \/ Pur(u) \/ Sar(u) \/ SarDereg(u) \/ UarDereg(u)
             \/ PushClr(u) \/ Deregister(u)
      PROVE  job'[t] = job[t] \/ \E j : job'[t] = j /\ Starts(j)
  <2>1. PICK j, why : Request(u, j, why) /\ Starts(j)
    BY <1>1, RequestSteps
  <2>2. job'[u] = j /\ JobStep(u)
    BY <2>1, BeginSteps DEF Request
  <2> QED
    BY <2>1, <2>2 DEF JobStep
<1>2. ASSUME NEW u \in Api, NEW s \in Site, Deliver(u, s)
      PROVE  \/ job'[t] = job[t]
             \/ mail[s][SiteOf[t]] # << >> /\ job'[t] = Delivered(t, s)
  <2>1. Begin(u, Delivered(u, s), {}) /\ u \in Thread
    BY <1>2 DEF Deliver, Delivered, Thread
  <2>2. job'[u] = Delivered(u, s) /\ JobStep(u)
    BY <2>1, BeginSteps
  <2> QED
    BY <1>2, <2>2 DEF Deliver, JobStep
<1>3. ASSUME NEW u \in Thread,
             AnswerUlr(u) \/ AnswerSar(u) \/ Die(u) \/ Respond(u)
      PROVE  job'[t] = job[t] \/ job'[t] = Idle
  BY <1>3, EndSteps DEF TypeInv, TypeOK
<1>4. ASSUME NEW u \in Thread, Update(u)
      PROVE  Update(t) \/ job'[t] = job[t]
  BY <1>4, UpdateSteps DEF JobStep
<1>5. ASSUME NEW s \in Site, PostClr(s) \/ \E r \in Site : GiveUp(s, r)
      PROVE  job'[t] = job[t]
  BY <1>5 DEF PostClr, GiveUp
<1> QED
  BY <1>1, <1>2, <1>3, <1>4, <1>5 DEF Next, Thread, vars

LEMMA NextMutex ==
  ASSUME TypeInv, MutexInv, [Next]_vars
  PROVE  MutexInv'
<1> SUFFICES ASSUME NEW t \in Thread, NEW u \in Thread, NEW p \in Part,
                    t # u, SiteOf[t] = SiteOf[u],
                    Updates(t, p)', Updates(u, p)'
             PROVE  <<p, "overlap">> \in cause'
  BY DEF MutexInv
<1>1. cause \subseteq cause'
  BY Steps
<1>2. CASE job' = job
  BY <1>1, <1>2 DEF MutexInv, Updates, Busy
<1>3. ASSUME NEW v \in Thread, JobStep(v)
      PROVE  <<p, "overlap">> \in cause'
  <2>1. ASSUME NEW w \in Thread, w # v, Updates(w, p)', Updates(v, p)',
               SiteOf[w] = SiteOf[v]
        PROVE  <<p, "overlap">> \in cause'
    <3>1. job'[w] = job[w] /\ Updates(w, p)
      BY <1>3, <2>1 DEF JobStep, Updates, Busy
    <3>2. CASE Begins(v)
      BY <2>1, <3>1, <3>2 DEF Begins, Overlaps, Updates
    <3>3. CASE GoesOn(v)
      BY <1>1, <2>1, <3>1, <3>3 DEF GoesOn, Updates, MutexInv
    <3> QED
      BY <1>3, <3>2, <3>3 DEF JobStep
  <2>2. CASE v \notin {t, u}
    BY <1>1, <1>3, <2>2 DEF JobStep, MutexInv, Updates, Busy
  <2> QED
    BY <2>1, <2>2
<1> QED
  BY <1>2, <1>3, Steps

-----------------------------------------------------------------------------
LEMMA StoredKeeps ==
  ASSUME NEW now \in Row, NEW seen, NEW new, NEW part \in Part,
         NEW p \in Part, p # part
  PROVE  /\ Stored(now, seen, new, part)[p] = now[p]
         /\ part = "scscf" => Stored(now, seen, new, part).peer = now.peer
BY DEF Stored, Columns, Part, Row

\* A part of a row changes only by the commit of an update of that part.
LEMMA RowSteps ==
  ASSUME TypeInv, [Next]_vars, NEW s \in Site
  PROVE  \/ row'[s] = row[s]
         \/ \E t \in Thread :
              /\ Commit(t) /\ SiteOf[t] = s
              /\ row'[s] = Stored(row[s], job[t].seen, job[t].new,
                                  job[t].part)
<1>1. CASE row' = row
  BY <1>1
<1>2. ASSUME NEW t \in Thread, Commit(t)
      PROVE  \/ row'[s] = row[s]
             \/ /\ Commit(t) /\ SiteOf[t] = s
                /\ row'[s] = Stored(row[s], job[t].seen, job[t].new,
                                    job[t].part)
  BY <1>2 DEF Commit, TypeInv, TypeOK
<1>3. row' = row \/ \E t \in Thread : Commit(t)
  <2>1. CASE UNCHANGED vars
    BY <2>1 DEF vars
  <2>2. ASSUME NEW t \in Thread,
               \/ Ulr(t) \/ Pur(t) \/ Sar(t) \/ SarDereg(t) \/ UarDereg(t)
               \/ PushClr(t) \/ Deregister(t)
        PROVE  row' = row
    BY <2>2, RequestSteps DEF Request
  <2>3. ASSUME NEW t \in Thread, Update(t)
        PROVE  row' = row \/ Commit(t)
    BY <2>3 DEF Update, Check, Load, LoadClr, LoadFails, CommitFails, Reload,
                QueueCopy
  <2>4. ASSUME NEW r \in Site,
               \/ PostClr(r)
               \/ \E q \in Site : GiveUp(r, q)
               \/ \E t \in Api : Deliver(t, r)
        PROVE  row' = row
    BY <2>4 DEF PostClr, GiveUp, Deliver
  <2> QED
    BY <2>1, <2>2, <2>3, <2>4, EndSteps DEF Next, Thread
<1> QED
  BY <1>1, <1>2, <1>3

\* With nothing overlapping, the part a thread updates is changed by no other.
LEMMA PartKept ==
  ASSUME TypeInv, MutexInv, [Next]_vars, NEW t \in Thread, NEW p \in Part,
         Updates(t, p), ~Commit(t), <<p, "overlap">> \notin cause
  PROVE  /\ row'[SiteOf[t]][p] = row[SiteOf[t]][p]
         /\ p = "mme" => row'[SiteOf[t]].peer = row[SiteOf[t]].peer
<1> DEFINE s == SiteOf[t]
<1>1. s \in Site /\ row[s] \in Row
  BY HssAssumption DEF TypeInv, TypeOK
<1>2. CASE row'[s] = row[s]
  BY <1>2
<1>3. ASSUME NEW u \in Thread, Commit(u), SiteOf[u] = s,
             row'[s] = Stored(row[s], job[u].seen, job[u].new, job[u].part)
      PROVE  /\ row'[s][p] = row[s][p]
             /\ p = "mme" => row'[s].peer = row[s].peer
  <2>1. u # t /\ job[u].part \in Part /\ Updates(u, job[u].part)
    BY <1>3 DEF Commit, TypeInv, TypeOK, Job, Updates, Busy, Parts
  <2>2. job[u].part # p
    BY <1>3, <2>1 DEF MutexInv
  <2>3. p = "mme" => job[u].part = "scscf"
    BY <2>1, <2>2 DEF Part
  <2> QED
    BY <1>1, <1>3, <2>1, <2>2, <2>3, StoredKeeps
<1> QED
  BY <1>1, <1>2, <1>3, RowSteps

\* How a handler comes to clear a row: it has looked, or looks now.
Looks(j) == j.kind \in {"sar_dereg", "push_clr"} /\ j.at \in {"load", "commit"}

LEMMA CommitEnds ==
  ASSUME TypeInv, NEW t \in Thread, Commit(t)
  PROVE  job'[t].at \in {"reload", "answer", "idle"}
BY DEF Commit, Finished, Idle, Job, TypeInv, TypeOK

LEMMA FinishedAt ==
  ASSUME NEW j \in Job
  PROVE  Finished(j).at \in {"answer", "idle"}
BY DEF Finished, Idle, Job

LEMMA LookUpdates ==
  ASSUME TypeInv, NEW t \in Thread, Update(t), Looks(job'[t])
  PROVE  /\ job'[t].by = job[t].by
         /\ job'[t].part = job[t].part
         /\ Busy(t)
         /\ \/ Looks(job[t])
            \/ row[SiteOf[t]][job[t].part] = job[t].by
<1> DEFINE j == job[t]
<1>1. job \in [Thread -> Job] /\ j \in Job /\ HandlerOf(j)
  BY DEF TypeInv, TypeOK, HandlerInv
<1>2. job'[t] # Finished(j)
  BY <1>1, FinishedAt DEF Looks
<1>3. ~Updated(t)
  <2>1. SUFFICES ASSUME Updated(t) PROVE FALSE
    OBVIOUS
  <2>2. job'[t] = Onward(j)
    BY <1>1, <2>1 DEF Updated, Onward
  <2>3. job'[t].kind = j.kind /\ j.more
    BY <1>1, <1>2, <2>2 DEF Onward, Job
  <2> QED
    BY <1>1, <2>3 DEF Looks, HandlerOf
<1>4. CASE Check(t)
  <2>1. /\ row[SiteOf[t]][j.part] = j.by
        /\ job'[t] = [j EXCEPT !.at = "load"]
    BY <1>1, <1>2, <1>4 DEF Check
  <2> QED
    BY <1>1, <1>4, <2>1 DEF Check, Busy, Job
<1>5. CASE Load(t)
  BY <1>1, <1>5 DEF Load, Looks, Busy, Job
<1>6. CASE LoadClr(t)
  <2>1. /\ job'[t].kind = j.kind /\ job'[t].by = j.by
        /\ job'[t].part = j.part /\ j.at = "load"
    BY <1>1, <1>6 DEF LoadClr, Job
  <2> QED
    BY <2>1 DEF Looks, Busy
<1>7. CASE CommitFails(t)
  BY <1>1, <1>3, <1>7 DEF CommitFails, Idle, Looks
<1>8. CASE Reload(t)
  BY <1>1, <1>8 DEF Reload, Looks, Job
<1> QED
  BY <1>3, <1>4, <1>5, <1>6, <1>7, <1>8, CommitEnds
    DEF Update, LoadFails, QueueCopy, Looks

LEMMA LookSteps ==
  ASSUME TypeInv, [Next]_vars, NEW t \in Thread, Looks(job'[t])
  PROVE  /\ job'[t].by = job[t].by
         /\ job'[t].part = job[t].part
         /\ Busy(t) /\ ~Commit(t)
         /\ \/ Looks(job[t])
            \/ row[SiteOf[t]][job[t].part] = job[t].by
<1>1. ~Commit(t)
  BY CommitEnds DEF Looks
<1>2. CASE job'[t] = job[t]
  BY <1>1, <1>2 DEF Looks, Busy
<1>3. job'[t] # Idle
  BY DEF Looks, Idle
<1>4. \A j : Starts(j) => job'[t] # j
  BY DEF Starts, Looks
<1>5. \A s : job'[t] # Delivered(t, s)
  BY DEF Delivered, Handler, Looks
<1> QED
  BY <1>1, <1>2, <1>3, <1>4, <1>5, HandlerSteps, LookUpdates

LEMMA NextLooked ==
  ASSUME TypeInv, MutexInv, LookedInv, [Next]_vars
  PROVE  LookedInv'
<1> SUFFICES ASSUME NEW t \in Thread, Looks(job'[t]),
                    <<job'[t].part, "overlap">> \notin cause'
             PROVE  row'[SiteOf[t]][job'[t].part] = job'[t].by
  BY DEF LookedInv, Looks
<1> DEFINE p == job[t].part
<1>1. /\ job'[t].by = job[t].by /\ job'[t].part = p
      /\ Busy(t) /\ ~Commit(t)
      /\ Looks(job[t]) \/ row[SiteOf[t]][p] = job[t].by
  BY LookSteps
<1>2. p \in Part /\ Updates(t, p) /\ <<p, "overlap">> \notin cause
  BY <1>1, Steps DEF TypeInv, TypeOK, Job, Updates, Parts
<1>3. row[SiteOf[t]][p] = job[t].by
  BY <1>1, <1>2 DEF LookedInv, Looks
<1>4. row'[SiteOf[t]][p] = row[SiteOf[t]][p]
  BY <1>1, <1>2, PartKept
<1> QED
  BY <1>1, <1>3, <1>4

LEMMA LookedInvariant == Spec => [](TypeInv /\ MutexInv /\ LookedInv)
<1>1. Init => TypeInv /\ MutexInv /\ LookedInv
  <2> SUFFICES ASSUME Init
               PROVE  TypeInv /\ MutexInv /\ LookedInv
    OBVIOUS
  <2>1. \A t \in Thread : job[t].at = "idle"
    BY DEF Init, Idle
  <2> QED
    BY <2>1, InitTypeInv DEF MutexInv, LookedInv, Updates, Busy
<1>2. TypeInv /\ MutexInv /\ LookedInv /\ [Next]_vars
        => (TypeInv /\ MutexInv /\ LookedInv)'
  BY NextTypeInv, NextMutex, NextLooked
<1> QED
  BY <1>1, <1>2, PTL DEF Spec

\* However many sites and threads there are: a deregistration by one CSCF,
\* or a cancellation at one MME, clears the row of no other, unless another
\* update of that part overlapped with one at some time.
THEOREM OnlyOwnCleared == Spec => ClearsOwn
<1>1. TypeInv /\ LookedInv /\ [Next]_vars
        => [\A t \in Thread :
              /\ job[t].kind \in {"sar_dereg", "push_clr"}
              /\ job[t].at = "commit" /\ job'[t].at # "commit"
              /\ ~Excused(job[t].part, {"overlap"})
              => row[SiteOf[t]][job[t].part] = job[t].by]_vars
  BY DEF LookedInv, Excused
<1> QED
  BY <1>1, LookedInvariant, PTL DEF Spec, ClearsOwn

-----------------------------------------------------------------------------
LEMMA ClrKept ==
  ASSUME TypeInv, [Next]_vars
  PROVE  clr' = clr
<1>1. ASSUME NEW t \in Thread,
             \/ Ulr(t) \/ Pur(t) \/ Sar(t) \/ SarDereg(t) \/ UarDereg(t)
             \/ PushClr(t) \/ Deregister(t)
      PROVE  clr' = clr
  BY <1>1, RequestSteps DEF Request
<1>2. ASSUME NEW t \in Thread, Update(t)
      PROVE  clr' = clr
  BY <1>2 DEF Update, Check, Load, LoadClr, LoadFails, Commit, CommitFails,
              Reload, QueueCopy
<1>3. ASSUME NEW s \in Site,
             \/ PostClr(s)
             \/ \E r \in Site : GiveUp(s, r)
             \/ \E t \in Api : Deliver(t, s)
      PROVE  clr' = clr
  BY <1>3 DEF PostClr, GiveUp, Deliver
<1> QED
  BY <1>1, <1>2, <1>3, EndSteps DEF Next, Thread, vars

LEMMA StoredMme ==
  ASSUME NEW now, NEW seen, NEW new,
         seen.mme = now.mme, seen.peer = now.peer
  PROVE  /\ Stored(now, seen, new, "mme").mme = new.mme
         /\ Stored(now, seen, new, "mme").peer = new.peer
BY DEF Stored, Columns

LEMMA SameSound ==
  ASSUME NEW q, NEW r, q.mme = r.mme, q.peer = r.peer, Sound(r)
  PROVE  Sound(q)
BY DEF Sound, HssKnown

\* Nothing overlaps and CLRs are disabled, before and after the step.
Calm == /\ TypeInv /\ MutexInv /\ [Next]_vars /\ Clear /\ Clear'
        /\ RowsSound /\ MailSound /\ \A t \in Thread : JobSound(t)

LEMMA CalmRows ==
  ASSUME Calm
  PROVE  RowsSound'
<1> SUFFICES ASSUME NEW s \in Site
             PROVE  Sound(row'[s])
  BY DEF RowsSound
<1>1. CASE row'[s] = row[s]
  BY <1>1 DEF Calm, RowsSound
<1>2. ASSUME NEW t \in Thread, Commit(t), SiteOf[t] = s,
             row'[s] = Stored(row[s], job[t].seen, job[t].new, job[t].part)
      PROVE  Sound(row'[s])
  <2>1. job[t].at = "commit" /\ job[t].part \in Part /\ row[s] \in Row
    BY <1>2 DEF Commit, Calm, TypeInv, TypeOK, Job
  <2>2. CASE job[t].part = "mme"
    <3>1. /\ Sound(job[t].new)
          /\ job[t].seen.mme = row[s].mme /\ job[t].seen.peer = row[s].peer
      BY <1>2, <2>1, <2>2 DEF Calm, JobSound
    <3>2. row'[s].mme = job[t].new.mme /\ row'[s].peer = job[t].new.peer
      BY <1>2, <2>2, <3>1, StoredMme
    <3> QED
      BY <3>1, <3>2, SameSound
  <2>3. CASE job[t].part = "scscf"
    <3>1. row'[s].mme = row[s].mme /\ row'[s].peer = row[s].peer
      BY <1>2, <2>1, <2>3 DEF Stored, Columns
    <3>2. Sound(row[s])
      BY DEF Calm, RowsSound
    <3> QED
      BY <3>1, <3>2, SameSound
  <2> QED
    BY <2>1, <2>2, <2>3 DEF Part
<1> QED
  BY <1>1, <1>2, RowSteps DEF Calm

LEMMA CalmUpdates ==
  ASSUME Calm, NEW t \in Thread, Update(t)
  PROVE  JobSound(t)'
<1> DEFINE j == job[t]
           s == SiteOf[t]
<1>1. /\ job \in [Thread -> Job] /\ j \in Job /\ s \in Site
      /\ JobSound(t) /\ Sound(row[s]) /\ ~clr /\ row[s] \in Row
  BY HssAssumption DEF Calm, TypeInv, TypeOK, RowsSound, Clear
<1>2. CASE Updated(t) \/ job'[t] = Finished(j) \/ job'[t] = Idle
  <2>1. \/ job'[t].part = "scscf"
        \/ job'[t].at \in {"answer", "idle"}
    <3>1. CASE job'[t] = Finished(j)
      BY <1>1, <3>1, FinishedAt
    <3>2. CASE job'[t] = Idle
      BY <3>2 DEF Idle
    <3>3. CASE Updated(t) /\ job'[t] # Finished(j)
      <4>1. job'[t] = Onward(j)
        BY <1>1, <3>3 DEF Updated, Onward
      <4>2. job'[t] = [j EXCEPT !.at = "load", !.part = "scscf",
                                !.more = FALSE]
        BY <3>3, <4>1 DEF Onward
      <4> QED
        BY <1>1, <4>2 DEF Job
    <3> QED
      BY <1>2, <3>1, <3>2, <3>3
  <2> QED
    BY <2>1 DEF JobSound
<1>3. CASE Check(t) /\ job'[t] # Finished(j)
  <2>1. job'[t] = [j EXCEPT !.at = "load"] /\ j.at = "check"
    BY <1>1, <1>3 DEF Check
  <2>2. /\ job'[t].at = "load" /\ job'[t].new = j.new
        /\ job'[t].part = j.part
    BY <1>1, <2>1 DEF Job
  <2> QED
    BY <1>1, <2>1, <2>2 DEF JobSound
<1>4. CASE Load(t)
  <2>1. /\ job'[t].at = "commit" /\ job'[t].new = j.new
        /\ job'[t].part = j.part /\ job'[t].seen = row[s]
        /\ j.at = "load" /\ row' = row
    BY <1>1, <1>4 DEF Load, Job
  <2> QED
    BY <1>1, <2>1 DEF JobSound
<1>5. CASE Commit(t) /\ job'[t] # Finished(j)
  <2>1. job'[t].at = "reload"
    BY <1>1, <1>5 DEF Commit, Job
  <2> QED
    BY <2>1 DEF JobSound
<1>6. CASE Reload(t)
  <2>1. job'[t].at = "copy" /\ job'[t].seen = row[s]
    BY <1>1, <1>6 DEF Reload, Job
  <2> QED
    BY <1>1, <2>1 DEF JobSound
<1>7. CASE CommitFails(t)
  <2>1. Updated(t) \/ job'[t] = Idle
    BY <1>1, <1>7 DEF CommitFails
  <2> QED
    BY <1>2, <2>1
<1> QED
  BY <1>1, <1>2, <1>3, <1>4, <1>5, <1>6, <1>7
    DEF Update, LoadClr, LoadFails, EvaluatesClr, QueueCopy

LEMMA CalmJobs ==
  ASSUME Calm, NEW t \in Thread
  PROVE  JobSound(t)'
<1> DEFINE j == job[t]
           s == SiteOf[t]
<1>1. /\ s \in Site /\ JobSound(t) /\ TypeInv
      /\ mail \in [Site -> [Site -> Seq(Copy)]]
  BY HssAssumption DEF Calm, TypeInv, TypeOK
<1>2. CASE job'[t] = j
  <2>1. CASE j.part = "mme" /\ j.at = "commit"
    <3>1. Updates(t, "mme") /\ "mme" \in Part
      BY <2>1 DEF Updates, Busy, Parts, Part
    <3>2. ~Commit(t)
      BY <1>1, <1>2, <2>1, CommitEnds
    <3>3. /\ row'[s].mme = row[s].mme
          /\ row'[s].peer = row[s].peer
      BY <3>1, <3>2, PartKept DEF Calm, Clear
    <3> QED
      BY <1>1, <1>2, <3>3 DEF JobSound
  <2>2. CASE ~(j.part = "mme" /\ j.at = "commit")
    BY <1>1, <1>2, <2>2 DEF JobSound
  <2> QED
    BY <2>1, <2>2
<1>3. CASE job'[t] = Idle
  BY <1>3 DEF Idle, JobSound
<1>4. ASSUME NEW k, job'[t] = k, Starts(k)
      PROVE  JobSound(t)'
  BY <1>4 DEF Starts, JobSound
<1>5. ASSUME NEW r \in Site, mail[r][s] # << >>, job'[t] = Delivered(t, r)
      PROVE  JobSound(t)'
  <2> DEFINE copy == Head(mail[r][s])
  <2>1. mail[r][s] \in Seq(Copy)
    BY <1>1
  <2>2. 1 \in 1 .. Len(mail[r][s]) /\ copy = mail[r][s][1]
    BY <1>5, <2>1
  <2>3. copy.part = "mme" => Sound(copy.row)
    BY <1>1, <2>2 DEF Calm, MailSound
  <2>4. /\ job'[t].at = "load" /\ job'[t].part = copy.part
        /\ job'[t].new = copy.row
    BY <1>5 DEF Delivered, Handler
  <2> HIDE DEF copy
  <2> QED
    BY <2>3, <2>4 DEF JobSound
<1> QED
  BY <1>1, <1>2, <1>3, <1>4, <1>5, HandlerSteps, CalmUpdates DEF Calm

LEMMA MailSteps ==
  ASSUME TypeInv, [Next]_vars
  PROVE  \/ UNCHANGED mail
         \/ \E t \in Thread : /\ job[t].at = "copy"
                             /\ Queue(SiteOf[t], job[t].part, job[t].seen)
         \/ \E s, r \in Site : mail[s][r] # << >> /\ Pop(s, r)
<1>1. ASSUME NEW t \in Thread,
             \/ Ulr(t) \/ Pur(t) \/ Sar(t) \/ SarDereg(t) \/ UarDereg(t)
             \/ PushClr(t) \/ Deregister(t)
      PROVE  UNCHANGED mail
  BY <1>1, RequestSteps DEF Request
<1>2. ASSUME NEW t \in Thread, Update(t)
      PROVE  \/ UNCHANGED mail
             \/ /\ job[t].at = "copy"
                /\ Queue(SiteOf[t], job[t].part, job[t].seen)
  BY <1>2 DEF Update, Check, Load, LoadClr, LoadFails, Commit, CommitFails,
              Reload, QueueCopy
<1>3. ASSUME NEW t \in Thread, AnswerUlr(t) \/ AnswerSar(t) \/ Die(t)
      PROVE  UNCHANGED mail
  BY <1>3 DEF AnswerUlr, AnswerSar, Die
<1>4. ASSUME NEW t \in Api, Respond(t)
      PROVE  \/ UNCHANGED mail
             \/ \E s, r \in Site : mail[s][r] # << >> /\ Pop(s, r)
  <2>1. Works(t) /\ t \in Thread /\ SiteOf[t] \in Site
    BY <1>4, HssAssumption DEF Respond, Ends, Works, Busy, Thread
  <2>2. job[t].by \in Site /\ mail[job[t].by][SiteOf[t]] # << >>
    BY <2>1 DEF TypeInv, HandlerInv, HandlerOf, HandInv, Works, Busy
  <2> QED
    BY <1>4, <2>1, <2>2 DEF Respond
<1>5. ASSUME NEW s \in Site,
             \/ PostClr(s)
             \/ \E r \in Site : GiveUp(s, r)
             \/ \E t \in Api : Deliver(t, s)
      PROVE  \/ UNCHANGED mail
             \/ \E r \in Site : mail[s][r] # << >> /\ Pop(s, r)
  BY <1>5 DEF PostClr, GiveUp, Deliver
<1> QED
  BY <1>1, <1>2, <1>3, <1>4, <1>5 DEF Next, Thread, vars

LEMMA CalmMail ==
  ASSUME Calm
  PROVE  MailSound'
<1>1. /\ mail \in [Site -> [Site -> Seq(Copy)]]
      /\ TypeInv
  BY DEF Calm, TypeInv, TypeOK
<1>2. CASE UNCHANGED mail
  BY <1>2 DEF Calm, MailSound
<1>3. ASSUME NEW t \in Thread, job[t].at = "copy",
             Queue(SiteOf[t], job[t].part, job[t].seen)
      PROVE  MailSound'
  <2> DEFINE copy == [part |-> job[t].part, row |-> job[t].seen]
             s == SiteOf[t]
  <2>1. copy \in Copy /\ (copy.part = "mme" => Sound(copy.row))
    <3>1. job[t] \in Job /\ JobSound(t)
      BY DEF Calm, TypeInv, TypeOK
    <3> QED
      BY <1>3, <3>1 DEF JobSound, Job, Copy
  <2>2. s \in Site
    BY HssAssumption
  <2>3. \A p, q \in Site :
          \/ mail'[p][q] = mail[p][q]
          \/ mail'[p][q] = Append(mail[p][q], copy)
    BY <1>1, <1>3, <2>2 DEF Queue
  <2> HIDE DEF copy
  <2> SUFFICES ASSUME NEW p \in Site, NEW q \in Site,
                      NEW i \in 1 .. Len(mail'[p][q]),
                      mail'[p][q][i].part = "mme"
               PROVE  Sound(mail'[p][q][i].row)
    BY DEF MailSound
  <2>4. mail[p][q] \in Seq(Copy)
    BY <1>1
  <2>5. \/ i \in 1 .. Len(mail[p][q]) /\ mail'[p][q][i] = mail[p][q][i]
        \/ mail'[p][q][i] = copy
    <3>1. CASE mail'[p][q] = mail[p][q]
      BY <3>1
    <3>2. CASE mail'[p][q] = Append(mail[p][q], copy)
      <4>1. Len(mail[p][q]) \in Nat
        BY <2>4
      <4>2. /\ Len(mail'[p][q]) = Len(mail[p][q]) + 1
            /\ mail'[p][q][Len(mail[p][q]) + 1] = copy
            /\ \A n \in 1 .. Len(mail[p][q]) :
                 mail'[p][q][n] = mail[p][q][n]
        BY <2>1, <2>4, <3>2, AppendProperties
      <4> QED
        BY <4>1, <4>2
    <3> QED
      BY <2>3, <3>1, <3>2
  <2> QED
    BY <2>1, <2>5 DEF Calm, MailSound
<1>4. ASSUME NEW s \in Site, NEW r \in Site, mail[s][r] # << >>, Pop(s, r)
      PROVE  MailSound'
  <2>1. mail'[s][r] = Tail(mail[s][r])
    BY <1>1, <1>4 DEF Pop
  <2>2. \A p, q \in Site : <<p, q>> # <<s, r>> => mail'[p][q] = mail[p][q]
    BY <1>1, <1>4, PopTypes
  <2> SUFFICES ASSUME NEW p \in Site, NEW q \in Site,
                      NEW i \in 1 .. Len(mail'[p][q]),
                      mail'[p][q][i].part = "mme"
               PROVE  Sound(mail'[p][q][i].row)
    BY DEF MailSound
  <2>3. CASE <<p, q>> # <<s, r>>
    BY <2>2, <2>3 DEF Calm, MailSound
  <2>4. CASE p = s /\ q = r
    <3>1. mail[s][r] \in Seq(Copy)
      BY <1>1
    <3>2. /\ i + 1 \in 1 .. Len(mail[s][r])
          /\ mail'[p][q][i] = mail[s][r][i + 1]
      <4> DEFINE m == mail[s][r]
      <4>1. /\ Len(Tail(m)) = Len(m) - 1 /\ Len(m) \in Nat
            /\ \A n \in 1 .. Len(Tail(m)) : Tail(m)[n] = m[n + 1]
        <5> HIDE DEF m
        <5> QED
          BY <1>4, <3>1, HeadTailProperties DEF m
      <4>2. mail'[p][q] = Tail(m) /\ i \in 1 .. Len(Tail(m))
        BY <2>1, <2>4
      <4> HIDE DEF m
      <4>3. i + 1 \in 1 .. Len(m) /\ Tail(m)[i] = m[i + 1]
        BY <4>1, <4>2
      <4> QED
        BY <4>2, <4>3 DEF m
    <3> QED
      BY <2>4, <3>2 DEF Calm, MailSound
  <2> QED
    BY <2>3, <2>4
<1> QED
  BY <1>1, <1>2, <1>3, <1>4, MailSteps DEF Calm

LEMMA NextPeer ==
  ASSUME TypeInv, MutexInv, PeerInv, [Next]_vars
  PROVE  PeerInv'
<1> SUFFICES ASSUME Clear'
             PROVE  /\ RowsSound' /\ MailSound'
                    /\ \A t \in Thread : JobSound(t)'
  BY DEF PeerInv
<1>1. Clear
  BY Steps, ClrKept DEF Clear
<1>2. Calm
  BY <1>1 DEF Calm, PeerInv
<1> QED
  BY <1>2, CalmRows, CalmMail, CalmJobs

LEMMA PeerInvariant == Spec => [](TypeInv /\ MutexInv /\ PeerInv)
<1>1. Init => TypeInv /\ MutexInv /\ PeerInv
  <2> SUFFICES ASSUME Init
               PROVE  TypeInv /\ MutexInv /\ PeerInv
    OBVIOUS
  <2>1. \A t \in Thread : job[t].at = "idle"
    BY DEF Init, Idle
  <2>2. MutexInv /\ \A t \in Thread : JobSound(t)
    BY <2>1 DEF MutexInv, JobSound, Updates, Busy
  <2>3. RowsSound
    BY EmptyIsSound DEF Init, RowsSound
  <2>4. MailSound
    BY DEF Init, MailSound
  <2> QED
    BY <2>2, <2>3, <2>4, InitTypeInv DEF PeerInv
<1>2. TypeInv /\ MutexInv /\ PeerInv /\ [Next]_vars
        => (TypeInv /\ MutexInv /\ PeerInv)'
  BY NextTypeInv, NextMutex, NextPeer
<1> QED
  BY <1>1, <1>2, PTL DEF Spec

\* However many sites, threads and copies there are, and whatever is lost: a
\* row that names an MME has the peer that leads to it, with its HSS, as long
\* as no two updates of the MME overlapped and CLRs are disabled.
THEOREM PeersLead == Spec => []PeerOfMme
<1>1. PeerInv => PeerOfMme
  BY DEF PeerInv, PeerOfMme, Clear, Excused, RowsSound, Sound
<1> QED
  BY <1>1, PeerInvariant, PTL

-----------------------------------------------------------------------------
\* The columns of a part on which the sites are to agree.
Shared(p) == Columns(p) \ (IF clr THEN {"peer"} ELSE {})

\* Two rows have the same values in some columns.
Alike(cols, a, b) == \A c \in cols : a[c] = b[c]

\* A site that has row now, once it has stored the copies of queue m in their
\* order, has the values of row v in columns cols, those of part p: the last
\* copy of p has them or, without one, the row has.
Arrives(cols, p, m, now, v) ==
  \E k \in 0 .. Len(m) :
    /\ IF k = 0 THEN Alike(cols, now, v)
       ELSE m[k].part = p /\ Alike(cols, m[k].row, v)
    /\ \A i \in k + 1 .. Len(m) : m[i].part # p

\* A request's handler, which updates part p.
Local(t, p) == Updates(t, p) /\ job[t].kind # "geored"

\* Part p is stored at its own site, the copy is still to be queued.
Pending(t, p) == /\ job[t].kind # "geored" /\ job[t].part = p
                 /\ job[t].at \in {"reload", "copy"}

\* Every other site has p as site s has it, or will have.
Reached(p, s) ==
  \A r \in Site \ {s} : Arrives(Shared(p), p, mail[s][r], row[r], row[s])

\* Site s is where p is updated, and nowhere else.
Leads(p, s) ==
  /\ \A t \in Thread : Local(t, p) => SiteOf[t] = s
  /\ \A q \in Site \ {s} : ~OnItsWay(q, p)
  /\ (\E t \in Thread : Pending(t, p)) \/ Reached(p, s)

\* What an update from another site is at work on.
HeadInv ==
  \A t \in Thread : Works(t) =>
    LET copy == Head(mail[job[t].by][SiteOf[t]])
    IN  /\ job[t].at \in {"load", "commit", "answer"}
        /\ job[t].part = copy.part
        /\ job[t].at # "answer" =>
             Alike(Shared(job[t].part), job[t].new, copy.row)

Calmly(p) == ~Excused(p, {"overlap", "lost", "frozen"})

\* What a handler has read is there still; what it has stored, too.
KeptInv ==
  \A t \in Thread, p \in Part :
    job[t].part = p /\ Calmly(p) =>
      /\ job[t].at \in {"commit", "copy"} =>
           Alike(Columns(p), job[t].seen, row[SiteOf[t]])
      /\ Works(t) /\ job[t].at = "answer" =>
           Alike(Shared(p), row[SiteOf[t]],
                 Head(mail[job[t].by][SiteOf[t]]).row)

LeadInv ==
  Site # {} => \A p \in Part : Calmly(p) => \E s \in Site : Leads(p, s)

-----------------------------------------------------------------------------
\* Queues of copies.
LEMMA ArrivesQueued ==
  ASSUME NEW cols, NEW p, NEW m \in Seq(Copy), NEW now, NEW v,
         NEW copy \in Copy, copy.part = p, Alike(cols, copy.row, v)
  PROVE  Arrives(cols, p, Append(m, copy), now, v)
<1>1. /\ Len(m) \in Nat /\ Len(Append(m, copy)) = Len(m) + 1
      /\ Append(m, copy)[Len(m) + 1] = copy
  BY AppendProperties
<1> QED
  BY <1>1 DEF Arrives

LEMMA ArrivesBesides ==
  ASSUME NEW cols, NEW p, NEW m \in Seq(Copy), NEW now, NEW v,
         NEW copy \in Copy, copy.part # p, Arrives(cols, p, m, now, v)
  PROVE  Arrives(cols, p, Append(m, copy), now, v)
<1>1. /\ Len(m) \in Nat /\ Len(Append(m, copy)) = Len(m) + 1
      /\ Append(m, copy)[Len(m) + 1] = copy
      /\ \A i \in 1 .. Len(m) : Append(m, copy)[i] = m[i]
  BY AppendProperties
<1>2. PICK k \in 0 .. Len(m) :
        /\ IF k = 0 THEN Alike(cols, now, v)
           ELSE m[k].part = p /\ Alike(cols, m[k].row, v)
        /\ \A i \in k + 1 .. Len(m) : m[i].part # p
  BY DEF Arrives
<1>3. k \in 0 .. Len(Append(m, copy))
  BY <1>1
<1>4. k # 0 => Append(m, copy)[k] = m[k]
  BY <1>1
<1>5. \A i \in k + 1 .. Len(Append(m, copy)) : Append(m, copy)[i].part # p
  BY <1>1, <1>2
<1> QED
  BY <1>2, <1>3, <1>4, <1>5 DEF Arrives

\* The site has stored the first copy, if it is one of p.
LEMMA ArrivesTaken ==
  ASSUME NEW cols, NEW p, NEW m \in Seq(Copy), m # << >>, NEW now, NEW v,
         Arrives(cols, p, m, now, v),
         Head(m).part = p => Alike(cols, now, Head(m).row)
  PROVE  Arrives(cols, p, Tail(m), now, v)
<1>1. /\ Len(m) \in Nat /\ Len(m) > 0 /\ Len(Tail(m)) = Len(m) - 1
      /\ Head(m) = m[1] /\ \A i \in 1 .. Len(Tail(m)) : Tail(m)[i] = m[i + 1]
  BY HeadTailProperties, EmptySeq
<1>2. PICK k \in 0 .. Len(m) :
        /\ IF k = 0 THEN Alike(cols, now, v)
           ELSE m[k].part = p /\ Alike(cols, m[k].row, v)
        /\ \A i \in k + 1 .. Len(m) : m[i].part # p
  BY DEF Arrives
<1>3. CASE k \in {0, 1}
  <2>1. Alike(cols, now, v)
    BY <1>1, <1>2, <1>3 DEF Alike
  <2>2. \A i \in 1 .. Len(Tail(m)) : Tail(m)[i].part # p
    BY <1>1, <1>2, <1>3
  <2>3. 0 \in 0 .. Len(Tail(m))
    BY <1>1
  <2> QED
    BY <2>1, <2>2, <2>3 DEF Arrives
<1>4. CASE k \notin {0, 1}
  <2>1. k - 1 \in 1 .. Len(Tail(m)) /\ Tail(m)[k - 1] = m[k]
    BY <1>1, <1>4
  <2>2. \A i \in (k - 1) + 1 .. Len(Tail(m)) : Tail(m)[i].part # p
    <3> TAKE i \in (k - 1) + 1 .. Len(Tail(m))
    <3>1. i \in 1 .. Len(Tail(m)) /\ i + 1 \in k + 1 .. Len(m)
      BY <1>1, <1>4
    <3> QED
      BY <1>1, <1>2, <3>1
  <2>3. k - 1 \in 0 .. Len(Tail(m)) /\ k - 1 # 0
    BY <1>1, <1>4
  <2> QED
    BY <1>2, <1>4, <2>1, <2>2, <2>3 DEF Arrives
<1> QED
  BY <1>3, <1>4

\* With a copy of p first, the row at the site does not count.
LEMMA ArrivesOver ==
  ASSUME NEW cols, NEW p, NEW m \in Seq(Copy), m # << >>, NEW now, NEW then,
         NEW v, Arrives(cols, p, m, now, v), Head(m).part = p
  PROVE  Arrives(cols, p, m, then, v)
<1>1. Len(m) \in Nat /\ Len(m) > 0 /\ Head(m) = m[1]
  BY HeadTailProperties, EmptySeq
<1>2. PICK k \in 0 .. Len(m) :
        /\ IF k = 0 THEN Alike(cols, now, v)
           ELSE m[k].part = p /\ Alike(cols, m[k].row, v)
        /\ \A i \in k + 1 .. Len(m) : m[i].part # p
  BY DEF Arrives
<1>3. k # 0
  BY <1>1, <1>2
<1> QED
  BY <1>2, <1>3 DEF Arrives

\* With no copy of p, the row is all there is.
LEMMA ArrivesAlone ==
  ASSUME NEW cols, NEW p, NEW m \in Seq(Copy), NEW now, NEW v,
         \A i \in 1 .. Len(m) : m[i].part # p
  PROVE  Arrives(cols, p, m, now, v) <=> Alike(cols, now, v)
<1>1. Len(m) \in Nat
  OBVIOUS
<1>2. ASSUME Arrives(cols, p, m, now, v)
      PROVE  Alike(cols, now, v)
  <2>1. PICK k \in 0 .. Len(m) :
          IF k = 0 THEN Alike(cols, now, v)
          ELSE m[k].part = p /\ Alike(cols, m[k].row, v)
    BY <1>2 DEF Arrives
  <2>2. k = 0
    BY <1>1, <2>1
  <2> QED
    BY <2>1, <2>2
<1>3. ASSUME Alike(cols, now, v)
      PROVE  Arrives(cols, p, m, now, v)
  BY <1>1, <1>3 DEF Arrives
<1> QED
  BY <1>2, <1>3

\* Only the columns of p count.
LEMMA ArrivesAlike ==
  ASSUME NEW cols, NEW p, NEW m, NEW now, NEW then, NEW v, NEW w,
         Arrives(cols, p, m, now, v),
         Alike(cols, now, then), Alike(cols, v, w)
  PROVE  Arrives(cols, p, m, then, w)
<1>1. PICK k \in 0 .. Len(m) :
        /\ IF k = 0 THEN Alike(cols, now, v)
           ELSE m[k].part = p /\ Alike(cols, m[k].row, v)
        /\ \A i \in k + 1 .. Len(m) : m[i].part # p
  BY DEF Arrives
<1>2. IF k = 0 THEN Alike(cols, then, w)
      ELSE m[k].part = p /\ Alike(cols, m[k].row, w)
  BY <1>1 DEF Alike
<1> QED
  BY <1>1, <1>2 DEF Arrives

-----------------------------------------------------------------------------
Asks(t) ==
  \/ Ulr(t) \/ Pur(t) \/ Sar(t) \/ SarDereg(t) \/ UarDereg(t)
  \/ PushClr(t) \/ Deregister(t)

\* Who acts in a step.
LEMMA Acts ==
  ASSUME TypeInv, [Next]_vars
  PROVE  \/ UNCHANGED <<row, job, mail, cause, ueAt, imsAt>>
         \/ \E t \in Thread : \E j, why :
              Request(t, j, why) /\ Starts(j) /\ Asks(t)
         \/ \E t \in Thread : Update(t)
         \/ \E t \in Thread : AnswerUlr(t) \/ AnswerSar(t) \/ Die(t)
         \/ \E t \in Api : Respond(t)
         \/ \E t \in Api, s \in Site : Deliver(t, s)
         \/ \E s, r \in Site : GiveUp(s, r)
<1>1. CASE UNCHANGED vars
  BY <1>1 DEF vars, external
<1>2. ASSUME NEW t \in Thread, Asks(t)
      PROVE  \E j, why : Request(t, j, why) /\ Starts(j)
  BY <1>2, RequestSteps DEF Asks
<1>3. ASSUME NEW s \in Site, PostClr(s)
      PROVE  UNCHANGED <<row, job, mail, cause, ueAt, imsAt>>
  BY <1>3 DEF PostClr
<1> QED
  BY <1>1, <1>2, <1>3 DEF Next, Thread, Asks

LEMMA CalmBefore ==
  ASSUME TypeInv, [Next]_vars, NEW p, Calmly(p)'
  PROVE  Calmly(p)
BY Steps DEF Calmly, Excused

\* The step of one thread leaves the others theirs.
LEMMA OthersStay ==
  ASSUME TypeInv, NEW t \in Thread,
         \/ Update(t) \/ AnswerUlr(t) \/ AnswerSar(t) \/ Die(t) \/ Respond(t)
         \/ \E j, why : Request(t, j, why)
         \/ \E s \in Site : Deliver(t, s)
  PROVE  \A u \in Thread \ {t} : job'[u] = job[u]
<1>1. CASE \E j, why : Request(t, j, why)
  BY <1>1, BeginSteps DEF Request, JobStep
<1>2. CASE \E s \in Site : Deliver(t, s)
  BY <1>2, BeginSteps DEF Deliver, JobStep
<1> QED
  BY <1>1, <1>2, UpdateSteps, EndSteps DEF JobStep

LEMMA Working ==
  ASSUME TypeInv, NEW t \in Thread, Works(t)
  PROVE  /\ t \in Api /\ SiteOf[t] \in Site /\ job[t].by \in Site
         /\ mail[job[t].by][SiteOf[t]] \in Seq(Copy)
         /\ mail[job[t].by][SiteOf[t]] # << >>
         /\ ~job[t].more /\ job[t] \in Job
<1>1. SiteOf[t] \in Site /\ job[t].by \in Site
  BY HssAssumption DEF TypeInv, HandlerInv, HandlerOf, Works, Busy
<1> QED
  BY <1>1 DEF TypeInv, TypeOK, HandlerInv, HandlerOf, HandInv, Works, Busy

\* How the queues change.
LEMMA Queued ==
  ASSUME TypeInv, NEW t \in Thread,
         Queue(SiteOf[t], job[t].part, job[t].seen)
  PROVE  LET copy == [part |-> job[t].part, row |-> job[t].seen]
         IN  /\ copy \in Copy
             /\ \A q, r \in Site :
                  mail'[q][r] = IF q = SiteOf[t] /\ r # q
                                THEN Append(mail[q][r], copy)
                                ELSE mail[q][r]
<1>1. /\ mail \in [Site -> [Site -> Seq(Copy)]] /\ SiteOf[t] \in Site
      /\ job[t] \in Job
  BY HssAssumption DEF TypeInv, TypeOK
<1>2. [part |-> job[t].part, row |-> job[t].seen] \in Copy
  BY <1>1 DEF Job, Copy
<1> QED
  BY <1>1, <1>2 DEF Queue

LEMMA Popped ==
  ASSUME TypeInv, NEW s \in Site, NEW r \in Site, Pop(s, r)
  PROVE  \A p, q \in Site :
           mail'[p][q] = IF p = s /\ q = r THEN Tail(mail[p][q])
                         ELSE mail[p][q]
BY DEF TypeInv, TypeOK, Pop

LEMMA UpdateMail ==
  ASSUME TypeInv, NEW t \in Thread, Update(t)
  PROVE  \/ UNCHANGED mail
         \/ QueueCopy(t) /\ Queue(SiteOf[t], job[t].part, job[t].seen)
BY DEF Update, Check, Load, LoadClr, LoadFails, Commit, CommitFails,
       Reload, QueueCopy

LEMMA HeadAppended ==
  ASSUME NEW m \in Seq(Copy), m # << >>, NEW copy \in Copy
  PROVE  Head(Append(m, copy)) = Head(m)
<1>1. Len(m) \in Nat /\ Len(m) > 0 /\ Head(m) = m[1]
  BY HeadTailProperties, EmptySeq
<1> QED
  BY <1>1, AppendProperties

\* The head of the queue a thread works on stays until it has answered.
LEMMA HeadStays ==
  ASSUME TypeInv, [Next]_vars, NEW t \in Thread, Works(t), Works(t)'
  PROVE  Head(mail'[job[t].by][SiteOf[t]]) = Head(mail[job[t].by][SiteOf[t]])
<1> DEFINE s == job[t].by
           r == SiteOf[t]
<1>1. /\ t \in Api /\ r \in Site /\ s \in Site
      /\ mail[s][r] \in Seq(Copy) /\ mail[s][r] # << >>
  BY Working
<1>2. ASSUME NEW u \in Thread, Update(u)
      PROVE  Head(mail'[s][r]) = Head(mail[s][r])
  <2>1. CASE UNCHANGED mail
    BY <2>1
  <2>2. CASE Queue(SiteOf[u], job[u].part, job[u].seen)
    <3> PICK copy \in Copy :
          mail'[s][r] = mail[s][r] \/ mail'[s][r] = Append(mail[s][r], copy)
      BY <1>1, <2>2, Queued
    <3> QED
      BY <1>1, HeadAppended
  <2> QED
    BY <1>2, <2>1, <2>2, UpdateMail
<1>3. ASSUME NEW u \in Api, Respond(u)
      PROVE  Head(mail'[s][r]) = Head(mail[s][r])
  <2>1. u \in Thread /\ Works(u) /\ ~Works(u)'
    <3>1. u \in Thread /\ job' = [job EXCEPT ![u] = Idle] /\ Works(u)
      BY <1>3 DEF Respond, Ends, Works, Busy, Thread
    <3> QED
      BY <3>1 DEF Works, Busy, Idle, TypeInv, TypeOK
  <2>2. u # t
    BY <2>1
  <2>3. <<job[u].by, SiteOf[u]>> # <<s, r>>
    BY <2>1, <2>2 DEF TypeInv, HandInv
  <2>4. job[u].by \in Site /\ SiteOf[u] \in Site
    BY <2>1, Working
  <2> QED
    BY <1>1, <1>3, <2>3, <2>4, Popped DEF Respond
<1>4. ASSUME NEW q \in Site, NEW x \in Site, GiveUp(q, x)
      PROVE  Head(mail'[s][r]) = Head(mail[s][r])
  <2>1. <<q, x>> # <<s, r>>
    BY <1>1, <1>4 DEF GiveUp, InHand, Works
  <2> QED
    BY <1>1, <1>4, <2>1, Popped DEF GiveUp
<1>5. ASSUME \/ UNCHANGED mail
             \/ \E u \in Thread : \E j, why : Request(u, j, why)
             \/ \E u \in Thread : AnswerUlr(u) \/ AnswerSar(u) \/ Die(u)
             \/ \E u \in Api, q \in Site : Deliver(u, q)
      PROVE  Head(mail'[s][r]) = Head(mail[s][r])
  BY <1>5 DEF Request, AnswerUlr, AnswerSar, Die, Deliver
<1> QED
  BY <1>2, <1>3, <1>4, <1>5, Acts

\* An update from another site, step by step.
LEMMA GeoredUpdates ==
  ASSUME TypeInv, NEW t \in Thread, Update(t), Works(t)'
  PROVE  /\ Works(t) /\ job[t].at \notin {"idle", "answer"}
         /\ job'[t].by = job[t].by /\ job'[t].part = job[t].part
         /\ \/ /\ job[t].at = "check" /\ job'[t].at = "load"
            \/ /\ job[t].at = "load" /\ job'[t].at = "commit"
               /\ Alike(Shared(job[t].part), job'[t].new, job[t].new)
               /\ job'[t].seen = row[SiteOf[t]]
            \/ /\ job[t].at = "reload" /\ job'[t].at = "copy"
            \/ job'[t].at = "answer"
<1> DEFINE j == job[t]
<1>1. /\ job \in [Thread -> Job] /\ j \in Job /\ HandlerOf(j)
      /\ job'[t].kind = "geored" /\ job'[t].at # "idle"
  BY DEF TypeInv, TypeOK, HandlerInv, Works, Busy
<1>2. j.kind = "geored" => ~j.more
  BY <1>1 DEF HandlerOf
<1> DEFINE k == [j EXCEPT !.at = "answer", !.new = EmptyRow,
                          !.seen = EmptyRow]
<1>3. CASE job'[t] = Finished(j) /\ j.at # "idle" /\ j.at # "answer"
  <2>1. j.kind \in {"ulr", "sar", "geored"} /\ job'[t] = k
    BY <1>1, <1>3 DEF Finished, Idle
  <2>2. /\ k.at = "answer" /\ k.kind = j.kind /\ k.by = j.by
        /\ k.part = j.part
    BY <1>1 DEF Job
  <2> QED
    BY <1>1, <1>3, <2>1, <2>2 DEF Works, Busy
<1>4. CASE Updated(t) /\ j.at # "idle" /\ j.at # "answer"
  <2>1. job'[t] = Onward(j)
    BY <1>1, <1>4 DEF Updated, Onward
  <2>2. ~j.more
    <3> SUFFICES ASSUME j.more
                 PROVE  FALSE
      OBVIOUS
    <3>1. job'[t].kind = j.kind
      BY <1>1, <2>1 DEF Onward, Job
    <3> QED
      BY <1>1, <1>2, <3>1
  <2> QED
    BY <1>3, <1>4, <2>1, <2>2 DEF Onward
<1>5. CASE Check(t)
  BY <1>1, <1>3, <1>5 DEF Check, Works, Busy, Job
<1>6. CASE Load(t)
  BY <1>1, <1>6 DEF Load, Works, Busy, Job, Alike
<1>7. CASE LoadClr(t)
  <2>1. /\ j.at = "load" /\ clr /\ j.part = "mme"
        /\ job'[t].at = "commit" /\ job'[t].kind = j.kind
        /\ job'[t].by = j.by /\ job'[t].part = j.part
        /\ job'[t].seen = row[SiteOf[t]]
        /\ job'[t].new.mme = j.new.mme
    BY <1>1, <1>7 DEF LoadClr, EvaluatesClr, Job, Row
  <2>2. Alike(Shared(j.part), job'[t].new, j.new)
    BY <2>1 DEF Alike, Shared, Columns
  <2> QED
    BY <1>1, <2>1, <2>2 DEF Works, Busy
<1>8. CASE LoadFails(t)
  BY <1>4, <1>8 DEF LoadFails
<1>9. CASE Commit(t)
  <2>1. CASE j.kind = "geored"
    BY <1>1, <1>3, <1>9, <2>1 DEF Commit
  <2>2. CASE j.kind # "geored"
    <3>1. job'[t].kind = j.kind
      BY <1>1, <1>9, <2>2 DEF Commit, Job
    <3> QED
      BY <1>1, <2>2, <3>1
  <2> QED
    BY <2>1, <2>2
<1>10. CASE CommitFails(t)
  <2>1. Updated(t) \/ job'[t] = Idle
    BY <1>1, <1>10 DEF CommitFails
  <2> QED
    BY <1>1, <1>4, <1>10, <2>1 DEF Idle, CommitFails
<1>11. CASE Reload(t)
  BY <1>1, <1>11 DEF Reload, Works, Busy, Job
<1>12. CASE QueueCopy(t)
  BY <1>4, <1>12 DEF QueueCopy
<1> QED
  BY <1>5, <1>6, <1>7, <1>8, <1>9, <1>10, <1>11, <1>12 DEF Update

\* What a step can do to the handler of a thread.
LEMMA ThreadActs ==
  ASSUME TypeInv, [Next]_vars, NEW t \in Thread
  PROVE  \/ job'[t] = job[t]
         \/ Update(t)
         \/ \E j, why : Request(t, j, why) /\ Starts(j) /\ Asks(t)
         \/ AnswerUlr(t) \/ AnswerSar(t) \/ Die(t) \/ Respond(t)
         \/ \E s \in Site : Deliver(t, s)
<1>1. ASSUME NEW u \in Thread \ {t},
             \/ Update(u) \/ AnswerUlr(u) \/ AnswerSar(u) \/ Die(u)
             \/ Respond(u)
             \/ \E j, why : Request(u, j, why)
             \/ \E s \in Site : Deliver(u, s)
      PROVE  job'[t] = job[t]
  BY <1>1, OthersStay
<1>2. \A u \in Api : u \in Thread
  BY DEF Thread
<1>3. \A s, r \in Site : GiveUp(s, r) => UNCHANGED job
  BY DEF GiveUp
<1> QED
  BY <1>1, <1>2, <1>3, Acts

LEMMA NextHead ==
  ASSUME TypeInv, HeadInv, [Next]_vars
  PROVE  HeadInv'
<1> SUFFICES ASSUME NEW t \in Thread, Works(t)'
             PROVE  LET copy == Head(mail'[job'[t].by][SiteOf[t]])
                    IN  /\ job'[t].at \in {"load", "commit", "answer"}
                        /\ job'[t].part = copy.part
                        /\ job'[t].at # "answer" =>
                             Alike(Shared(job'[t].part), job'[t].new,
                                   copy.row)
  BY ClrKept DEF HeadInv, Alike, Shared
<1> DEFINE copy == Head(mail[job[t].by][SiteOf[t]])
<1>2. Works(t) => /\ job[t].at \in {"load", "commit", "answer"}
                  /\ job[t].part = copy.part
                  /\ job[t].at # "answer" =>
                       Alike(Shared(job[t].part), job[t].new, copy.row)
  BY DEF HeadInv
<1>3. Works(t) => Head(mail'[job[t].by][SiteOf[t]]) = copy
  BY HeadStays
<1> HIDE DEF copy
<1>4. CASE job'[t] = job[t]
  BY <1>2, <1>3, <1>4 DEF Works, Busy
<1>5. CASE Update(t)
  <2>1. /\ Works(t) /\ job'[t].by = job[t].by /\ job'[t].part = job[t].part
        /\ \/ /\ job[t].at = "load" /\ job'[t].at = "commit"
              /\ Alike(Shared(job[t].part), job'[t].new, job[t].new)
           \/ job'[t].at = "answer"
    BY <1>2, <1>5, GeoredUpdates
  <2> QED
    BY <1>2, <1>3, <2>1 DEF Alike
<1>6. ASSUME NEW j, NEW why, Request(t, j, why), Starts(j)
      PROVE  FALSE
  <2>1. job'[t] = j
    BY <1>6, BeginSteps DEF Request
  <2> QED
    BY <1>6, <2>1 DEF Starts, Works
<1>7. ASSUME NEW s \in Site, Deliver(t, s)
      PROVE  LET new == Head(mail'[job'[t].by][SiteOf[t]])
             IN  /\ job'[t].at = "load" /\ job'[t].part = new.part
                 /\ Alike(Shared(job'[t].part), job'[t].new, new.row)
  <2>1. job'[t] = Delivered(t, s) /\ mail' = mail
    BY <1>7, BeginSteps DEF Deliver, Delivered
  <2> QED
    BY <2>1 DEF Delivered, Handler, Alike
<1>8. ASSUME AnswerUlr(t) \/ AnswerSar(t) \/ Die(t) \/ Respond(t)
      PROVE  FALSE
  <2>1. job'[t] = Idle
    BY <1>8, EndSteps DEF TypeInv, TypeOK
  <2> QED
    BY <2>1 DEF Works, Busy, Idle
<1> QED
  BY <1>4, <1>5, <1>6, <1>7, <1>8, ThreadActs

\* An update that goes on has read the row just now, if it holds one.
LEMMA Reads ==
  ASSUME TypeInv, NEW t \in Thread, Update(t),
         job'[t].at \in {"commit", "copy"}
  PROVE  job'[t].seen = row[SiteOf[t]] /\ row' = row
<1> DEFINE j == job[t]
<1>1. job \in [Thread -> Job] /\ j \in Job
  BY DEF TypeInv, TypeOK
<1>2. Finished(j).at \in {"answer", "idle"}
  BY <1>1, FinishedAt
<1>3. CASE Updated(t)
  <2>1. job'[t] = Onward(j)
    BY <1>1, <1>3 DEF Updated, Onward
  <2> QED
    BY <1>1, <1>2, <2>1 DEF Onward, Job
<1>4. CASE Commit(t)
  BY <1>4, CommitEnds
<1>5. CASE Check(t)
  BY <1>1, <1>2, <1>5 DEF Check, Job
<1>6. CASE CommitFails(t)
  <2>1. Updated(t) \/ job'[t] = Idle
    BY <1>1, <1>6 DEF CommitFails
  <2> QED
    BY <1>3, <2>1 DEF Idle
<1>7. CASE Load(t)
  BY <1>1, <1>7 DEF Load, Job
<1>8. CASE LoadClr(t)
  BY <1>1, <1>8 DEF LoadClr, Job
<1>9. CASE Reload(t)
  BY <1>1, <1>9 DEF Reload, Job
<1> QED
  BY <1>3, <1>4, <1>5, <1>6, <1>7, <1>8, <1>9 DEF Update, LoadFails, QueueCopy

\* The columns of a commit whose handler has read what is there.
LEMMA StoredNew ==
  ASSUME NEW now \in Row, NEW seen, NEW new, NEW part \in Part,
         Alike(Columns(part), seen, now)
  PROVE  Alike(Columns(part), Stored(now, seen, new, part), new)
BY DEF Alike, Columns, Stored, Part, Row

LEMMA Geored ==
  ASSUME TypeInv, KeptInv, HeadInv, [Next]_vars, NEW t \in Thread, Update(t),
         Works(t)', job'[t].at = "answer",
         NEW p \in Part, job[t].part = p, Calmly(p)'
  PROVE  Alike(Shared(p), row'[SiteOf[t]],
               Head(mail[job[t].by][SiteOf[t]]).row)
<1> DEFINE s == SiteOf[t]
           copy == Head(mail[job[t].by][s])
<1>1. /\ Works(t) /\ job[t].at \in {"load", "commit"} /\ job[t] \in Job
      /\ Alike(Shared(p), job[t].new, copy.row) /\ p \in Part
      /\ job \in [Thread -> Job] /\ s \in Site /\ row \in [Site -> Row]
  BY GeoredUpdates, HssAssumption
    DEF HeadInv, TypeInv, TypeOK, Job
<1>2. Calmly(p)
  BY CalmBefore
<1>3. Commit(t)
  <2>1. ~LoadFails(t)
    BY <1>1 DEF LoadFails, EvaluatesClr, Calmly, Excused
  <2>2. ~CommitFails(t)
    BY <1>1 DEF CommitFails, Calmly, Excused
  <2>3. ~Load(t) /\ ~LoadClr(t)
    BY <1>1 DEF Load, LoadClr, Job
  <2> QED
    BY <1>1, <2>1, <2>2, <2>3 DEF Update, Check, Reload, QueueCopy
<1>4. Alike(Columns(p), job[t].seen, row[s])
  BY <1>2, <1>3 DEF KeptInv, Commit
<1>5. row'[s] = Stored(row[s], job[t].seen, job[t].new, p)
  BY <1>1, <1>3 DEF Commit
<1>6. Alike(Columns(p), row'[s], job[t].new)
  BY <1>1, <1>4, <1>5, StoredNew
<1> QED
  BY <1>1, <1>6 DEF Alike, Shared

LEMMA NextKept ==
  ASSUME TypeInv, MutexInv, HeadInv, KeptInv, [Next]_vars
  PROVE  KeptInv'
<1> SUFFICES ASSUME NEW t \in Thread, NEW p \in Part,
                    job'[t].part = p, Calmly(p)'
             PROVE  /\ job'[t].at \in {"commit", "copy"} =>
                         Alike(Columns(p), job'[t].seen, row'[SiteOf[t]])
                    /\ Works(t)' /\ job'[t].at = "answer" =>
                         Alike(Shared(p), row'[SiteOf[t]],
                               Head(mail'[job'[t].by][SiteOf[t]]).row)
  BY ClrKept DEF KeptInv, Alike, Shared
<1> DEFINE s == SiteOf[t]
           copy == Head(mail[job[t].by][s])
<1>1. /\ job \in [Thread -> Job] /\ job[t] \in Job
      /\ s \in Site
  BY HssAssumption DEF TypeInv, TypeOK, Job
<1>2. Works(t) /\ Works(t)' => Head(mail'[job[t].by][s]) = copy
  BY HeadStays
<1>3. CASE job'[t] = job[t]
  <2>1. Calmly(p) /\ job[t].part = p
    BY <1>3, CalmBefore
  <2>2. ASSUME Busy(t)
        PROVE  Alike(Columns(p), row'[s], row[s])
    <3>1. Updates(t, p)
      BY <2>1, <2>2 DEF Updates, Parts
    <3>2. ~Commit(t)
      BY <1>3, CommitEnds DEF Commit
    <3>3. <<p, "overlap">> \notin cause
      BY <2>1 DEF Calmly, Excused
    <3>4. /\ row'[s][p] = row[s][p]
          /\ p = "mme" => row'[s].peer = row[s].peer
      BY <1>1, <3>1, <3>2, <3>3, PartKept
    <3> QED
      BY <1>1, <3>4 DEF Alike, Columns, Part
  <2>3. ASSUME job[t].at \in {"commit", "copy"}
        PROVE  Alike(Columns(p), job[t].seen, row'[s])
    BY <2>1, <2>2, <2>3 DEF KeptInv, Busy, Alike
  <2>4. ASSUME Works(t), job[t].at = "answer"
        PROVE  Alike(Shared(p), row'[s], copy.row)
    <3>1. Alike(Shared(p), row[s], copy.row)
      BY <2>1, <2>4 DEF KeptInv
    <3> QED
      BY <2>2, <2>4, <3>1 DEF Busy, Alike, Shared
  <2>5. Works(t)' <=> Works(t)
    BY <1>3 DEF Works, Busy
  <2> HIDE DEF copy
  <2> QED
    BY <1>2, <1>3, <2>3, <2>4, <2>5
<1>4. CASE Update(t)
  <2>1. job'[t].at \in {"commit", "copy"} =>
          job'[t].seen = row[s] /\ row' = row
    BY <1>4, Reads
  <2>2. ASSUME Works(t)', job'[t].at = "answer"
        PROVE  Alike(Shared(p), row'[s],
                     Head(mail'[job'[t].by][s]).row)
    <3>1. Works(t) /\ job'[t].by = job[t].by /\ job[t].part = p
      BY <1>4, <2>2, GeoredUpdates
    <3>2. Alike(Shared(p), row'[s], copy.row)
      BY <1>4, <2>2, <3>1, Geored
    <3> HIDE DEF copy
    <3> QED
      BY <1>2, <2>2, <3>1, <3>2
  <2> QED
    BY <2>1, <2>2 DEF Alike
<1>5. ASSUME NEW j, NEW why, Request(t, j, why), Starts(j)
      PROVE  job'[t].at \in {"check", "load"}
  BY <1>5, BeginSteps DEF Request, Starts
<1>6. ASSUME AnswerUlr(t) \/ AnswerSar(t) \/ Die(t) \/ Respond(t)
      PROVE  job'[t].at = "idle"
  BY <1>1, <1>6, EndSteps DEF Idle
<1>7. ASSUME NEW r \in Site, Deliver(t, r)
      PROVE  job'[t].at = "load"
  BY <1>7, BeginSteps DEF Deliver, Handler
<1> QED
  BY <1>3, <1>4, <1>5, <1>6, <1>7, ThreadActs

\* A request's handler was one before, or it begins.
LEMMA LocalKept ==
  ASSUME TypeInv, [Next]_vars, NEW t \in Thread, NEW p \in Part, Local(t, p)'
  PROVE  \/ Local(t, p)
         \/ \E j, why : /\ Request(t, j, why) /\ Starts(j) /\ Asks(t)
                        /\ p \in Parts(j)
<1>1. job \in [Thread -> Job] /\ job[t] \in Job
  BY DEF TypeInv, TypeOK
<1>2. /\ job'[t].kind # "geored" /\ Busy(t)' /\ p \in Parts(job'[t])
  BY DEF Local, Updates
<1>3. CASE job'[t] = job[t]
  BY <1>2, <1>3 DEF Local, Updates, Busy
<1>4. CASE Update(t)
  <2>1. JobStep(t)
    BY <1>4, UpdateSteps
  <2>2. Busy(t)
    BY <1>1, <1>4 DEF Update, Check, Load, LoadClr, LoadFails, Commit,
                      CommitFails, Reload, QueueCopy, Busy
  <2>3. Parts(job'[t]) \subseteq Parts(job[t])
    BY <1>2, <2>1, <2>2 DEF JobStep, Begins, GoesOn
  <2>4. job[t].kind # "geored"
    <3>1. Finished(job[t]).kind # "geored" => job[t].kind # "geored"
      BY <1>1 DEF Finished, Idle, Job
    <3>2. Onward(job[t]).kind # "geored" => job[t].kind # "geored"
      BY <1>1, <3>1 DEF Onward, Job
    <3>3. Updated(t) => job'[t] = Onward(job[t])
      BY <1>1 DEF Updated, Onward
    <3>4. CASE Check(t)
      BY <1>1, <1>2, <3>1, <3>4 DEF Check, Job
    <3>5. CASE Load(t)
      BY <1>1, <1>2, <3>5 DEF Load, Job
    <3>6. CASE LoadClr(t)
      BY <1>1, <1>2, <3>6 DEF LoadClr, Job
    <3>7. CASE Commit(t)
      BY <1>1, <1>2, <3>1, <3>7 DEF Commit, Job
    <3>8. CASE CommitFails(t)
      BY <1>1, <1>2, <3>2, <3>3, <3>8 DEF CommitFails, Idle
    <3>9. CASE Reload(t)
      BY <1>1, <1>2, <3>9 DEF Reload, Job
    <3> QED
      BY <1>2, <1>4, <3>2, <3>3, <3>4, <3>5, <3>6, <3>7, <3>8, <3>9
        DEF Update, LoadFails, QueueCopy
  <2> QED
    BY <1>2, <2>2, <2>3, <2>4 DEF Local, Updates
<1>5. ASSUME AnswerUlr(t) \/ AnswerSar(t) \/ Die(t) \/ Respond(t)
      PROVE  FALSE
  BY <1>1, <1>2, <1>5, EndSteps DEF Idle
<1>6. ASSUME NEW s \in Site, Deliver(t, s)
      PROVE  FALSE
  BY <1>2, <1>6, BeginSteps DEF Deliver, Handler
<1>7. ASSUME NEW j, NEW why, Request(t, j, why)
      PROVE  p \in Parts(j)
  BY <1>2, <1>7, BeginSteps DEF Request
<1> QED
  BY <1>3, <1>4, <1>5, <1>6, <1>7, ThreadActs

\* A copy that is to be queued still is, or is queued now.
LEMMA PendingKept ==
  ASSUME TypeInv, [Next]_vars, NEW t \in Thread, NEW p \in Part,
         Pending(t, p), Calmly(p)'
  PROVE  Pending(t, p)' \/ QueueCopy(t)
<1>1. job \in [Thread -> Job] /\ job[t] \in Job
  BY DEF TypeInv, TypeOK
<1>2. CASE job'[t] = job[t]
  BY <1>2 DEF Pending
<1>3. CASE Update(t)
  <2>1. Reload(t) \/ QueueCopy(t)
    BY <1>3 DEF Pending, Update, Check, Load, LoadClr, LoadFails, Commit,
                CommitFails
  <2>2. ASSUME Reload(t)
        PROVE  Pending(t, p)'
    BY <1>1, <2>2 DEF Reload, Pending, Job
  <2> QED
    BY <2>1, <2>2
<1>4. Busy(t)
  BY DEF Pending, Busy
<1>5. ~(\E j, why : Request(t, j, why)) /\ ~(\E s \in Site : Deliver(t, s))
  BY <1>4 DEF Request, Deliver, Begin
<1>6. ~AnswerUlr(t) /\ ~AnswerSar(t) /\ ~Respond(t)
  BY DEF Pending, AnswerUlr, AnswerSar, Respond, Ends
<1>7. ~Die(t)
  BY DEF Die, Parts, Pending, Calmly, Excused
<1> QED
  BY <1>2, <1>3, <1>5, <1>6, <1>7, ThreadActs

LEMMA Reaching ==
  ASSUME TypeInv, [Next]_vars, NEW p, NEW s
  PROVE  Reached(p, s)' <=>
           \A r \in Site \ {s} :
             Arrives(Shared(p), p, mail'[s][r], row'[r], row'[s])
BY ClrKept DEF Reached, Arrives, Alike, Shared

-----------------------------------------------------------------------------
\* Site s leads in part p, in a step that leaves p undisturbed.
Led(p, s) ==
  /\ TypeInv /\ HeadInv /\ KeptInv /\ [Next]_vars
  /\ Calmly(p) /\ Calmly(p)' /\ Leads(p, s)

\* When a request for p comes nobody is at work on p, and the site it comes to
\* has p as the leader has it.
LEMMA RequestAlone ==
  ASSUME NEW p \in Part, NEW s \in Site, Led(p, s),
         NEW t \in Thread, NEW j, NEW why, Request(t, j, why), Starts(j),
         p \in Parts(j)
  PROVE  /\ \A u \in Thread : ~Local(u, p)
         /\ \A x \in Site \ {SiteOf[t]} : ~OnItsWay(x, p)
         /\ Alike(Shared(p), row[SiteOf[t]], row[s])
         /\ Reached(p, SiteOf[t])
<1> DEFINE q == SiteOf[t]
<1>1. /\ q \in Site /\ mail \in [Site -> [Site -> Seq(Copy)]]
      /\ TypeInv /\ [Next]_vars
  BY HssAssumption DEF Led, TypeInv, TypeOK
<1>2. ~Busy(t)
  BY DEF Request, Begin
<1>3. ~Overlaps(t, p, j.kind)
  <2>1. Overlaps(t, p, j.kind) => <<p, "overlap">> \in cause'
    BY DEF Request, Begin
  <2> QED
    BY <2>1 DEF Led, Calmly, Excused
<1>4. \A u \in Thread : ~Local(u, p)
  BY <1>2, <1>3 DEF Overlaps, Local, Starts, Updates
<1>5. \A x \in Site \ {q} : ~OnItsWay(x, p)
  BY <1>3 DEF Overlaps, Starts
<1>6. Reached(p, s)
  <2>1. \A u \in Thread : ~Pending(u, p)
    BY <1>4 DEF Pending, Local, Updates, Busy, Parts
  <2> QED
    BY <2>1 DEF Led, Leads
<1>7. CASE q = s
  BY <1>4, <1>5, <1>6, <1>7 DEF Alike
<1>8. CASE q # s
  <2>1. \A x, r \in Site : \A i \in 1 .. Len(mail[x][r]) :
          mail[x][r][i].part # p
    BY <1>5, <1>8 DEF Led, Leads, OnItsWay
  <2>2. \A r \in Site \ {s} : Alike(Shared(p), row[r], row[s])
    <3> TAKE r \in Site \ {s}
    <3>1. Arrives(Shared(p), p, mail[s][r], row[r], row[s])
      BY <1>6 DEF Reached
    <3>2. mail[s][r] \in Seq(Copy)
      BY <1>1
    <3> QED
      BY <2>1, <3>1, <3>2, ArrivesAlone
  <2>3. \A r \in Site : Alike(Shared(p), row[r], row[q])
    BY <1>1, <1>8, <2>2 DEF Alike
  <2>4. Reached(p, q)
    <3> SUFFICES ASSUME NEW r \in Site \ {q}
                 PROVE  Arrives(Shared(p), p, mail[q][r], row[r], row[q])
      BY DEF Reached
    <3>1. mail[q][r] \in Seq(Copy)
      BY <1>1
    <3> QED
      BY <1>1, <2>1, <2>3, <3>1, ArrivesAlone
  <2> QED
    BY <1>1, <1>4, <1>5, <1>8, <2>2, <2>4
<1> QED
  BY <1>7, <1>8

\* A request for p makes its site the leader.
LEMMA RequestLeads ==
  ASSUME NEW p \in Part, NEW s \in Site, Led(p, s),
         NEW t \in Thread, NEW j, NEW why, Request(t, j, why), Starts(j),
         p \in Parts(j)
  PROVE  Leads(p, SiteOf[t])'
<1> DEFINE q == SiteOf[t]
<1>1. TypeInv /\ [Next]_vars
  BY DEF Led
<1>2. /\ \A u \in Thread \ {t} : job'[u] = job[u]
      /\ mail' = mail /\ row' = row
  BY <1>1, BeginSteps DEF Request, JobStep
<1>3. /\ \A u \in Thread : ~Local(u, p)
      /\ \A x \in Site \ {q} : ~OnItsWay(x, p)
      /\ Reached(p, q)
  BY RequestAlone
<1>4. \A u \in Thread : Local(u, p)' => SiteOf[u] = q
  BY <1>2, <1>3 DEF Local, Updates, Busy
<1>5. \A x \in Site \ {q} : ~OnItsWay(x, p)'
  BY <1>2, <1>3 DEF OnItsWay
<1>6. Reached(p, q)'
  BY <1>1, <1>2, <1>3, Reaching DEF Reached
<1> QED
  BY <1>4, <1>5, <1>6 DEF Leads

\* A step that changes neither rows nor queues nor begins a request for p.
LEMMA StillLeads ==
  ASSUME NEW p \in Part, NEW s \in Site, Led(p, s), UNCHANGED <<row, mail>>,
         \A t \in Thread : Local(t, p)' => Local(t, p),
         \A t \in Thread : ~QueueCopy(t)
  PROVE  Leads(p, s)'
<1>1. TypeInv /\ [Next]_vars /\ Leads(p, s) /\ Calmly(p)'
  BY DEF Led
<1>2. (\E t \in Thread : Pending(t, p)) => \E t \in Thread : Pending(t, p)'
  BY <1>1, PendingKept
<1>3. Reached(p, s) => Reached(p, s)'
  BY <1>1, Reaching DEF Reached
<1>4. \A x \in Site \ {s} : ~OnItsWay(x, p)'
  BY <1>1 DEF Leads, OnItsWay
<1> QED
  BY <1>1, <1>2, <1>3, <1>4 DEF Leads

\* A copy of p is stored at a site that does not lead, and is the head of the
\* leader's queue to it.
LEMMA CopyComes ==
  ASSUME NEW p \in Part, NEW s \in Site, Led(p, s),
         NEW t \in Thread, Works(t), job[t].part = p
  PROVE  LET r == SiteOf[t]
         IN  r # s /\ mail[s][r] # << >> /\ Head(mail[s][r]).part = p
<1> DEFINE j == job[t]
           r == SiteOf[t]
<1>1. TypeInv /\ HeadInv /\ Leads(p, s) /\ \A q \in Site : mail[q][q] = << >>
  BY DEF Led, TypeInv, TypeOK
<1>2. /\ j.by \in Site /\ mail[j.by][r] # << >> /\ r \in Site
      /\ mail[j.by][r] \in Seq(Copy)
      /\ Head(mail[j.by][r]).part = p
  BY <1>1, Working DEF HeadInv
<1>3. OnItsWay(j.by, p)
  <2>1. /\ 1 \in 1 .. Len(mail[j.by][r])
        /\ Head(mail[j.by][r]) = mail[j.by][r][1]
    BY <1>2, EmptySeq
  <2> QED
    BY <1>2, <2>1 DEF OnItsWay
<1>4. j.by = s
  BY <1>1, <1>2, <1>3 DEF Leads
<1> QED
  BY <1>1, <1>2, <1>4

\* A commit: of p at its own site, of p as a copy, of the other part.
LEMMA CommitLeads ==
  ASSUME NEW p \in Part, NEW s \in Site, Led(p, s),
         NEW t \in Thread, Commit(t),
         \A u \in Thread : Local(u, p)' => Local(u, p)
  PROVE  Leads(p, s)'
<1> DEFINE j == job[t]
           r == SiteOf[t]
<1>1. /\ TypeInv /\ [Next]_vars /\ Leads(p, s) /\ Calmly(p)' /\ Calmly(p)
      /\ HeadInv /\ KeptInv
      /\ job \in [Thread -> Job] /\ j \in Job /\ r \in Site
      /\ mail \in [Site -> [Site -> Seq(Copy)]] /\ mail' = mail
      /\ row \in [Site -> Row] /\ \A q \in Site : mail[q][q] = << >>
  BY HssAssumption DEF Led, TypeInv, TypeOK, Commit
<1>2. \A x \in Site \ {s} : ~OnItsWay(x, p)'
  BY <1>1 DEF Leads, OnItsWay
<1>3. ASSUME j.part = p, j.kind # "geored"
      PROVE  Pending(t, p)'
  BY <1>1, <1>3 DEF Commit, Pending, Job
<1>4. ASSUME \A q \in Site : \/ Alike(Columns(p), row'[q], row[q])
                             \/ /\ q # s /\ mail[s][q] # << >>
                                /\ Head(mail[s][q]).part = p,
             Alike(Columns(p), row'[s], row[s])
      PROVE  Reached(p, s) => Reached(p, s)'
  <2> SUFFICES ASSUME Reached(p, s), NEW q \in Site \ {s}
               PROVE  Arrives(Shared(p), p, mail'[s][q], row'[q], row'[s])
    BY <1>1, Reaching
  <2>1. Arrives(Shared(p), p, mail[s][q], row[q], row[s])
    BY DEF Reached
  <2>2. Alike(Shared(p), row[s], row'[s])
    BY <1>4 DEF Alike, Shared
  <2>3. CASE Alike(Columns(p), row'[q], row[q])
    <3>1. Alike(Shared(p), row[q], row'[q])
      BY <2>3 DEF Alike, Shared
    <3> QED
      BY <1>1, <2>1, <2>2, <3>1, ArrivesAlike
  <2>4. CASE mail[s][q] # << >> /\ Head(mail[s][q]).part = p
    <3>1. mail[s][q] \in Seq(Copy)
      BY <1>1
    <3>2. Arrives(Shared(p), p, mail[s][q], row'[q], row[s])
      BY <2>1, <2>4, <3>1, ArrivesOver
    <3>3. Alike(Shared(p), row'[q], row'[q])
      BY DEF Alike
    <3> QED
      BY <1>1, <2>2, <3>2, <3>3, ArrivesAlike
  <2> QED
    BY <1>4, <2>3, <2>4
<1>5. (\E u \in Thread : Pending(u, p)) => \E u \in Thread : Pending(u, p)'
  <2> SUFFICES ASSUME NEW u \in Thread, Pending(u, p)
               PROVE  Pending(u, p)'
    OBVIOUS
  <2>1. u # t
    BY DEF Pending, Commit
  <2>2. job'[u] = job[u]
    BY <1>1, <2>1, OthersStay DEF Update
  <2> QED
    BY <2>2 DEF Pending
<1>6. ASSUME j.part = p, j.kind = "geored"
      PROVE  r # s /\ mail[s][r] # << >> /\ Head(mail[s][r]).part = p
  <2>1. Works(t)
    BY <1>6 DEF Works, Busy, Commit
  <2> QED
    BY <1>6, <2>1, CopyComes
<1>7. \A q \in Site \ {r} : Alike(Columns(p), row'[q], row[q])
  BY <1>1 DEF Commit, Alike
<1>8. j.part # p => Alike(Columns(p), row'[r], row[r])
  <2> SUFFICES ASSUME j.part # p
               PROVE  Alike(Columns(p), row'[r], row[r])
    OBVIOUS
  <2>1. row'[r] = Stored(row[r], j.seen, j.new, j.part)
    BY <1>1 DEF Commit
  <2>2. j.part \in Part /\ row[r] \in Row
    BY <1>1 DEF Job
  <2>3. /\ row'[r][p] = row[r][p]
        /\ j.part = "scscf" => row'[r].peer = row[r].peer
    BY <2>1, <2>2, StoredKeeps
  <2> QED
    BY <2>2, <2>3 DEF Alike, Columns, Part
<1>9. \/ \E u \in Thread : Pending(u, p)'
      \/ Reached(p, s)'
  <2>1. CASE j.part = p /\ j.kind # "geored"
    BY <1>3, <2>1
  <2>2. CASE ~(j.part = p /\ j.kind # "geored")
    <3>1. Reached(p, s) => Reached(p, s)'
      BY <1>4, <1>6, <1>7, <1>8, <2>2
    <3> QED
      BY <1>1, <1>5, <3>1 DEF Leads
  <2> QED
    BY <2>1, <2>2
<1> QED
  BY <1>1, <1>2, <1>9 DEF Leads

\* A copy is queued: of p, from the leader, or of the other part.
LEMMA QueueLeads ==
  ASSUME NEW p \in Part, NEW s \in Site, Led(p, s),
         NEW t \in Thread, QueueCopy(t),
         Queue(SiteOf[t], job[t].part, job[t].seen),
         \A u \in Thread : Local(u, p)' => Local(u, p)
  PROVE  Leads(p, s)'
<1> DEFINE j == job[t]
           q == SiteOf[t]
<1>1. /\ TypeInv /\ [Next]_vars /\ Leads(p, s) /\ Calmly(p)' /\ Calmly(p)
      /\ HeadInv /\ KeptInv
      /\ job \in [Thread -> Job] /\ j \in Job /\ q \in Site
      /\ mail \in [Site -> [Site -> Seq(Copy)]] /\ row' = row
  BY HssAssumption DEF Led, TypeInv, TypeOK, QueueCopy
<1>2. PICK copy \in Copy :
        /\ copy = [part |-> j.part, row |-> j.seen]
        /\ \A x, r \in Site :
             mail'[x][r] = IF x = q /\ r # x THEN Append(mail[x][r], copy)
                           ELSE mail[x][r]
  BY <1>1, Queued
<1>3. copy.part = j.part /\ copy.row = j.seen
  BY <1>2
<1>4. j.at = "copy" /\ j.kind # "geored"
  <2>1. j.at = "copy"
    BY DEF QueueCopy
  <2> QED
    BY <1>1, <2>1 DEF HeadInv, Works, Busy
<1>5. j.part = p => q = s
  BY <1>1, <1>4 DEF Leads, Local, Updates, Busy, Parts
<1>6. \A x \in Site \ {s} : ~OnItsWay(x, p)'
  <2> SUFFICES ASSUME NEW x \in Site \ {s}, NEW r \in Site,
                      NEW i \in 1 .. Len(mail'[x][r]),
                      mail'[x][r][i].part = p
               PROVE  FALSE
    BY DEF OnItsWay
  <2>1. \A n \in 1 .. Len(mail[x][r]) : mail[x][r][n].part # p
    BY <1>1 DEF Leads, OnItsWay
  <2>2. mail'[x][r] = Append(mail[x][r], copy) /\ x = q
    BY <1>2, <2>1
  <2>3. mail[x][r] \in Seq(Copy) /\ Len(mail[x][r]) \in Nat
    BY <1>1
  <2>4. i \in 1 .. Len(mail[x][r]) \/ mail'[x][r][i] = copy
    BY <2>2, <2>3, AppendProperties
  <2>5. i \in 1 .. Len(mail[x][r]) => mail'[x][r][i] = mail[x][r][i]
    BY <2>2, <2>3, AppendProperties
  <2>6. copy.part # p
    BY <1>3, <1>5, <2>2
  <2> QED
    BY <2>1, <2>4, <2>5, <2>6
<1>7. CASE j.part = p
  <2>1. Alike(Shared(p), j.seen, row[s])
    <3>1. Alike(Columns(p), j.seen, row[q])
      BY <1>1, <1>4, <1>7 DEF KeptInv
    <3> QED
      BY <1>5, <1>7, <3>1 DEF Alike, Shared
  <2>2. Reached(p, s)'
    <3> SUFFICES ASSUME NEW r \in Site \ {s}
                 PROVE  Arrives(Shared(p), p, mail'[s][r], row'[r], row'[s])
      BY <1>1, Reaching
    <3>1. mail'[s][r] = Append(mail[s][r], copy) /\ mail[s][r] \in Seq(Copy)
      <4>1. q = s
        BY <1>5, <1>7
      <4>2. mail[s][r] \in Seq(Copy)
        BY <1>1
      <4>3. mail'[s][r] = Append(mail[s][r], copy)
        <5> HIDE DEF q
        <5> QED
          BY <1>2, <4>1
      <4> QED
        BY <4>2, <4>3
    <3>2. copy.part = p /\ Alike(Shared(p), copy.row, row[s])
      BY <1>3, <1>7, <2>1
    <3>3. Arrives(Shared(p), p, Append(mail[s][r], copy), row[r], row[s])
      BY <3>1, <3>2, ArrivesQueued
    <3> QED
      BY <1>1, <3>1, <3>3
  <2> QED
    BY <1>1, <1>6, <2>2 DEF Leads
<1>8. CASE j.part # p
  <2>1. ASSUME NEW u \in Thread, Pending(u, p)
        PROVE  Pending(u, p)'
    <3>1. u # t
      BY <1>8, <2>1 DEF Pending
    <3>2. job'[u] = job[u]
      BY <1>1, <3>1, OthersStay DEF Update
    <3> QED
      BY <2>1, <3>2 DEF Pending
  <2>2. ASSUME Reached(p, s)
        PROVE  Reached(p, s)'
    <3> SUFFICES ASSUME NEW r \in Site \ {s}
                 PROVE  Arrives(Shared(p), p, mail'[s][r], row'[r], row'[s])
      BY <1>1, Reaching
    <3>1. Arrives(Shared(p), p, mail[s][r], row[r], row[s])
      BY <2>2 DEF Reached
    <3>2. /\ mail[s][r] \in Seq(Copy)
          /\ \/ mail'[s][r] = mail[s][r]
             \/ mail'[s][r] = Append(mail[s][r], copy)
      BY <1>1, <1>2
    <3>3. Arrives(Shared(p), p, Append(mail[s][r], copy), row[r], row[s])
      BY <1>3, <1>8, <3>1, <3>2, ArrivesBesides
    <3> QED
      BY <1>1, <3>1, <3>2, <3>3
  <2> QED
    BY <1>1, <1>6, <2>1, <2>2 DEF Leads
<1> QED
  BY <1>7, <1>8

LEMMA TailElement ==
  ASSUME NEW m \in Seq(Copy), m # << >>, NEW i \in 1 .. Len(Tail(m))
  PROVE  \E n \in 1 .. Len(m) : Tail(m)[i] = m[n]
<1>1. /\ Len(m) \in Nat /\ Len(Tail(m)) = Len(m) - 1
      /\ Tail(m)[i] = m[i + 1]
  BY HeadTailProperties, EmptySeq
<1> QED
  BY <1>1

\* A queue loses its first copy: a site has stored it, or it is of the other
\* part.
LEMMA PopLeads ==
  ASSUME NEW p \in Part, NEW s \in Site, Led(p, s),
         NEW x \in Site, NEW y \in Site, mail[x][y] # << >>, Pop(x, y),
         row' = row,
         Head(mail[x][y]).part = p =>
           Alike(Shared(p), row[y], Head(mail[x][y]).row),
         \A t \in Thread : Local(t, p)' => Local(t, p),
         \A t \in Thread : ~QueueCopy(t)
  PROVE  Leads(p, s)'
<1>1. /\ TypeInv /\ [Next]_vars /\ Leads(p, s) /\ Calmly(p)'
      /\ mail \in [Site -> [Site -> Seq(Copy)]]
  BY DEF Led, TypeInv, TypeOK
<1>2. (\E t \in Thread : Pending(t, p)) => \E t \in Thread : Pending(t, p)'
  BY <1>1, PendingKept
<1>3. \A a, b \in Site :
        mail'[a][b] = IF a = x /\ b = y THEN Tail(mail[a][b]) ELSE mail[a][b]
  BY <1>1, Popped
<1>4. \A a \in Site \ {s} : ~OnItsWay(a, p)'
  <2> SUFFICES ASSUME NEW a \in Site \ {s}, NEW b \in Site,
                      NEW i \in 1 .. Len(mail'[a][b])
               PROVE  mail'[a][b][i].part # p
    BY DEF OnItsWay
  <2>1. \A n \in 1 .. Len(mail[a][b]) : mail[a][b][n].part # p
    BY <1>1 DEF Leads, OnItsWay
  <2>2. CASE mail'[a][b] = mail[a][b]
    BY <2>1, <2>2
  <2>3. CASE mail'[a][b] = Tail(mail[a][b]) /\ mail[a][b] # << >>
    <3>1. mail[a][b] \in Seq(Copy)
      BY <1>1
    <3>2. \E n \in 1 .. Len(mail[a][b]) : mail'[a][b][i] = mail[a][b][n]
      BY <2>3, <3>1, TailElement
    <3> QED
      BY <2>1, <3>2
  <2> QED
    BY <1>3, <2>2, <2>3
<1>5. Reached(p, s) => Reached(p, s)'
  <2> SUFFICES ASSUME Reached(p, s), NEW r \in Site \ {s}
               PROVE  Arrives(Shared(p), p, mail'[s][r], row'[r], row'[s])
    BY <1>1, Reaching
  <2>1. Arrives(Shared(p), p, mail[s][r], row[r], row[s])
    BY DEF Reached
  <2>2. CASE s = x /\ r = y
    <3>1. mail[s][r] \in Seq(Copy)
      BY <1>1
    <3>2. Arrives(Shared(p), p, Tail(mail[s][r]), row[r], row[s])
      BY <2>1, <2>2, <3>1, ArrivesTaken
    <3> QED
      BY <1>3, <2>2, <3>2
  <2>3. CASE ~(s = x /\ r = y)
    BY <1>3, <2>1, <2>3
  <2> QED
    BY <2>2, <2>3
<1> QED
  BY <1>1, <1>2, <1>4, <1>5 DEF Leads

\* A copy of the other part is lost.
LEMMA LostLeads ==
  ASSUME NEW p \in Part, NEW s \in Site, Led(p, s),
         NEW t \in Thread, QueueCopy(t),
         ~Queue(SiteOf[t], job[t].part, job[t].seen),
         \A u \in Thread : Local(u, p)' => Local(u, p)
  PROVE  Leads(p, s)'
<1>1. /\ TypeInv /\ [Next]_vars /\ Leads(p, s)
      /\ UNCHANGED <<row, mail>> /\ job[t].part # p
  BY DEF Led, QueueCopy, Calmly, Excused
<1>2. ASSUME NEW u \in Thread, Pending(u, p)
      PROVE  Pending(u, p)'
  <2>1. u # t
    BY <1>1, <1>2 DEF Pending
  <2>2. job'[u] = job[u]
    BY <1>1, <2>1, OthersStay DEF Update
  <2> QED
    BY <1>2, <2>2 DEF Pending
<1>3. Reached(p, s) => Reached(p, s)'
  BY <1>1, Reaching DEF Reached
<1>4. \A x \in Site \ {s} : ~OnItsWay(x, p)'
  BY <1>1 DEF Leads, OnItsWay
<1> QED
  BY <1>1, <1>2, <1>3, <1>4 DEF Leads

\* Some site is asked to update p.
Asked(p) == \E t \in Thread : \E j, why :
              Request(t, j, why) /\ Starts(j) /\ Asks(t) /\ p \in Parts(j)

\* Nobody else takes the lead, unless a request for p does.
LEMMA LeaderStays ==
  ASSUME NEW p \in Part, NEW s \in Site, Led(p, s), ~Asked(p)
  PROVE  Leads(p, s)'
<1>1. /\ TypeInv /\ HeadInv /\ KeptInv /\ [Next]_vars
      /\ Calmly(p) /\ Calmly(p)'
  BY DEF Led
<1>2. \A t \in Thread : Local(t, p)' => Local(t, p)
  BY <1>1, LocalKept DEF Asked
<1>3. ASSUME UNCHANGED <<row, mail>>, \A t \in Thread : ~QueueCopy(t)
      PROVE  Leads(p, s)'
  BY <1>2, <1>3, StillLeads
<1>4. ASSUME NEW t \in Thread, Commit(t)
      PROVE  Leads(p, s)'
  BY <1>2, <1>4, CommitLeads
<1>5. ASSUME NEW t \in Thread, QueueCopy(t)
      PROVE  Leads(p, s)'
  <2>1. CASE Queue(SiteOf[t], job[t].part, job[t].seen)
    BY <1>2, <1>5, <2>1, QueueLeads
  <2>2. CASE ~Queue(SiteOf[t], job[t].part, job[t].seen)
    BY <1>2, <1>5, <2>2, LostLeads
  <2> QED
    BY <2>1, <2>2
<1>6. ASSUME NEW t \in Api, Respond(t), \A u \in Thread : ~QueueCopy(u)
      PROVE  Leads(p, s)'
  <2> DEFINE copy == Head(mail[job[t].by][SiteOf[t]])
  <2>1. Works(t) /\ t \in Thread /\ job[t].at = "answer" /\ row' = row
    BY <1>6 DEF Respond, Ends, Works, Busy, Thread
  <2>2. /\ job[t].by \in Site /\ SiteOf[t] \in Site
        /\ mail[job[t].by][SiteOf[t]] # << >>
    BY <1>1, <2>1, Working
  <2>3. copy.part = p => Alike(Shared(p), row[SiteOf[t]], copy.row)
    BY <1>1, <2>1 DEF HeadInv, KeptInv
  <2>4. CASE Pop(job[t].by, SiteOf[t])
    BY <1>2, <1>6, <2>1, <2>2, <2>3, <2>4, PopLeads
  <2>5. CASE UNCHANGED mail
    BY <1>3, <1>6, <2>1, <2>5
  <2> QED
    BY <1>6, <2>4, <2>5 DEF Respond
<1>7. ASSUME NEW x \in Site, NEW y \in Site, GiveUp(x, y),
             \A u \in Thread : ~QueueCopy(u)
      PROVE  Leads(p, s)'
  <2>1. Head(mail[x][y]).part # p
    BY <1>1, <1>7 DEF GiveUp, Calmly, Excused
  <2> QED
    BY <1>2, <1>7, <2>1, PopLeads DEF GiveUp
<1>8. CASE \E t \in Thread : QueueCopy(t)
  BY <1>5, <1>8
<1>9. CASE /\ \A t \in Thread : ~QueueCopy(t)
           /\ \A t \in Thread : ~Commit(t)
           /\ ~(\E t \in Api : Respond(t))
           /\ ~(\E x, y \in Site : GiveUp(x, y))
  <2>1. UNCHANGED <<row, mail>>
    <3>1. ASSUME NEW t \in Thread, Update(t)
          PROVE  UNCHANGED <<row, mail>>
      BY <1>9, <3>1 DEF Update, Check, Load, LoadClr, LoadFails,
                        CommitFails, Reload
    <3>2. ASSUME NEW t \in Thread, AnswerUlr(t) \/ AnswerSar(t) \/ Die(t)
          PROVE  UNCHANGED <<row, mail>>
      BY <3>2 DEF AnswerUlr, AnswerSar, Die
    <3>3. ASSUME NEW t \in Thread, NEW j, NEW why, Request(t, j, why)
          PROVE  UNCHANGED <<row, mail>>
      BY <3>3 DEF Request
    <3>4. ASSUME NEW t \in Api, NEW x \in Site, Deliver(t, x)
          PROVE  UNCHANGED <<row, mail>>
      BY <3>4 DEF Deliver
    <3> QED
      BY <1>1, <1>9, <3>1, <3>2, <3>3, <3>4, Acts
  <2> QED
    BY <1>3, <1>9, <2>1
<1> QED
  BY <1>4, <1>6, <1>7, <1>8, <1>9

LEMMA NextLead ==
  ASSUME TypeInv, HeadInv, KeptInv, LeadInv, [Next]_vars
  PROVE  LeadInv'
<1> SUFFICES ASSUME Site # {}, NEW p \in Part, Calmly(p)'
             PROVE  \E s \in Site : Leads(p, s)'
  BY DEF LeadInv
<1>1. Calmly(p)
  BY CalmBefore
<1>2. PICK s \in Site : Leads(p, s)
  BY <1>1 DEF LeadInv
<1>3. Led(p, s)
  BY <1>1, <1>2 DEF Led
<1>4. \A t \in Thread : SiteOf[t] \in Site
  BY HssAssumption
<1> QED
  BY <1>3, <1>4, LeaderStays, RequestLeads DEF Asked

AgreeInv == HeadInv /\ KeptInv /\ LeadInv

LEMMA InitLeads ==
  ASSUME Init, NEW p \in Part, NEW s \in Site
  PROVE  Leads(p, s)
<1>1. \A t \in Thread : ~Local(t, p)
  BY DEF Init, Idle, Local
<1>2. \A q, r \in Site : mail[q][r] = << >> /\ row[q] = row[r]
  BY DEF Init
<1>3. /\ Len(<< >>) = 0 /\ << >> \in Seq(Copy)
      /\ \A i \in 1 .. Len(<< >>) : FALSE
  OBVIOUS
<1>4. \A q \in Site : ~OnItsWay(q, p)
  BY <1>2, <1>3 DEF OnItsWay
<1>5. Reached(p, s)
  <2> SUFFICES ASSUME NEW r \in Site
               PROVE  Arrives(Shared(p), p, mail[s][r], row[r], row[s])
    BY DEF Reached
  <2>1. Alike(Shared(p), row[r], row[s])
    BY <1>2 DEF Alike
  <2> QED
    BY <1>2, <1>3, <2>1, ArrivesAlone
<1> QED
  BY <1>1, <1>4, <1>5 DEF Leads

\* When all is done, every site has p as the leader has it.
LEMMA QuietAlike ==
  ASSUME Quiet, NEW p \in Part, NEW s \in Site, Leads(p, s),
         NEW r \in Site
  PROVE  Alike(Shared(p), row[r], row[s])
<1>1. \A t \in Thread : ~Pending(t, p)
  BY DEF Quiet, Pending, Busy
<1>2. CASE r = s
  BY <1>2 DEF Alike
<1>3. CASE r # s
  <2>1. Arrives(Shared(p), p, mail[s][r], row[r], row[s])
    BY <1>1, <1>3 DEF Leads, Reached
  <2>2. mail[s][r] = << >>
    BY DEF Quiet
  <2>3. /\ << >> \in Seq(Copy) /\ \A i \in 1 .. Len(<< >>) : FALSE
    OBVIOUS
  <2> QED
    BY <2>1, <2>2, <2>3, ArrivesAlone
<1> QED
  BY <1>2, <1>3

LEMMA AgreeInvariant == Spec => [](TypeInv /\ MutexInv /\ AgreeInv)
<1>1. Init => TypeInv /\ MutexInv /\ AgreeInv
  <2> SUFFICES ASSUME Init
               PROVE  TypeInv /\ MutexInv /\ AgreeInv
    OBVIOUS
  <2>1. \A t \in Thread : job[t].at = "idle" /\ job[t].kind = "geored"
    BY DEF Init, Idle
  <2>2. MutexInv /\ HeadInv /\ KeptInv
    BY <2>1 DEF MutexInv, HeadInv, KeptInv, Updates, Works, Busy
  <2>3. LeadInv
    BY InitLeads DEF LeadInv
  <2> QED
    BY <2>2, <2>3, InitTypeInv DEF AgreeInv
<1>2. TypeInv /\ MutexInv /\ AgreeInv /\ [Next]_vars
        => (TypeInv /\ MutexInv /\ AgreeInv)'
  BY NextTypeInv, NextMutex, NextHead, NextKept, NextLead DEF AgreeInv
<1> QED
  BY <1>1, <1>2, PTL DEF Spec

\* handleGeored, for any number of sites and copies on their way: when all is
\* done the sites have the same MME and the same CSCF, as long as no two
\* updates of that part overlapped, no copy was lost and no row is frozen.
THEOREM SitesComeToAgree == Spec => []SitesAgree
<1>1. TypeInv /\ AgreeInv => SitesAgree
  <2> SUFFICES ASSUME TypeInv, AgreeInv, Quiet, NEW p \in Part, Calmly(p),
                      NEW q \in Site, NEW r \in Site, NEW c \in Shared(p)
               PROVE  row[q][c] = row[r][c]
    BY DEF SitesAgree, Calmly, Shared
  <2>1. PICK s \in Site : Leads(p, s)
    BY DEF AgreeInv, LeadInv
  <2>2. \A x \in Site : Alike(Shared(p), row[x], row[s])
    BY <2>1, QuietAlike
  <2> QED
    BY <2>2 DEF Alike
<1> QED
  BY <1>1, AgreeInvariant, PTL

-----------------------------------------------------------------------------
\* Nothing has gone wrong with part p.
Fine(p) == ~Excused(p, Cause)

\* Where the network has the subscriber.
Net(p) == IF p = "mme" THEN ueAt ELSE imsAt

\* What a request's handler has made of part p, or is to make of it: where
\* the one it serves has the subscriber is not true before it is answered, but
\* where another had it is not true any more.
Truthful(t, p) ==
  LET j == job[t]
      now == row[SiteOf[t]][p]
      arrives == j.kind \in {"ulr", "sar"}
      goal == IF arrives THEN j.by ELSE None
  IN  /\ j.part # p => now = None
      /\ j.part = p /\ j.at \in {"load", "commit"} => j.new[p] = goal
      /\ j.part = p /\ j.at \in {"reload", "copy", "answer"} => now = goal
      /\ arrives => j.at # "check"
      /\ ~arrives /\ j.at # "check" =>
           Net(p) = None /\ j.new[p] = None /\ j.at # "answer"
      /\ ~arrives /\ j.at = "check" =>
           /\ j.new[p] = None /\ Net(p) # j.by
           /\ now = Net(p) \/ (now = j.by /\ Net(p) = None)

\* With no request's handler at work on p, the leader has what is true.
Told(p, s) ==
  /\ (\A t \in Thread : ~Local(t, p)) => row[s][p] = Net(p)
  /\ \A t \in Thread : Local(t, p) => Truthful(t, p)

TruthInv ==
  Site # {} => \A p \in Part : Fine(p) =>
                 \E s \in Site : Leads(p, s) /\ Told(p, s)

LEMMA FineBefore ==
  ASSUME TypeInv, [Next]_vars, NEW p, Fine(p)'
  PROVE  Fine(p) /\ Calmly(p) /\ Calmly(p)'
BY Steps DEF Fine, Calmly, Excused, Cause

\* One request's handler at a time is at work on p.
LEMMA OneLocal ==
  ASSUME MutexInv, NEW p \in Part, NEW s \in Site, Led(p, s),
         NEW t \in Thread, NEW u \in Thread, Local(t, p), Local(u, p)
  PROVE  t = u
BY DEF MutexInv, Led, Leads, Local, Calmly, Excused

\* What a request makes of where the network has the subscriber, and what its
\* handler finds.
LEMMA RequestTruth ==
  ASSUME TypeInv, NEW t \in Thread, Asks(t), NEW p \in Part, Fine(p)',
         row' = row
  PROVE  /\ p \notin Parts(job'[t]) => Net(p)' = Net(p)
         /\ p \in Parts(job'[t]) /\ row[SiteOf[t]][p] = Net(p)
              => Truthful(t, p)'
<1> DEFINE s == SiteOf[t]
           now == row[s][p]
<1>1. /\ None \notin Mme /\ None \notin Cscf /\ held \subseteq Mme
      /\ p \in {"mme", "scscf"}
  BY HssAssumption DEF TypeInv, TypeOK, Part
<1>2. ASSUME NEW j, NEW why, Request(t, j, why)
      PROVE  /\ job'[t] = j
             /\ \A w \in Cause : <<p, w>> \notin why
  <2>1. job'[t] = j
    BY <1>2, BeginSteps DEF Request
  <2>2. why \subseteq cause'
    BY <1>2 DEF Request, Begin
  <2> QED
    BY <2>1, <2>2 DEF Fine, Excused
<1>3. CASE Ulr(t)
  <2>1. PICK m \in Mme :
          Request(t, Handler("ulr", m, "load", "mme", ServedBy(m, s)), {})
    BY <1>3 DEF Ulr
  <2>2. ServedBy(m, s)["mme"] = m
    BY DEF ServedBy, EmptyRow
  <2>3. job'[t] = Handler("ulr", m, "load", "mme", ServedBy(m, s))
    BY <1>2, <2>1
  <2>4. /\ job'[t].kind = "ulr" /\ job'[t].by = m /\ job'[t].at = "load"
        /\ job'[t].part = "mme" /\ job'[t].new["mme"] = m
        /\ Parts(job'[t]) = {"mme"}
    BY <2>2, <2>3 DEF Handler, Parts
  <2>5. UNCHANGED <<ueAt, imsAt>>
    BY <1>3 DEF Ulr, external
  <2> QED
    BY <2>4, <2>5 DEF Truthful, Net
<1>4. CASE Pur(t)
  <2> DEFINE why(m) == IF ueAt = m THEN {} ELSE {<<"mme", "purge">>}
             j(m) == Handler("pur", m, "load", "mme", EmptyRow)
  <2>1. PICK m \in held :
          /\ Request(t, j(m), why(m))
          /\ ueAt' = IF ueAt = m THEN None ELSE ueAt
    BY <1>4 DEF Pur
  <2>2. /\ job'[t].kind = "pur" /\ job'[t].at = "load"
        /\ job'[t].part = "mme" /\ job'[t].new = EmptyRow
        /\ Parts(job'[t]) = {"mme"}
    BY <1>2, <2>1 DEF Handler, Parts
  <2>3. p = "mme" => ueAt' = None
    <3>1. "purge" \in Cause
      BY DEF Cause
    <3> QED
      BY <1>2, <2>1, <3>1
  <2>4. imsAt' = imsAt
    BY <1>4 DEF Pur
  <2> QED
    BY <1>1, <2>2, <2>3, <2>4 DEF Truthful, Net, EmptyRow
<1>5. CASE Sar(t)
  <2> DEFINE r(c) == [EmptyRow EXCEPT !.scscf = c]
  <2>1. PICK c \in Cscf :
          Request(t, Handler("sar", c, "load", "scscf", r(c)), {})
    BY <1>5 DEF Sar
  <2>2. r(c)["scscf"] = c
    BY DEF EmptyRow
  <2>3. job'[t] = Handler("sar", c, "load", "scscf", r(c))
    BY <1>2, <2>1
  <2> HIDE DEF r
  <2>4. /\ job'[t].kind = "sar" /\ job'[t].by = c /\ job'[t].at = "load"
        /\ job'[t].part = "scscf" /\ job'[t].new["scscf"] = c
        /\ Parts(job'[t]) = {"scscf"}
    BY <2>2, <2>3 DEF Handler, Parts
  <2>5. UNCHANGED <<ueAt, imsAt>>
    BY <1>5 DEF Sar, external
  <2> QED
    BY <2>4, <2>5 DEF Truthful, Net
<1>6. CASE SarDereg(t)
  <2>1. PICK c \in Cscf : /\ Request(t, Deregistration(c), {})
                          /\ imsAt' = IF imsAt = c THEN None ELSE imsAt
    BY <1>6 DEF SarDereg
  <2>2. job'[t] = Handler("sar_dereg", c, "check", "scscf", EmptyRow)
    BY <1>2, <2>1 DEF Deregistration
  <2>3. /\ job'[t].kind = "sar_dereg" /\ job'[t].by = c
        /\ job'[t].at = "check" /\ job'[t].part = "scscf"
        /\ job'[t].new = EmptyRow /\ Parts(job'[t]) = {"scscf"}
    BY <2>2 DEF Handler, Parts
  <2>4. ueAt' = ueAt
    BY <1>6 DEF SarDereg
  <2> QED
    BY <1>1, <2>1, <2>3, <2>4 DEF Truthful, Net, EmptyRow
<1>7. CASE UarDereg(t)
  <2>1. /\ job'[t].kind = "uar_dereg" /\ job'[t].at = "load"
        /\ job'[t].part = "scscf" /\ job'[t].new = EmptyRow
        /\ Parts(job'[t]) = {"scscf"}
    BY <1>2, <1>7 DEF UarDereg, Handler, Parts
  <2> QED
    BY <1>1, <1>7, <2>1 DEF Truthful, Net, EmptyRow, UarDereg
<1>8. CASE PushClr(t)
  <2> DEFINE why(m, told) == IF ueAt = m THEN Untold(told) ELSE {}
             j(m) == Handler("push_clr", m, "check", "mme", EmptyRow)
  <2>0. PICK m \in Mme : \E told \in SUBSET {m} :
          Request(t, j(m), why(m, told)) /\ Cancel(told)
    BY <1>8 DEF PushClr
  <2>1. PICK told \in SUBSET {m} :
          Request(t, j(m), why(m, told)) /\ Cancel(told)
    BY <2>0
  <2>2. /\ job'[t].kind = "push_clr" /\ job'[t].by = m
        /\ job'[t].at = "check" /\ job'[t].part = "mme"
        /\ job'[t].new = EmptyRow /\ Parts(job'[t]) = {"mme"}
    BY <1>2, <2>1 DEF Handler, Parts
  <2>3. p = "mme" => ueAt' = IF ueAt = m THEN None ELSE ueAt
    <3>1. "silent" \in Cause
      BY DEF Cause
    <3>2. p = "mme" /\ ueAt = m => ueAt \in told
      BY <1>1, <1>2, <2>1, <3>1 DEF Untold
    <3> QED
      BY <2>1, <3>2 DEF Cancel
  <2>4. imsAt' = imsAt
    BY <2>1 DEF Cancel
  <2> QED
    BY <1>1, <2>2, <2>3, <2>4 DEF Truthful, Net, EmptyRow
<1>9. CASE Deregister(t)
  <2> DEFINE h == Handler("deregister", None, "load", "mme", EmptyRow)
             j == [h EXCEPT !.more = TRUE]
             why(told) == Untold(told) \cup
                          IF imsAt = None THEN {} ELSE {<<"scscf", "silent">>}
  <2>1. PICK told \in SUBSET Mme : Request(t, j, why(told)) /\ Cancel(told)
    BY <1>9 DEF Deregister
  <2>2. /\ job'[t].kind = "deregister" /\ job'[t].at = "load"
        /\ job'[t].part = "mme" /\ job'[t].new = EmptyRow
        /\ Parts(job'[t]) = {"mme", "scscf"}
    <3>1. job'[t] = j
      BY <1>2, <2>1
    <3> QED
      BY <3>1 DEF Handler, Parts
  <2>3. p = "mme" => ueAt' = None
    <3>1. "silent" \in Cause
      BY DEF Cause
    <3>2. p = "mme" => ueAt \in {None} \cup told
      BY <1>2, <2>1, <3>1 DEF Untold
    <3> QED
      BY <2>1, <3>2 DEF Cancel
  <2>4. p = "scscf" => imsAt = None /\ imsAt' = None
    <3>1. "silent" \in Cause
      BY DEF Cause
    <3> QED
      BY <1>2, <2>1, <3>1 DEF Cancel
  <2> QED
    BY <1>1, <2>2, <2>3, <2>4 DEF Truthful, Net, EmptyRow
<1> QED
  BY <1>3, <1>4, <1>5, <1>6, <1>7, <1>8, <1>9 DEF Asks

\* The handler of a request goes on: what it is to make of p it makes, and
\* when it leaves p, the row has what is true.
LEMMA UpdateTruth ==
  ASSUME TypeInv, KeptInv, [Next]_vars, NEW t \in Thread, Update(t),
         NEW p \in Part, Fine(p)', Local(t, p), Truthful(t, p)
  PROVE  /\ Net(p)' = Net(p)
         /\ Local(t, p)' => Truthful(t, p)'
         /\ ~Local(t, p)' => row'[SiteOf[t]][p] = Net(p)
<1> DEFINE j == job[t]
           s == SiteOf[t]
           arrives == j.kind \in {"ulr", "sar"}
           goal == IF arrives THEN j.by ELSE None
<1>1. /\ job \in [Thread -> Job] /\ j \in Job /\ HandlerOf(j)
      /\ row \in [Site -> Row] /\ s \in Site /\ p \in {"mme", "scscf"}
      /\ j.part \in {"mme", "scscf"} /\ j.new \in Row
  BY HssAssumption DEF TypeInv, TypeOK, HandlerInv, Part, Job
<1>2. /\ j.kind # "geored"
      /\ j.part # p => j.more /\ p = "scscf" /\ ~arrives
      /\ j.more => j.part = "mme" /\ ~arrives
  BY <1>1 DEF Local, Updates, Parts, HandlerOf
<1>3. /\ j.part # p => row[s][p] = None
      /\ j.part = p /\ j.at \in {"load", "commit"} => j.new[p] = goal
      /\ j.part = p /\ j.at \in {"reload", "copy", "answer"}
           => row[s][p] = goal
      /\ arrives => j.at # "check"
      /\ ~arrives /\ j.at # "check" => Net(p) = None /\ j.new[p] = None
      /\ ~arrives /\ j.at = "check" =>
           /\ j.new[p] = None /\ Net(p) # j.by
           /\ row[s][p] = Net(p) \/ (row[s][p] = j.by /\ Net(p) = None)
  BY DEF Truthful
<1>4. Net(p)' = Net(p)
  BY DEF Update, Check, Load, LoadClr, LoadFails, Commit, CommitFails,
         Reload, QueueCopy, external, Net
<1>5. Calmly(p) /\ Calmly(p)'
  BY FineBefore
<1>6. ASSUME NEW k, job'[t] = k, k.kind = j.kind, k.by = j.by,
             k.part = j.part, k.at \in {"load", "commit"},
             k.new[p] = j.new[p], k.more = j.more,
             j.at \in {"load", "commit"}, row' = row
      PROVE  Local(t, p)' /\ Truthful(t, p)'
  <2>1. Local(t, p)'
    BY <1>2, <1>6 DEF Local, Updates, Busy, Parts
  <2>2. Truthful(t, p)'
    BY <1>3, <1>4, <1>6 DEF Truthful
  <2> QED
    BY <2>1, <2>2
<1>7. CASE Check(t)
  <2>1. Finished(j) = Idle
    BY <1>2, <1>3, <1>7 DEF Finished, Check
  <2>2. CASE row[s][j.part] = j.by
    <3>1. job'[t] = [j EXCEPT !.at = "load"] /\ row' = row
      BY <1>1, <1>7, <2>2 DEF Check
    <3>2. /\ job'[t].at = "load" /\ job'[t].kind = j.kind
          /\ job'[t].by = j.by /\ job'[t].part = j.part
          /\ job'[t].new = j.new /\ job'[t].more = j.more
      BY <1>1, <3>1 DEF Job
    <3>3. Net(p) = None /\ ~arrives /\ j.at = "check"
      BY <1>3, <1>7, <2>2 DEF Check
    <3>4. Truthful(t, p)'
      BY <1>3, <1>4, <3>1, <3>2, <3>3 DEF Truthful
    <3>5. Local(t, p)'
      BY <1>2, <3>2 DEF Local, Updates, Busy, Parts
    <3> QED
      BY <1>4, <3>4, <3>5
  <2>3. CASE row[s][j.part] # j.by
    <3>1. job'[t] = Idle /\ row' = row
      BY <1>1, <1>7, <2>1, <2>3 DEF Check
    <3>2. ~Local(t, p)'
      BY <3>1 DEF Local, Idle
    <3>3. row[s][p] = Net(p)
      BY <1>2, <1>3, <1>7, <2>3 DEF Check
    <3> QED
      BY <1>4, <3>1, <3>2, <3>3
  <2> QED
    BY <2>2, <2>3
<1>8. CASE Updated(t) /\ row' = row
           /\ j.at \notin {"idle", "check", "answer"}
           /\ (j.part = p => j.at = "copy")
  <2>1. job'[t] = Onward(j)
    BY <1>1, <1>8 DEF Updated, Onward
  <2>2. CASE j.more
    <3>1. job'[t] = [j EXCEPT !.at = "load", !.part = "scscf", !.more = FALSE]
      BY <2>1, <2>2 DEF Onward
    <3>2. /\ job'[t].at = "load" /\ job'[t].kind = j.kind
          /\ job'[t].by = j.by /\ job'[t].part = "scscf"
          /\ job'[t].new = j.new /\ job'[t].more = FALSE
      BY <1>1, <3>1 DEF Job
    <3>3. CASE p = "mme"
      <4>1. ~Local(t, p)'
        BY <3>2, <3>3 DEF Local, Updates, Parts
      <4>2. row[s][p] = Net(p)
        BY <1>2, <1>3, <1>8, <2>2, <3>3
      <4> QED
        BY <1>4, <1>8, <4>1, <4>2
    <3>4. CASE p = "scscf"
      <4>1. Local(t, p)'
        BY <1>2, <3>2, <3>4 DEF Local, Updates, Busy, Parts
      <4>2. ~arrives /\ Net(p) = None /\ j.new[p] = None
        BY <1>2, <1>3, <1>8, <2>2
      <4>3. Truthful(t, p)'
        BY <1>4, <3>2, <3>4, <4>2 DEF Truthful
      <4> QED
        BY <1>4, <4>1, <4>3
    <3> QED
      BY <1>1, <3>3, <3>4
  <2>3. CASE ~j.more
    <3>1. job'[t] = Finished(j) /\ j.part = p
      BY <1>2, <2>1, <2>3 DEF Onward
    <3>2. row[s][p] = goal
      BY <1>3, <1>8, <3>1
    <3>3. CASE arrives
      <4>1. job'[t] = [j EXCEPT !.at = "answer", !.new = EmptyRow,
                                !.seen = EmptyRow]
        BY <3>1, <3>3 DEF Finished
      <4>2. /\ job'[t].at = "answer" /\ job'[t].kind = j.kind
            /\ job'[t].by = j.by /\ job'[t].part = p
        BY <1>1, <3>1, <4>1 DEF Job
      <4>3. Truthful(t, p)'
        BY <1>8, <3>2, <3>3, <4>2 DEF Truthful
      <4>4. Local(t, p)'
        BY <1>2, <4>2 DEF Local, Updates, Busy, Parts
      <4> QED
        BY <1>4, <4>3, <4>4
    <3>4. CASE ~arrives
      <4>1. job'[t] = Idle
        BY <1>2, <3>1, <3>4 DEF Finished
      <4>2. ~Local(t, p)'
        BY <4>1 DEF Local, Idle
      <4>3. row[s][p] = Net(p)
        BY <1>3, <1>8, <3>2, <3>4
      <4> QED
        BY <1>4, <1>8, <4>2, <4>3
    <3> QED
      BY <3>3, <3>4
  <2> QED
    BY <2>2, <2>3
<1>9. CASE Load(t)
  <2>1. /\ job'[t].at = "commit" /\ job'[t].kind = j.kind
        /\ job'[t].by = j.by /\ job'[t].part = j.part
        /\ job'[t].new = j.new /\ job'[t].more = j.more
        /\ j.at = "load" /\ row' = row
    BY <1>1, <1>9 DEF Load, Job
  <2> QED
    BY <1>4, <1>6, <2>1
<1>10. CASE LoadClr(t)
  <2>1. /\ job'[t].at = "commit" /\ job'[t].kind = j.kind
        /\ job'[t].by = j.by /\ job'[t].part = j.part
        /\ job'[t].new.mme = j.new.mme
        /\ job'[t].new.scscf = j.new.scscf /\ job'[t].more = j.more
        /\ j.at = "load" /\ row' = row
    BY <1>1, <1>10 DEF LoadClr, Job, Row
  <2>2. job'[t].new[p] = j.new[p]
    BY <1>1, <2>1
  <2> QED
    BY <1>4, <1>6, <2>1, <2>2
<1>11. CASE LoadFails(t)
  <2>1. j.part # p
    BY <1>5, <1>11 DEF LoadFails, EvaluatesClr, Calmly, Excused
  <2> QED
    BY <1>8, <1>11, <2>1 DEF LoadFails
<1>12. CASE CommitFails(t)
  <2>1. j.part # p
    BY <1>5, <1>12 DEF CommitFails, Calmly, Excused
  <2>2. Updated(t)
    BY <1>2, <1>12, <2>1 DEF CommitFails
  <2> QED
    BY <1>8, <1>12, <2>1, <2>2 DEF CommitFails
<1>13. CASE QueueCopy(t)
  BY <1>8, <1>13 DEF QueueCopy
<1>14. CASE Commit(t)
  <2>1. /\ job'[t] = [j EXCEPT !.at = "reload", !.new = EmptyRow,
                              !.seen = EmptyRow]
        /\ row'[s] = Stored(row[s], j.seen, j.new, j.part) /\ j.at = "commit"
    BY <1>1, <1>2, <1>14 DEF Commit
  <2>2. /\ job'[t].at = "reload" /\ job'[t].kind = j.kind
        /\ job'[t].by = j.by /\ job'[t].part = j.part
        /\ job'[t].new = EmptyRow /\ job'[t].more = j.more
    BY <1>1, <2>1 DEF Job
  <2>3. Local(t, p)'
    BY <1>2, <2>2 DEF Local, Updates, Busy, Parts
  <2>4. j.part = p => row'[s][p] = goal
    <3> SUFFICES ASSUME j.part = p
                 PROVE  row'[s][p] = goal
      OBVIOUS
    <3>1. Alike(Columns(p), j.seen, row[s])
      BY <1>5, <2>1 DEF KeptInv
    <3>2. Alike(Columns(p), row'[s], j.new)
      BY <1>1, <2>1, <3>1, StoredNew
    <3>3. p \in Columns(p)
      BY <1>1 DEF Columns
    <3> QED
      BY <1>3, <2>1, <3>2, <3>3 DEF Alike
  <2>5. j.part # p => row'[s][p] = None
    <3>1. j.part # p => row'[s][p] = row[s][p]
      BY <1>1, <2>1, StoredKeeps DEF Part
    <3> QED
      BY <1>3, <3>1
  <2>6. EmptyRow[p] = None
    BY <1>1 DEF EmptyRow
  <2>7. Truthful(t, p)'
    BY <1>3, <1>4, <2>1, <2>2, <2>4, <2>5, <2>6 DEF Truthful
  <2> QED
    BY <1>4, <2>3, <2>7
<1>15. CASE Reload(t)
  <2>1. /\ job'[t].at = "copy" /\ job'[t].kind = j.kind
        /\ job'[t].by = j.by /\ job'[t].part = j.part
        /\ job'[t].new = j.new /\ job'[t].more = j.more
        /\ j.at = "reload" /\ row' = row
    BY <1>1, <1>15 DEF Reload, Job
  <2>2. Truthful(t, p)'
    BY <1>3, <1>4, <2>1 DEF Truthful
  <2>3. Local(t, p)'
    BY <1>2, <2>1 DEF Local, Updates, Busy, Parts
  <2> QED
    BY <1>4, <2>2, <2>3
<1> QED
  BY <1>7, <1>9, <1>10, <1>11, <1>12, <1>13, <1>14, <1>15 DEF Update

\* Only a request's handler changes p at the leader.
LEMMA LeaderRow ==
  ASSUME NEW p \in Part, NEW s \in Site, Led(p, s),
         \A t \in Thread : Local(t, p) => ~Commit(t)
  PROVE  row'[s][p] = row[s][p]
<1>1. TypeInv /\ [Next]_vars /\ row[s] \in Row
  BY DEF Led, TypeInv, TypeOK
<1>2. CASE row'[s] = row[s]
  BY <1>2
<1>3. ASSUME NEW t \in Thread, Commit(t), SiteOf[t] = s,
             row'[s] = Stored(row[s], job[t].seen, job[t].new, job[t].part)
      PROVE  row'[s][p] = row[s][p]
  <2>1. job[t].part \in Part /\ Busy(t)
    BY <1>1, <1>3 DEF TypeInv, TypeOK, Job, Commit, Busy
  <2>2. job[t].part # p
    <3> SUFFICES ASSUME job[t].part = p
                 PROVE  FALSE
      OBVIOUS
    <3>1. Works(t)
      BY <1>3, <2>1 DEF Local, Updates, Parts, Works
    <3> QED
      BY <1>3, <3>1, CopyComes
  <2> QED
    BY <1>1, <1>3, <2>1, <2>2, StoredKeeps
<1> QED
  BY <1>1, <1>2, <1>3, RowSteps

\* A step that is not of a request's handler at work on p.
LEMMA StillTold ==
  ASSUME NEW p \in Part, NEW s \in Site, Led(p, s), Told(p, s),
         Net(p)' = Net(p),
         \A t \in Thread : Local(t, p)' => Local(t, p),
         \A t \in Thread : Local(t, p) => job'[t] = job[t]
  PROVE  Told(p, s)'
<1>1. TypeInv /\ Leads(p, s)
  BY DEF Led
<1>2. \A t \in Thread : Local(t, p) => ~Commit(t)
  BY <1>1, CommitEnds DEF Commit
<1>3. row'[s][p] = row[s][p]
  BY <1>2, LeaderRow
<1>4. \A t \in Thread : Local(t, p) <=> Local(t, p)'
  BY DEF Local, Updates, Busy
<1>5. ASSUME NEW t \in Thread, Local(t, p)'
      PROVE  Truthful(t, p)'
  <2>1. Local(t, p) /\ Truthful(t, p) /\ job'[t] = job[t] /\ SiteOf[t] = s
    BY <1>1, <1>5 DEF Told, Leads
  <2> QED
    BY <1>3, <2>1 DEF Truthful
<1> QED
  BY <1>3, <1>4, <1>5 DEF Told

\* The handler of a request for p is the only one, and ends.
LEMMA EndTold ==
  ASSUME NEW p \in Part, NEW s \in Site, Led(p, s), MutexInv,
         NEW t \in Thread, Local(t, p), ~Local(t, p)',
         \A u \in Thread : Local(u, p)' => Local(u, p),
         row'[s][p] = Net(p)'
  PROVE  Told(p, s)'
<1>1. \A u \in Thread : ~Local(u, p)'
  BY OneLocal
<1> QED
  BY <1>1 DEF Told

LEMMA NextTruth ==
  ASSUME TypeInv, MutexInv, HeadInv, KeptInv, TruthInv, [Next]_vars
  PROVE  TruthInv'
<1> SUFFICES ASSUME Site # {}, NEW p \in Part, Fine(p)'
             PROVE  \E s \in Site : Leads(p, s)' /\ Told(p, s)'
  BY DEF TruthInv
<1>1. Fine(p) /\ Calmly(p) /\ Calmly(p)'
  BY FineBefore
<1>2. PICK s \in Site : Leads(p, s) /\ Told(p, s)
  BY <1>1 DEF TruthInv
<1>3. Led(p, s)
  BY <1>1, <1>2 DEF Led
<1>4. ASSUME NEW t \in Thread, NEW j, NEW why,
             Request(t, j, why), Starts(j), Asks(t), p \in Parts(j)
      PROVE  \E q \in Site : Leads(p, q)' /\ Told(p, q)'
  <2>1. SiteOf[t] \in Site
    BY HssAssumption
  <2>2. Leads(p, SiteOf[t])'
    BY <1>3, <1>4, RequestLeads
  <2>3. /\ \A u \in Thread : ~Local(u, p)
        /\ Alike(Shared(p), row[SiteOf[t]], row[s])
    BY <1>3, <1>4, RequestAlone
  <2>4. /\ job'[t] = j /\ row' = row
        /\ \A u \in Thread \ {t} : job'[u] = job[u]
    BY <1>4, BeginSteps DEF Request, JobStep
  <2>5. row[SiteOf[t]][p] = Net(p)
    <3>1. row[s][p] = Net(p)
      BY <1>2, <2>3 DEF Told
    <3>2. p \in Shared(p)
      BY DEF Shared, Columns, Part
    <3> QED
      BY <2>3, <3>1, <3>2 DEF Alike
  <2>6. Truthful(t, p)'
    BY <1>4, <2>4, <2>5, RequestTruth
  <2>7. Local(t, p)'
    BY <1>4, <2>4 DEF Local, Updates, Busy, Starts
  <2>8. \A u \in Thread \ {t} : ~Local(u, p)'
    BY <2>3, <2>4 DEF Local, Updates, Busy
  <2>9. Told(p, SiteOf[t])'
    BY <2>6, <2>7, <2>8 DEF Told
  <2> QED
    BY <2>1, <2>2, <2>9
<1>5. CASE ~Asked(p)
  <2>1. Leads(p, s)'
    BY <1>3, <1>5, LeaderStays
  <2>2. \A t \in Thread : Local(t, p)' => Local(t, p)
    BY <1>5, LocalKept DEF Asked
  <2>3. CASE UNCHANGED <<row, job, mail, cause, ueAt, imsAt>>
    <3>1. Net(p)' = Net(p)
      BY <2>3 DEF Net
    <3> QED
      BY <1>2, <1>3, <2>1, <2>2, <2>3, <3>1, StillTold
  <2>4. ASSUME NEW t \in Thread, NEW j, NEW why,
               Request(t, j, why), Starts(j), Asks(t)
        PROVE  Told(p, s)'
    <3>1. /\ job'[t] = j /\ row' = row /\ ~Busy(t)
          /\ \A u \in Thread \ {t} : job'[u] = job[u]
      BY <2>4, BeginSteps DEF Request, Begin, JobStep
    <3>2. p \notin Parts(j)
      BY <1>5, <2>4 DEF Asked
    <3>3. Net(p)' = Net(p)
      BY <2>4, <3>1, <3>2, RequestTruth
    <3>4. \A u \in Thread : Local(u, p) => job'[u] = job[u]
      BY <3>1 DEF Local, Updates
    <3> QED
      BY <1>2, <1>3, <2>2, <3>3, <3>4, StillTold
  <2>5. ASSUME NEW t \in Thread, Update(t)
        PROVE  Told(p, s)'
    <3>1. \A u \in Thread \ {t} : job'[u] = job[u]
      BY <2>5, OthersStay
    <3>2. CASE ~Local(t, p)
      <4>1. Net(p)' = Net(p)
        BY <2>5 DEF Update, Check, Load, LoadClr, LoadFails, Commit,
                    CommitFails, Reload, QueueCopy, external, Net
      <4> QED
        BY <1>2, <1>3, <2>2, <3>1, <3>2, <4>1, StillTold
    <3>3. CASE Local(t, p)
      <4>1. Truthful(t, p) /\ SiteOf[t] = s
        BY <1>2, <3>3 DEF Told, Leads
      <4>2. /\ Net(p)' = Net(p)
            /\ Local(t, p)' => Truthful(t, p)'
            /\ ~Local(t, p)' => row'[s][p] = Net(p)
        BY <2>5, <3>3, <4>1, UpdateTruth
      <4>3. CASE ~Local(t, p)'
        BY <1>3, <2>2, <3>3, <4>2, <4>3, EndTold
      <4>4. CASE Local(t, p)'
        <5>1. \A u \in Thread : Local(u, p)' => u = t
          BY <1>3, <2>2, <3>3, OneLocal
        <5> QED
          BY <4>2, <4>4, <5>1 DEF Told
      <4> QED
        BY <4>3, <4>4
    <3> QED
      BY <3>2, <3>3
  <2>6. ASSUME NEW t \in Thread, AnswerUlr(t) \/ AnswerSar(t)
        PROVE  Told(p, s)'
    <3>1. /\ job'[t] = Idle /\ row' = row /\ Busy(t)
          /\ \A u \in Thread \ {t} : job'[u] = job[u]
      BY <2>6, EndSteps, OthersStay
        DEF TypeInv, TypeOK, AnswerUlr, AnswerSar, Ends, Busy
    <3>2. /\ job[t].part = IF job[t].kind = "ulr" THEN "mme" ELSE "scscf"
          /\ job[t].at = "answer" /\ ~job[t].more
          /\ job[t].kind \in {"ulr", "sar"}
      BY <2>6 DEF TypeInv, HandlerInv, HandlerOf, AnswerUlr, AnswerSar, Ends
    <3>3. IF job[t].part = "mme" THEN ueAt' = job[t].by /\ imsAt' = imsAt
          ELSE imsAt' = job[t].by /\ ueAt' = ueAt
      BY <2>6, <3>2 DEF AnswerUlr, AnswerSar
    <3>4. ~Local(t, p)'
      BY <3>1 DEF Local, Idle
    <3>5. CASE job[t].part = p
      <4>1. Local(t, p)
        BY <3>1, <3>2, <3>5 DEF Local, Updates, Parts
      <4>2. Truthful(t, p) /\ SiteOf[t] = s
        BY <1>2, <4>1 DEF Told, Leads
      <4>3. row[s][p] = job[t].by
        BY <3>2, <3>5, <4>2 DEF Truthful
      <4>4. Net(p)' = job[t].by
        BY <3>3, <3>5 DEF Net
      <4> QED
        BY <1>3, <2>2, <3>1, <3>4, <4>1, <4>3, <4>4, EndTold
    <3>6. CASE job[t].part # p
      <4>1. ~Local(t, p)
        BY <3>2, <3>6 DEF Local, Updates, Parts
      <4>2. Net(p)' = Net(p)
        BY <3>2, <3>3, <3>6 DEF Net, Part
      <4> QED
        BY <1>2, <1>3, <2>2, <3>1, <4>1, <4>2, StillTold
    <3> QED
      BY <3>5, <3>6
  <2>7. ASSUME NEW t \in Thread,
               Die(t) \/ Respond(t) \/ \E q \in Site : Deliver(t, q)
        PROVE  Told(p, s)'
    <3>1. \A u \in Thread \ {t} : job'[u] = job[u]
      BY <2>7, OthersStay
    <3>2. ~Local(t, p)
      <4>1. Die(t) => p \notin Parts(job[t])
        BY <1>1 DEF Die, Calmly, Excused
      <4>2. Respond(t) => job[t].kind = "geored"
        BY DEF Respond
      <4>3. (\E q \in Site : Deliver(t, q)) => ~Busy(t)
        BY DEF Deliver, Begin
      <4> QED
        BY <2>7, <4>1, <4>2, <4>3 DEF Local, Updates
    <3>3. Net(p)' = Net(p)
      BY <2>7 DEF Die, Respond, Deliver, external, Net
    <3> QED
      BY <1>2, <1>3, <2>2, <3>1, <3>2, <3>3, StillTold
  <2>8. ASSUME NEW x \in Site, NEW y \in Site, GiveUp(x, y)
        PROVE  Told(p, s)'
    <3>1. Net(p)' = Net(p) /\ job' = job
      BY <2>8 DEF GiveUp, external, Net
    <3> QED
      BY <1>2, <1>3, <2>2, <3>1, StillTold
  <2>9. \A t \in Api : t \in Thread
    BY DEF Thread
  <2> QED
    BY <2>1, <2>3, <2>4, <2>5, <2>6, <2>7, <2>8, <2>9, Acts
<1> QED
  BY <1>4, <1>5 DEF Asked

LEMMA TruthInvariant == Spec => [](TypeInv /\ MutexInv /\ AgreeInv /\ TruthInv)
<1>1. Init => TruthInv
  <2> SUFFICES ASSUME Init, NEW p \in Part, NEW s \in Site
               PROVE  Leads(p, s) /\ Told(p, s)
    BY DEF TruthInv
  <2>1. \A t \in Thread : ~Local(t, p)
    BY DEF Init, Idle, Local
  <2>2. row[s][p] = Net(p)
    BY DEF Init, EmptyRow, Net, Part
  <2> QED
    BY <2>1, <2>2, InitLeads DEF Told
<1>2. AgreeInv => HeadInv /\ KeptInv
  BY DEF AgreeInv
<1>3. TypeInv /\ MutexInv /\ AgreeInv /\ TruthInv /\ [Next]_vars => TruthInv'
  BY <1>2, NextTruth
<1> QED
  BY <1>1, <1>3, AgreeInvariant, PTL DEF Spec

\* What the HSS answered is what it has, for any number of sites and whatever
\* order the copies take: when all is done every site names the MME that was
\* told last that its update was accepted, and the CSCF of the registration,
\* unless one of the named causes came in between.
THEOREM LocatedEverywhere == Spec => []Located
<1>1. TypeInv /\ TruthInv => Located
  <2> SUFFICES ASSUME TypeInv, TruthInv, Quiet, NEW p \in Part, Fine(p),
                      NEW r \in Site
               PROVE  row[r][p] = Net(p)
    BY DEF Located, Fine, Net, Part
  <2>1. PICK s \in Site : Leads(p, s) /\ Told(p, s)
    BY DEF TruthInv
  <2>2. \A t \in Thread : ~Pending(t, p) /\ ~Local(t, p)
    BY DEF Quiet, Pending, Local, Updates, Busy
  <2>3. row[s][p] = Net(p)
    BY <2>1, <2>2 DEF Told
  <2>4. Alike(Shared(p), row[r], row[s])
    BY <2>1, <2>2, QuietAlike
  <2>5. p \in Shared(p)
    BY DEF Shared, Columns, Part
  <2> QED
    BY <2>3, <2>4, <2>5 DEF Alike
<1> QED
  BY <1>1, TruthInvariant, PTL

=============================================================================
