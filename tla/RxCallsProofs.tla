---------------------------- MODULE RxCallsProofs ----------------------------
(***************************************************************************)
(* Theorems about RxCalls, for any number of workers, calls and RARs.      *)
(***************************************************************************)
EXTENDS RxCalls, TLAPS

-----------------------------------------------------------------------------
(***************************************************************************)
(* Types.                                                                  *)
(***************************************************************************)

\* A handler that is not idle, and not for a CCR-T, has its call; one that
\* asks the PGW has read a Gx session.
NamedInv == \A w \in Worker :
  /\ job[w].at \notin {"idle", "drop", "delete"} => job[w].c \in Call
  /\ job[w].at \in {"mark", "unmark", "send", "wait"} => job[w].gx \in Gx

TypeInv == TypeOK /\ NamedInv

LEMMA HandlerType ==
  ASSUME NEW at \in Step, NEW kind \in {"audio", "other", "str", "ccr_t"},
         NEW c \in Call \cup {None}, NEW gx \in Gx \cup {None}
  PROVE  /\ Handler(at, kind, c, gx) \in Job
         /\ Handler(at, kind, c, gx).at = at
         /\ Handler(at, kind, c, gx).c = c
BY DEF Handler, Job, Step

LEMMA IdleType == Idle \in Job /\ Idle.at = "idle"
BY HandlerType DEF Idle, Step

LEMMA JobParts ==
  ASSUME NEW j \in Job
  PROVE  /\ j.at \in Step /\ j.kind \in {"audio", "other", "str", "ccr_t"}
         /\ j.c \in Call \cup {None} /\ j.gx \in Gx \cup {None} /\ j.n \in Nat
         /\ j.old \subseteq Nat /\ j.ok \in BOOLEAN
BY DEF Job

\* A handler moves on.
LEMMA JobMoves ==
  ASSUME NEW j \in Job, NEW at \in Step
  PROVE  LET k == [j EXCEPT !.at = at]
         IN  /\ k \in Job /\ k.at = at /\ k.kind = j.kind /\ k.c = j.c
             /\ k.gx = j.gx /\ k.n = j.n /\ k.old = j.old /\ k.ok = j.ok
BY DEF Job

LEMMA BlameType ==
  ASSUME TypeOK, NEW calls, NEW why \in Cause, Blame(calls, why)
  PROVE  cause' \in [Call -> SUBSET Cause]
BY DEF Blame, TypeOK

\* The handler of a worker moves to another step.
LEMMA JobUpdate ==
  ASSUME TypeInv, NEW w \in Worker, NEW j \in Job,
         job' = [job EXCEPT ![w] = j],
         j.at \notin {"idle", "drop", "delete"} => j.c \in Call,
         j.at \in {"mark", "unmark", "send", "wait"} => j.gx \in Gx
  PROVE  job' \in [Worker -> Job] /\ NamedInv'
BY DEF TypeInv, TypeOK, NamedInv

LEMMA GoesType ==
  ASSUME TypeInv, NEW w \in Worker, NEW at \in Step, Goes(w, at),
         job[w].at \notin {"idle", "drop", "delete"}
           \/ at \in {"idle", "drop", "delete"},
         job[w].at \in {"mark", "unmark", "send", "wait"}
           \/ at \notin {"mark", "unmark", "send", "wait"}
  PROVE  job' \in [Worker -> Job] /\ NamedInv'
<1> DEFINE j == [job[w] EXCEPT !.at = at]
<1>1. job[w] \in Job /\ job' = [job EXCEPT ![w] = j]
  BY DEF TypeInv, TypeOK, Goes
<1>2. j \in Job /\ j.at = at /\ j.c = job[w].c /\ j.gx = job[w].gx
  BY <1>1, JobMoves
<1> HIDE DEF j
<1>3. QED
  BY <1>1, <1>2, JobUpdate DEF TypeInv, NamedInv

LEMMA InitTypes == Init => TypeInv
BY IdleType DEF Init, TypeInv, TypeOK, NamedInv

LEMMA RequestType ==
  ASSUME TypeInv, NEW w \in Worker, NEW j \in Job, Request(w, j),
         j.at \notin {"idle", "drop", "delete"} => j.c \in Call,
         j.at \notin {"mark", "unmark", "send", "wait"}
  PROVE  /\ job' \in [Worker -> Job] /\ NamedInv'
         /\ requests' \in Nat
<1>1. job' = [job EXCEPT ![w] = j] /\ requests' \in Nat
  BY DEF Request, TypeInv, TypeOK
<1>2. QED
  BY <1>1, JobUpdate

\* The requests that come.
LEMMA RequestTypes ==
  ASSUME TypeInv, NEW w \in Worker, CcrI(w) \/ CcrT(w) \/ Aar(w) \/ Str(w)
  PROVE  TypeInv'
<1>1. CASE CcrI(w)
  <2>1. job' \in [Worker -> Job] /\ NamedInv' /\ requests' \in Nat
    BY <1>1, IdleType, RequestType DEF CcrI
  <2>2. cause' \in [Call -> SUBSET Cause]
    BY <1>1, BlameType DEF CcrI, Cause, TypeInv
  <2>3. opened' \in Nat /\ opened' \in Gx
    BY <1>1 DEF CcrI, TypeInv, TypeOK, Gx
  <2>4. QED
    BY <1>1, <2>1, <2>2, <2>3 DEF CcrI, TypeInv, TypeOK, network
<1>2. CASE CcrT(w)
  <2>1. job' \in [Worker -> Job] /\ NamedInv' /\ requests' \in Nat
    <3> DEFINE j == Handler("drop", "ccr_t", None, None)
    <3>1. j \in Job /\ j.at = "drop"
      BY HandlerType DEF Step
    <3>2. Request(w, j) \/ Request(w, Idle)
      BY <1>2 DEF CcrT
    <3> HIDE DEF j
    <3>3. QED
      BY <3>1, <3>2, IdleType, RequestType
  <2>2. cause' \in [Call -> SUBSET Cause]
    BY <1>2, BlameType DEF CcrT, Cause, TypeInv
  <2>3. QED
    BY <1>2, <2>1, <2>2 DEF CcrT, TypeInv, TypeOK, network
<1>3. CASE Aar(w)
  <2>1. PICK c \in Call, kind \in {"audio", "other"} :
               /\ Request(w, Handler("clear", kind, c, None))
               /\ call' = [call EXCEPT ![c] = "asked"]
               /\ UNCHANGED <<active, row, network, pgw, cause, sent, faults>>
    BY <1>3 DEF Aar
  <2> DEFINE j == Handler("clear", kind, c, None)
  <2>2. j \in Job /\ j.at = "clear" /\ j.c = c
    BY HandlerType DEF Step
  <2> HIDE DEF j
  <2>3. job' \in [Worker -> Job] /\ NamedInv' /\ requests' \in Nat
    <3>1. Request(w, j)
      BY <2>1 DEF j
    <3>2. QED
      BY <2>2, <3>1, RequestType
  <2>4. QED
    BY <2>1, <2>3 DEF TypeInv, TypeOK, network, pgw
<1>4. CASE Str(w)
  <2>1. PICK c \in Call :
               /\ Request(w, Handler("find", "str", c, None))
               /\ call' = [call EXCEPT ![c] = "ending"]
               /\ Blame({c}, "early") \/ UNCHANGED cause
               /\ UNCHANGED <<active, row, network, pgw, sent, faults>>
    BY <1>4 DEF Str
  <2> DEFINE j == Handler("find", "str", c, None)
  <2>2. j \in Job /\ j.at = "find" /\ j.c = c
    BY HandlerType DEF Step
  <2> HIDE DEF j
  <2>3. job' \in [Worker -> Job] /\ NamedInv' /\ requests' \in Nat
    <3>1. Request(w, j)
      BY <2>1 DEF j
    <3>2. QED
      BY <2>2, <3>1, RequestType
  <2>4. cause' \in [Call -> SUBSET Cause]
    BY <2>1, BlameType DEF Cause, TypeInv, TypeOK
  <2>5. QED
    BY <2>1, <2>3, <2>4 DEF TypeInv, TypeOK, network, pgw
<1>5. QED
  BY <1>1, <1>2, <1>3, <1>4

\* The steps of a handler on the database.
LEMMA DatabaseTypes ==
  ASSUME TypeInv, NEW w \in Worker,
         \/ Clear(w) \/ Look(w) \/ Mark(w) \/ Find(w) \/ Unmark(w)
         \/ DbFails(w) \/ Drop(w) \/ Delete(w)
  PROVE  TypeInv'
<1>1. job[w] \in Job /\ job[w].c \in Call \cup {None}
  BY JobParts DEF TypeInv, TypeOK
<1>2. ASSUME NEW calls, NEW why \in Cause, Blame(calls, why)
      PROVE  cause' \in [Call -> SUBSET Cause]
  BY <1>2, BlameType DEF TypeInv
<1>3. ASSUME NEW next \in {"mark", "unmark"}, LookUp(w, next),
             job[w].at \notin {"idle", "drop", "delete"}
      PROVE  job' \in [Worker -> Job] /\ NamedInv'
  <2> DEFINE at == IF row = None THEN "answer" ELSE next
             j == [job[w] EXCEPT !.at = at, !.gx = row]
  <2>1. at \in Step /\ row \in Gx \cup {None} /\ (at # "answer" => row \in Gx)
    BY DEF Step, TypeInv, TypeOK
  <2>2. j \in Job /\ j.at = at /\ j.gx = row /\ j.c = job[w].c
    BY <1>1, <2>1 DEF Job
  <2>3. job' = [job EXCEPT ![w] = j]
    BY <1>3 DEF LookUp
  <2>4. job[w].c \in Call
    BY <1>3 DEF TypeInv, NamedInv
  <2>5. at # "answer" => at = next
    OBVIOUS
  <2> HIDE DEF at, j
  <2>6. QED
    BY <2>1, <2>2, <2>3, <2>4, <2>5, JobUpdate
<1>4. CASE Clear(w)
  <2>1. Goes(w, "look") \/ Goes(w, "answer")
    BY <1>4 DEF Clear
  <2>2. job' \in [Worker -> Job] /\ NamedInv'
    BY <1>4, <2>1, GoesType DEF Clear, Step
  <2>3. cause' \in [Call -> SUBSET Cause]
    BY <1>2, <1>4 DEF Clear, Cause
  <2>4. QED
    BY <1>4, <2>2, <2>3 DEF Clear, TypeInv, TypeOK, network, pgw
<1>5. CASE Look(w)
  <2>1. job' \in [Worker -> Job] /\ NamedInv'
    BY <1>3, <1>5 DEF Look
  <2>2. QED
    BY <1>5, <2>1 DEF Look, TypeInv, TypeOK, network, pgw
<1>6. CASE Mark(w)
  <2>1. job' \in [Worker -> Job] /\ NamedInv'
    BY <1>6, GoesType DEF Mark, Step
  <2>2. cause' \in [Call -> SUBSET Cause]
    BY <1>2, <1>6 DEF Mark, Cause
  <2>3. QED
    BY <1>1, <1>6, <2>1, <2>2 DEF Mark, TypeInv, TypeOK, network, pgw
<1>7. CASE Find(w)
  <2>1. LookUp(w, "unmark") \/ Goes(w, "answer")
    BY <1>7 DEF Find
  <2>2. job' \in [Worker -> Job] /\ NamedInv'
    BY <1>3, <1>7, <2>1, GoesType DEF Find, Step
  <2>3. QED
    BY <1>7, <2>2 DEF Find, TypeInv, TypeOK, network, pgw
<1>8. CASE Unmark(w)
  <2>1. job' \in [Worker -> Job] /\ NamedInv'
    BY <1>8, GoesType DEF Unmark, Step
  <2>2. cause' \in [Call -> SUBSET Cause]
    BY <1>2, <1>8 DEF Unmark, Cause
  <2>3. QED
    BY <1>8, <2>1, <2>2 DEF Unmark, TypeInv, TypeOK, network, pgw
<1>9. CASE DbFails(w)
  <2> DEFINE at == AfterFailure[job[w].at]
             ok == job[w].at # "clear"
             j == [job[w] EXCEPT !.at = at, !.ok = ok]
  <2>1. /\ job[w].at \in {"clear", "look", "mark", "find", "unmark"}
        /\ at = IF job[w].at = "unmark" THEN "send" ELSE "answer"
    BY <1>9 DEF DbFails, AfterFailure
  <2>2. at \in Step /\ ok \in BOOLEAN
    BY <2>1 DEF Step
  <2>3. j \in Job /\ j.at = at /\ j.gx = job[w].gx /\ j.c = job[w].c
    BY <1>1, <2>2 DEF Job
  <2>4. job' = [job EXCEPT ![w] = j]
    BY <1>9 DEF DbFails
  <2>5. job[w].c \in Call /\ (at = "send" => job[w].gx \in Gx)
    BY <2>1 DEF TypeInv, NamedInv
  <2>6. at \in {"send", "answer"}
    BY <2>1
  <2> HIDE DEF at, ok, j
  <2>7. job' \in [Worker -> Job] /\ NamedInv'
    BY <2>3, <2>4, <2>5, <2>6, JobUpdate
  <2>8. cause' \in [Call -> SUBSET Cause] /\ faults' \in Nat
    BY <1>2, <1>9 DEF DbFails, Cause, Fault, TypeInv, TypeOK
  <2>9. QED
    BY <1>9, <2>7, <2>8 DEF DbFails, TypeInv, TypeOK, network, pgw
<1>10. CASE Drop(w)
  <2>1. job' \in [Worker -> Job] /\ NamedInv'
    BY <1>10, GoesType DEF Drop, Step
  <2>2. cause' \in [Call -> SUBSET Cause]
    BY <1>2, <1>10 DEF Drop, Cause
  <2>3. QED
    BY <1>10, <2>1, <2>2 DEF Drop, TypeInv, TypeOK, network, pgw
<1>11. CASE Delete(w)
  <2>1. job' \in [Worker -> Job] /\ NamedInv'
    BY <1>11, IdleType, JobUpdate DEF Delete
  <2>2. cause' \in [Call -> SUBSET Cause]
    BY <1>2, <1>11 DEF Delete, Cause
  <2>3. QED
    BY <1>11, <2>1, <2>2 DEF Delete, TypeInv, TypeOK, network, pgw
<1>12. QED
  BY <1>4, <1>5, <1>6, <1>7, <1>8, <1>9, <1>10, <1>11

\* What the HSS has to do with the PGW.
LEMMA HssTypes ==
  ASSUME TypeInv, NEW w \in Worker,
         \/ Send(w) \/ SendFails(w) \/ Match(w) \/ TimeOut(w) \/ Answer(w)
         \/ Discard(w)
  PROVE  TypeInv'
<1>1. job[w] \in Job /\ job[w].c \in Call \cup {None}
  BY JobParts DEF TypeInv, TypeOK
<1>2. CASE Send(w)
  <2> DEFINE j == [job[w] EXCEPT !.at = "wait", !.n = sent + 1, !.old = Seen]
             m == RarOf(job[w], sent + 1)
  <2>1. job[w].at = "send" /\ job[w].c \in Call /\ job[w].gx \in Gx
    BY <1>2 DEF Send, TypeInv, NamedInv
  <2>2. sent + 1 \in Nat /\ Seen \in SUBSET Nat
    BY DEF TypeInv, TypeOK, Seen, Raa
  <2>3. j \in Job /\ j.at = "wait" /\ j.gx = job[w].gx /\ j.c = job[w].c
    BY <1>1, <2>2 DEF Job, Step
  <2>4. job' = [job EXCEPT ![w] = j]
    BY <1>2 DEF Send
  <2>5. m \in Rar
    BY <2>1, <2>2 DEF RarOf, Rar
  <2>6. rars' = rars \cup {m} /\ sent' = sent + 1
    BY <1>2 DEF Send, Transmit
  <2>7. cause' \in [Call -> SUBSET Cause]
    BY <1>2, BlameType DEF Send, Transmit, Cause, TypeInv
  <2> HIDE DEF j, m
  <2>8. job' \in [Worker -> Job] /\ NamedInv'
    BY <2>1, <2>3, <2>4, JobUpdate
  <2>9. QED
    BY <1>2, <2>2, <2>5, <2>6, <2>7, <2>8
       DEF Send, TypeInv, TypeOK, pgw
<1>3. CASE SendFails(w)
  <2>1. job' \in [Worker -> Job] /\ NamedInv'
    BY <1>3, GoesType DEF SendFails, Step
  <2>2. cause' \in [Call -> SUBSET Cause] /\ faults' \in Nat
    BY <1>3, BlameType DEF SendFails, Cause, Fault, TypeInv, TypeOK
  <2>3. QED
    BY <1>3, <2>1, <2>2 DEF SendFails, TypeInv, TypeOK, network, pgw
<1>4. ASSUME NEW ok \in BOOLEAN, job[w].at = "wait", Waited(w, ok)
      PROVE  TypeInv'
  <2> DEFINE j == [job[w] EXCEPT !.at = "answer", !.ok = ok, !.old = {}]
  <2>1. j \in Job /\ j.at = "answer" /\ j.c = job[w].c
    BY <1>1 DEF Job, Step
  <2>2. job' = [job EXCEPT ![w] = j]
    BY <1>4 DEF Waited
  <2>3. job[w].c \in Call
    BY <1>4 DEF TypeInv, NamedInv
  <2> HIDE DEF j
  <2>4. job' \in [Worker -> Job] /\ NamedInv'
    BY <2>1, <2>2, <2>3, JobUpdate
  <2>5. cause' \in [Call -> SUBSET Cause]
    BY <1>4, BlameType DEF Waited, Cause, TypeInv, TypeOK
  <2>6. QED
    BY <1>4, <2>4, <2>5 DEF Waited, TypeInv, TypeOK, network, pgw
<1>5. CASE Match(w)
  <2>1. job[w].at = "wait" /\ \E a \in inbound : Waited(w, a.ok)
    BY <1>5 DEF Match
  <2>2. \A a \in inbound : a.ok \in BOOLEAN
    BY DEF TypeInv, TypeOK, Raa
  <2>3. QED
    BY <1>4, <2>1, <2>2
<1>6. CASE TimeOut(w)
  BY <1>4, <1>6 DEF TimeOut
<1>7. CASE Answer(w)
  <2>1. job' \in [Worker -> Job] /\ NamedInv'
    BY <1>7, IdleType, JobUpdate DEF Answer
  <2>2. call' \in [Call -> {"new", "asked", "up", "refused", "ending", "over"}]
    BY <1>7 DEF Answer, TypeInv, TypeOK
  <2>3. QED
    BY <1>7, <2>1, <2>2 DEF Answer, TypeInv, TypeOK, network, pgw
<1>8. CASE Discard(w)
  BY <1>8 DEF Discard, TypeInv, TypeOK, NamedInv, pgw
<1>9. QED
  BY <1>2, <1>3, <1>5, <1>6, <1>7, <1>8

\* The rest of the world.
LEMMA NetworkTypes ==
  ASSUME TypeInv,
         \/ Detach \/ Push
         \/ \E r \in rars : Serve(r) \/ Refuse(r) \/ LoseRar(r)
         \/ \E a \in raas : Arrive(a)
  PROVE  TypeInv'
<1>1. CASE Detach
  BY <1>1 DEF Detach, TypeInv, TypeOK, NamedInv, network
<1>2. CASE Push
  <2>1. /\ sent' = sent + 1 /\ requests' \in Nat /\ sent' \in Nat
        /\ rars' = rars \cup {[n |-> sent + 1, gx |-> row, c |-> None,
                               install |-> TRUE]}
    BY <1>2 DEF Push, Transmit, TypeInv, TypeOK
  <2>2. [n |-> sent + 1, gx |-> row, c |-> None, install |-> TRUE] \in Rar
    BY <1>2 DEF Push, TypeInv, TypeOK, Rar
  <2>3. cause' \in [Call -> SUBSET Cause]
    BY <1>2, BlameType DEF Push, Transmit, Cause, TypeInv
  <2>4. QED
    BY <1>2, <2>1, <2>2, <2>3 DEF Push, TypeInv, TypeOK, NamedInv, pgw
<1>3. ASSUME NEW r \in rars, Serve(r)
      PROVE  TypeInv'
  <2>1. r.n \in Nat /\ r.gx \in Gx /\ r.c \in Call \cup {None}
    BY DEF TypeInv, TypeOK, Rar
  <2>2. raas' \subseteq Raa /\ rars' \subseteq Rar
    <3>1. [n |-> r.n, gx |-> r.gx, ok |-> r.gx = pdn] \in Raa
      BY <2>1 DEF Raa
    <3>2. QED
      BY <1>3, <3>1 DEF Serve, TypeInv, TypeOK
  <2>3. bearers' \subseteq Call /\ refused' \subseteq Nat
    BY <1>3, <2>1 DEF Serve, TypeInv, TypeOK
  <2>4. QED
    BY <1>3, <2>2, <2>3 DEF Serve, TypeInv, TypeOK, NamedInv
<1>4. ASSUME NEW r \in rars, Refuse(r)
      PROVE  TypeInv'
  <2>1. r.n \in Nat /\ r.gx \in Gx
    BY DEF TypeInv, TypeOK, Rar
  <2>2. raas' \subseteq Raa /\ rars' \subseteq Rar /\ refused' \subseteq Nat
    <3>1. [n |-> r.n, gx |-> r.gx, ok |-> FALSE] \in Raa
      BY <2>1 DEF Raa
    <3>2. QED
      BY <1>4, <2>1, <3>1 DEF Refuse, TypeInv, TypeOK
  <2>3. faults' \in Nat
    BY <1>4 DEF Refuse, Fault, TypeInv, TypeOK
  <2>4. QED
    BY <1>4, <2>2, <2>3 DEF Refuse, TypeInv, TypeOK, NamedInv
<1>5. ASSUME NEW r \in rars, LoseRar(r)
      PROVE  TypeInv'
  <2>1. cause' \in [Call -> SUBSET Cause] /\ faults' \in Nat
    BY <1>5, BlameType DEF LoseRar, Cause, Fault, TypeInv, TypeOK
  <2>2. QED
    BY <1>5, <2>1 DEF LoseRar, TypeInv, TypeOK, NamedInv, pgw
<1>6. ASSUME NEW a \in raas, Arrive(a)
      PROVE  TypeInv'
  BY <1>6 DEF Arrive, TypeInv, TypeOK, NamedInv, pgw
<1>7. QED
  BY <1>1, <1>2, <1>3, <1>4, <1>5, <1>6

LEMMA NextTypes == TypeInv /\ [Next]_vars => TypeInv'
<1> SUFFICES ASSUME TypeInv, [Next]_vars
             PROVE  TypeInv'
  OBVIOUS
<1>1. CASE UNCHANGED vars
  BY <1>1 DEF vars, TypeInv, TypeOK, NamedInv, network, pgw
<1>2. CASE Next
  BY <1>2, RequestTypes, DatabaseTypes, HssTypes, NetworkTypes DEF Next
<1>3. QED
  BY <1>1, <1>2

\* Type invariant: handlers, messages and rows keep their shape, and a
\* handler that asks the PGW has its call and a Gx session.
THEOREM RxTypes == Spec => []TypeOK
<1>1. Spec => []TypeInv
  BY InitTypes, NextTypes, PTL DEF Spec
<1>2. QED
  BY <1>1, PTL DEF TypeInv

-----------------------------------------------------------------------------
(***************************************************************************)
(* A refusal is of the handler's own RAR.                                  *)
(***************************************************************************)

\* Every answer that says so is to a RAR that the PGW has refused.
TruthInv == \A a \in raas \cup inbound : a.ok \/ a.n \in refused

\* Unless RARs of its Gx session overlapped, a handler that waits finds there
\* only its own RAR, its own answer, and answers it has seen before.
OwnInv == \A w \in Worker :
  job[w].at = "wait" /\ "shared" \notin cause[job[w].c] =>
    /\ \A m \in rars \cup raas : m.gx = job[w].gx => m.n = job[w].n
    /\ \A a \in inbound :
         a.gx = job[w].gx => a.n = job[w].n \/ a.n \in job[w].old

RefusalInv == TypeInv /\ TruthInv /\ OwnInv

\* Causes are never forgotten.
LEMMA BlameKept ==
  ASSUME TypeOK, NEW calls, NEW why, Blame(calls, why)
  PROVE  \A c \in Call : cause[c] \subseteq cause'[c]
BY DEF Blame

LEMMA CausesKept ==
  ASSUME TypeOK, [Next]_vars
  PROVE  \A c \in Call : cause[c] \subseteq cause'[c]
BY BlameKept
   DEF Next, vars, network, pgw, CcrI, CcrT, Aar, Str, Clear, Look, Mark, Find,
       Unmark, DbFails, Send, SendFails, Match, TimeOut, Waited, Answer, Drop,
       Delete, Discard, Detach, Push, Transmit, Serve, Refuse, LoseRar, Arrive

\* A step that starts no wait and puts nothing on its way.
LEMMA OwnKept ==
  ASSUME RefusalInv,
         \A w \in Worker : job'[w].at = "wait" => job'[w] = job[w],
         \A c \in Call : cause[c] \subseteq cause'[c],
         rars' \subseteq rars,
         \A m \in raas' :
            m \in raas \/ \E r \in rars : m.n = r.n /\ m.gx = r.gx,
         inbound' \subseteq inbound \cup raas
  PROVE  OwnInv'
<1> SUFFICES ASSUME NEW w \in Worker, job'[w].at = "wait",
                    "shared" \notin cause'[job'[w].c]
             PROVE  /\ \A m \in rars' \cup raas' :
                         m.gx = job'[w].gx => m.n = job'[w].n
                    /\ \A a \in inbound' :
                         a.gx = job'[w].gx
                           => a.n = job'[w].n \/ a.n \in job'[w].old
  BY DEF OwnInv
<1>1. job'[w] = job[w] /\ job[w].c \in Call
  BY DEF RefusalInv, TypeInv, NamedInv
<1>2. /\ \A m \in rars \cup raas : m.gx = job[w].gx => m.n = job[w].n
      /\ \A a \in inbound :
           a.gx = job[w].gx => a.n = job[w].n \/ a.n \in job[w].old
  BY <1>1 DEF RefusalInv, OwnInv
<1>3. QED
  BY <1>1, <1>2

\* A RAR is sent: every other handler that waits on its Gx session has the
\* cause from then on.
LEMMA OwnSent ==
  ASSUME RefusalInv, NEW m \in Rar, NEW calls, Transmit(m, calls),
         Waiting(m.gx) \subseteq calls, NEW w \in Worker,
         job[w].at = "wait", "shared" \notin cause'[job[w].c],
         UNCHANGED <<raas, inbound>>
  PROVE  /\ \A x \in rars' \cup raas' : x.gx = job[w].gx => x.n = job[w].n
         /\ \A a \in inbound' :
              a.gx = job[w].gx => a.n = job[w].n \/ a.n \in job[w].old
<1>1. job[w].c \in Call
  BY DEF RefusalInv, TypeInv, NamedInv
<1>2. job[w].c \notin calls /\ "shared" \notin cause[job[w].c]
  BY <1>1 DEF Transmit, Blame, RefusalInv, TypeInv, TypeOK
<1>3. m.gx # job[w].gx
  BY <1>2 DEF Waiting
<1>4. QED
  BY <1>2, <1>3 DEF Transmit, RefusalInv, OwnInv

LEMMA NextRefusal == RefusalInv /\ [Next]_vars => RefusalInv'
<1> SUFFICES ASSUME RefusalInv, [Next]_vars
             PROVE  RefusalInv'
  OBVIOUS
<1>1. TypeInv' /\ TypeOK /\ job \in [Worker -> Job]
  BY NextTypes DEF RefusalInv, TypeInv, TypeOK
<1>2. ASSUME UNCHANGED <<raas, inbound, refused>>
      PROVE  TruthInv'
  BY <1>2 DEF RefusalInv, TruthInv
<1>3. ASSUME UNCHANGED <<rars, raas, inbound>>,
             \A c \in Call : cause[c] \subseteq cause'[c],
             \A w \in Worker : job'[w].at = "wait" => job'[w] = job[w]
      PROVE  OwnInv'
  BY <1>3, OwnKept
<1>4. ASSUME NEW w \in Worker, NEW j, job' = [job EXCEPT ![w] = j],
             j.at # "wait"
      PROVE  \A v \in Worker : job'[v].at = "wait" => job'[v] = job[v]
  BY <1>1, <1>4
<1>5. ASSUME NEW w \in Worker, NEW at \in Step \ {"wait"}, Goes(w, at)
      PROVE  \A v \in Worker : job'[v].at = "wait" => job'[v] = job[v]
  BY <1>1, <1>5, JobMoves DEF Goes
<1>6. \A c \in Call : cause[c] \subseteq cause'[c]
  BY <1>1, CausesKept
<1>7. ASSUME NEW w \in Worker, CcrI(w) \/ CcrT(w) \/ Aar(w) \/ Str(w)
      PROVE  TruthInv' /\ OwnInv'
  <2>1. UNCHANGED <<network, refused>>
    BY <1>7 DEF CcrI, CcrT, Aar, Str, pgw
  <2>2. \E j : Request(w, j) /\ j.at # "wait"
    <3>1. Idle.at # "wait"
      BY IdleType
    <3>2. /\ Handler("drop", "ccr_t", None, None).at # "wait"
          /\ \A c, kind : /\ Handler("clear", kind, c, None).at # "wait"
                          /\ Handler("find", "str", c, None).at # "wait"
      BY DEF Handler
    <3>3. QED
      BY <1>7, <3>1, <3>2 DEF CcrI, CcrT, Aar, Str
  <2>3. \A v \in Worker : job'[v].at = "wait" => job'[v] = job[v]
    BY <1>4, <2>2 DEF Request
  <2>4. QED
    BY <1>2, <1>3, <1>6, <2>1, <2>3 DEF network
<1>8. ASSUME NEW w \in Worker,
             \/ Clear(w) \/ Look(w) \/ Mark(w) \/ Find(w) \/ Unmark(w)
             \/ DbFails(w) \/ Drop(w) \/ Delete(w)
             \/ SendFails(w) \/ Match(w) \/ TimeOut(w) \/ Answer(w)
      PROVE  TruthInv' /\ OwnInv'
  <2>1. UNCHANGED <<network, refused>>
    BY <1>8 DEF Clear, Look, Mark, Find, Unmark, DbFails, Drop, Delete,
                SendFails, Match, TimeOut, Waited, Answer, pgw
  <2>2. job[w] \in Job
    BY <1>1
  <2>3. \A v \in Worker : job'[v].at = "wait" => job'[v] = job[v]
    <3>1. CASE \E at \in {"look", "answer", "send", "delete"} : Goes(w, at)
      BY <1>5, <3>1 DEF Step
    <3>2. ASSUME NEW next \in {"mark", "unmark"}, LookUp(w, next)
          PROVE  \A v \in Worker : job'[v].at = "wait" => job'[v] = job[v]
      <4> DEFINE at == IF row = None THEN "answer" ELSE next
                 j == [job[w] EXCEPT !.at = at, !.gx = row]
      <4>1. at # "wait" /\ row \in Gx \cup {None}
        BY <1>1 DEF TypeOK
      <4>2. j.at = at
        BY <2>2 DEF Job
      <4>3. job' = [job EXCEPT ![w] = j]
        BY <3>2 DEF LookUp
      <4> HIDE DEF at, j
      <4>4. QED
        BY <1>4, <4>1, <4>2, <4>3
    <3>3. CASE DbFails(w)
      <4> DEFINE at == AfterFailure[job[w].at]
                 j == [job[w] EXCEPT !.at = at, !.ok = job[w].at # "clear"]
      <4>1. at # "wait"
        BY <3>3 DEF DbFails, AfterFailure
      <4>2. j.at = at
        BY <2>2 DEF Job
      <4>3. job' = [job EXCEPT ![w] = j]
        BY <3>3 DEF DbFails
      <4> HIDE DEF at, j
      <4>4. QED
        BY <1>4, <4>1, <4>2, <4>3
    <3>4. CASE Match(w) \/ TimeOut(w)
      <4>1. PICK ok : Waited(w, ok)
        BY <3>4 DEF Match, TimeOut
      <4> DEFINE j == [job[w] EXCEPT !.at = "answer", !.ok = ok, !.old = {}]
      <4>2. j.at = "answer"
        BY <2>2 DEF Job
      <4>3. job' = [job EXCEPT ![w] = j]
        BY <4>1 DEF Waited
      <4> HIDE DEF j
      <4>4. QED
        BY <1>4, <4>2, <4>3
    <3>5. CASE job' = [job EXCEPT ![w] = Idle]
      BY <1>4, <3>5, IdleType
    <3>6. QED
      BY <1>8, <3>1, <3>2, <3>3, <3>4, <3>5
         DEF Clear, Look, Mark, Find, Unmark, SendFails, Answer, Drop, Delete
  <2>4. QED
    BY <1>2, <1>3, <1>6, <2>1, <2>3 DEF network
<1>9. ASSUME NEW w \in Worker, Send(w)
      PROVE  TruthInv' /\ OwnInv'
  <2> DEFINE m == RarOf(job[w], sent + 1)
             gx == job[w].gx
             c == job[w].c
             calls == IF UnderWay(gx) \/ Waiting(gx) # {}
                      THEN Waiting(gx) \cup {c}
                      ELSE {}
  <2>1. /\ job[w].at = "send" /\ c \in Call /\ gx \in Gx
        /\ UNCHANGED <<raas, inbound, refused>> /\ Transmit(m, calls)
        /\ job' = [job EXCEPT ![w].at = "wait", ![w].n = sent + 1,
                              ![w].old = Seen]
    BY <1>9 DEF Send, RefusalInv, TypeInv, NamedInv, pgw
  <2>2. m \in Rar /\ m.gx = gx /\ m.n = sent + 1
    BY <1>1, <2>1 DEF RarOf, Rar, TypeOK
  <2>3. /\ \A v \in Worker \ {w} : job'[v] = job[v]
        /\ job'[w].c = c /\ job'[w].gx = gx /\ job'[w].n = sent + 1
        /\ job'[w].old = Seen
    <3>1. job[w] \in Job /\ sent + 1 \in Nat
      BY <1>1 DEF TypeOK
    <3>2. QED
      BY <1>1, <2>1, <3>1 DEF Job
  <2>4. ASSUME NEW v \in Worker, v # w, job'[v].at = "wait",
               "shared" \notin cause'[job'[v].c]
        PROVE  /\ \A x \in rars' \cup raas' :
                    x.gx = job'[v].gx => x.n = job'[v].n
               /\ \A a \in inbound' :
                    a.gx = job'[v].gx => a.n = job'[v].n \/ a.n \in job'[v].old
    <3>1. job'[v] = job[v] /\ Waiting(m.gx) \subseteq calls
      BY <2>2, <2>3, <2>4
    <3> HIDE DEF m, calls, gx, c
    <3>2. QED
      BY <2>1, <2>2, <2>4, <3>1, OwnSent
  <2>5. ASSUME "shared" \notin cause'[c]
        PROVE  /\ \A x \in rars' \cup raas' : x.gx = gx => x.n = sent + 1
               /\ \A a \in inbound' : a.n \in Seen
    <3>1. c \notin calls
      BY <1>1, <2>1, <2>5 DEF Transmit, Blame, TypeOK
    <3>2. ~UnderWay(gx)
      BY <3>1
    <3>3. rars' = rars \cup {m}
      BY <2>1 DEF Transmit
    <3>4. QED
      BY <2>1, <2>2, <3>2, <3>3 DEF UnderWay, Seen
  <2>6. OwnInv'
    <3> HIDE DEF m, calls, gx, c
    <3>1. QED
      BY <2>3, <2>4, <2>5 DEF OwnInv
  <2>7. QED
    BY <1>2, <2>1, <2>6
<1>10. ASSUME NEW w \in Worker, Discard(w)
       PROVE  TruthInv' /\ OwnInv'
  <2>1. /\ UNCHANGED <<job, rars, raas, refused, cause>>
        /\ inbound' \subseteq inbound
    BY <1>10 DEF Discard, pgw
  <2>2. QED
    BY <2>1, OwnKept DEF RefusalInv, TruthInv
<1>11. ASSUME Detach
       PROVE  TruthInv' /\ OwnInv'
  BY <1>2, <1>3, <1>11 DEF Detach, network
<1>12. ASSUME Push
       PROVE  TruthInv' /\ OwnInv'
  <2> DEFINE m == [n |-> sent + 1, gx |-> row, c |-> None, install |-> TRUE]
  <2>1. /\ m \in Rar /\ m.gx = row /\ Transmit(m, Waiting(m.gx))
        /\ UNCHANGED <<job, raas, inbound, refused>>
    BY <1>1, <1>12 DEF Push, TypeOK, Rar, pgw
  <2> HIDE DEF m
  <2>2. OwnInv'
    BY <2>1, OwnSent DEF OwnInv
  <2>3. QED
    BY <1>2, <2>1, <2>2
<1>13. ASSUME NEW r \in rars, Serve(r) \/ Refuse(r) \/ LoseRar(r)
       PROVE  TruthInv' /\ OwnInv'
  <2>1. /\ UNCHANGED <<job, inbound>> /\ refused \subseteq refused'
        /\ rars' \subseteq rars
        /\ \/ UNCHANGED raas
           \/ \E ok :
                /\ raas' = raas \cup {[n |-> r.n, gx |-> r.gx, ok |-> ok]}
                /\ ok \/ r.n \in refused'
    BY <1>13 DEF Serve, Refuse, LoseRar, pgw
  <2>2. \A m \in raas' : \/ m \in raas
                         \/ /\ m.n = r.n /\ m.gx = r.gx
                            /\ m.ok \/ r.n \in refused'
    BY <2>1
  <2>3. QED
    BY <1>6, <2>1, <2>2, OwnKept DEF RefusalInv, TruthInv
<1>14. ASSUME NEW a \in raas, Arrive(a)
       PROVE  TruthInv' /\ OwnInv'
  <2>1. /\ UNCHANGED <<job, rars, refused, cause>> /\ raas' \subseteq raas
        /\ inbound' = inbound \cup {a}
    BY <1>14 DEF Arrive, pgw
  <2>2. QED
    BY <2>1, OwnKept DEF RefusalInv, TruthInv
<1>15. CASE UNCHANGED vars
  BY <1>1, <1>2, <1>3, <1>15 DEF vars, network, pgw, RefusalInv
<1>16. QED
  BY <1>1, <1>7, <1>8, <1>9, <1>10, <1>11, <1>12, <1>13, <1>14, <1>15
     DEF Next, RefusalInv

\* awaitDiameterRequestAndResponse: unless RARs of one Gx session overlapped,
\* a call is refused only if the PGW has refused the RAR of that call.
THEOREM OnlyOwnRefusal == Spec => RefusedOwn
<1>1. Init => RefusalInv
  <2>1. Init => TruthInv
    BY DEF Init, TruthInv
  <2>2. Init => OwnInv
    BY IdleType DEF Init, OwnInv
  <2>3. QED
    BY <2>1, <2>2, InitTypes DEF RefusalInv
<1>2. ASSUME RefusalInv, [Next]_vars, NEW w \in Worker,
             job[w].at = "wait", job'[w].at = "answer", ~job'[w].ok,
             "shared" \notin cause[job[w].c]
      PROVE  job[w].n \in refused
  <2>1. job[w] \in Job /\ job \in [Worker -> Job] /\ job'[w] # job[w]
    BY <1>2 DEF RefusalInv, TypeInv, TypeOK
  <2>2. ASSUME NEW v \in Worker, v # w
        PROVE  /\ \A j : ~Request(v, j)
               /\ \A at : ~Goes(v, at)
               /\ \A next : ~LookUp(v, next)
               /\ \A ok : ~Waited(v, ok)
               /\ ~DbFails(v) /\ ~Send(v)
               /\ job' # [job EXCEPT ![v] = Idle]
    <3>1. \A j : job' # [job EXCEPT ![v] = j]
      BY <2>1, <2>2
    <3>2. /\ \A j : ~Request(v, j)
          /\ \A at : ~Goes(v, at)
          /\ \A next : ~LookUp(v, next)
      BY <3>1 DEF Request, Goes, LookUp
    <3>3. /\ \A ok : ~Waited(v, ok)
          /\ ~DbFails(v) /\ ~Send(v)
      BY <3>1 DEF Waited, DbFails, Send
    <3>4. QED
      BY <3>1, <3>2, <3>3
  <2>3. Match(w) \/ TimeOut(w)
    <3>1. ~UNCHANGED job
      BY <2>1
    <3>2. /\ ~UNCHANGED vars /\ ~Detach /\ ~Push
          /\ \A r : ~Serve(r) /\ ~Refuse(r) /\ ~LoseRar(r)
          /\ \A a : ~Arrive(a)
          /\ \A v \in Worker : ~Discard(v)
      BY <3>1 DEF vars, Detach, Push, Serve, Refuse, LoseRar, Arrive, Discard
    <3>3. ASSUME NEW v \in Worker, v # w
          PROVE  /\ ~CcrI(v) /\ ~CcrT(v) /\ ~Aar(v) /\ ~Str(v) /\ ~Clear(v)
                 /\ ~Look(v) /\ ~Mark(v) /\ ~Find(v) /\ ~Unmark(v)
                 /\ ~SendFails(v) /\ ~Match(v) /\ ~TimeOut(v)
                 /\ ~Answer(v) /\ ~Drop(v) /\ ~Delete(v)
      BY <2>2, <3>3 DEF CcrI, CcrT, Aar, Str, Clear, Look, Mark, Find, Unmark,
                        SendFails, Match, TimeOut, Answer, Drop, Delete
    <3>4. /\ ~CcrI(w) /\ ~CcrT(w) /\ ~Aar(w) /\ ~Str(w) /\ ~Clear(w)
          /\ ~Look(w) /\ ~Mark(w) /\ ~Find(w) /\ ~Unmark(w)
          /\ ~DbFails(w) /\ ~Send(w) /\ ~SendFails(w)
          /\ ~Answer(w) /\ ~Drop(w) /\ ~Delete(w)
      BY <1>2 DEF CcrI, CcrT, Aar, Str, Request, Busy, Clear, Look, Mark, Find,
                  Unmark, DbFails, AfterFailure, Send, SendFails, Answer, Drop,
                  Delete
    <3>5. Next
      BY <1>2, <3>2
    <3>6. QED
      BY <2>2, <3>2, <3>3, <3>4, <3>5 DEF Next
  <2>4. ASSUME NEW ok \in BOOLEAN, Waited(w, ok)
        PROVE  job'[w].ok = ok
    BY <2>1, <2>4 DEF Waited, Job
  <2>5. TRUE \in BOOLEAN /\ \A a \in inbound : a.ok \in BOOLEAN
    BY <1>2 DEF RefusalInv, TypeInv, TypeOK, Raa
  <2>6. PICK a \in inbound : Matches(job[w], a) /\ ~a.ok
    BY <1>2, <2>3, <2>4, <2>5 DEF Match, TimeOut
  <2>7. a.n \in refused /\ a.gx = job[w].gx /\ a.n \notin job[w].old
    BY <1>2, <2>6 DEF RefusalInv, TruthInv, Matches
  <2>8. a.n = job[w].n
    BY <1>2, <2>7 DEF RefusalInv, OwnInv
  <2>9. QED
    BY <2>7, <2>8
<1>3. RefusalInv /\ [Next]_vars
        => [\A w \in Worker :
              /\ job[w].at = "wait" /\ job'[w].at = "answer" /\ ~job'[w].ok
              /\ "shared" \notin cause[job[w].c]
              => job[w].n \in refused]_vars
  BY <1>2
<1>4. QED
  BY <1>1, <1>3, NextRefusal, PTL DEF Spec, RefusedOwn

-----------------------------------------------------------------------------
(***************************************************************************)
(* The bearer of a call goes with it.                                      *)
(***************************************************************************)

\* A call that nothing has happened to is at work in one handler at most,
\* and only while it is asked for or ending; what the handler has read of the
\* row is still true, and the column says how far it has come.
HandlersOf(c) == {w \in Worker : job[w].c = c}

AtWork(c, w) ==
  \/ /\ call[c] = "asked" /\ job[w].kind = "other"
     /\ job[w].at \in {"clear", "answer"}
  \/ /\ call[c] = "asked" /\ job[w].kind = "audio"
     /\ job[w].at \in {"clear", "look", "mark", "send", "wait", "answer"}
     /\ job[w].at \in {"mark", "send", "wait"} => job[w].gx = row
     /\ job[w].at \in {"send", "wait"} => active = c
  \/ /\ call[c] = "ending" /\ job[w].kind = "str"
     /\ job[w].at \in {"find", "unmark", "send", "wait", "answer"}
     /\ job[w].at \in {"unmark", "send"} => job[w].gx = row
     /\ job[w].at = "unmark" => active = c
     /\ job[w].at \in {"send", "wait", "answer"} => active # c

HandlerInv(c) ==
  /\ \A v, w \in HandlersOf(c) : v = w
  /\ \A w \in HandlersOf(c) : AtWork(c, w)

\* It is the active session only while it is on.
ActiveInv(c) == active = c => On(c) /\ row # None

\* The RAR that installs its bearer is waited for; the one that removes it
\* finds it.
AwaitedRar(c, r) ==
  \E w \in HandlersOf(c) : /\ job[w].kind = "audio" /\ job[w].at = "wait"
                           /\ job[w].n = r.n /\ job[w].gx = r.gx
RarInv(c) ==
  \A r \in rars : r.c = c =>
    /\ r.install => AwaitedRar(c, r)
    /\ ~r.install =>
         /\ call[c] \in {"ending", "over"}
         /\ \A w \in HandlersOf(c) : job[w].at \in {"wait", "answer"}
         /\ c \in bearers => r.gx = pdn

\* Its bearer is on the session of the row, and while it is there the column
\* leads to it, or the handler that will see to it is at work, or the RAR
\* that removes it is on its way.
SeenTo(c) ==
  \/ active = c
  \/ \E w \in HandlersOf(c) :
       \/ job[w].kind = "audio" /\ job[w].at \in {"look", "mark"}
       \/ job[w].kind = "str" /\ job[w].at = "send"
Removing(c) == \E r \in rars : r.c = c /\ ~r.install
BearerInv(c) ==
  c \in bearers => /\ pdn # None
                   /\ (On(c) /\ pdn = row /\ SeenTo(c)) \/ Removing(c)

CallInv(c) == HandlerInv(c) /\ ActiveInv(c) /\ RarInv(c) /\ BearerInv(c)
EndedInv == \A c \in Call : cause[c] = {} => CallInv(c)

\* Whoever is blamed has a cause.
LEMMA Blamed ==
  ASSUME TypeOK, NEW calls, NEW why, NEW c \in Call, Blame(calls, why),
         cause'[c] = {}
  PROVE  c \notin calls
BY DEF Blame, TypeOK

\* A step that is not of call c.
LEMMA CallKept ==
  ASSUME NEW c \in Call, CallInv(c), call'[c] = call[c],
         HandlersOf(c)' = HandlersOf(c),
         \A w \in HandlersOf(c) : job'[w] = job[w],
         active' = c <=> active = c,
         row' = row \/ ~On(c),
         \A r : r.c = c => (r \in rars' <=> r \in rars),
         c \in bearers' => c \in bearers /\ pdn' = pdn
  PROVE  CallInv(c)'
<1>1. On(c)' <=> On(c)
  BY DEF On
<1>2. \A w \in HandlersOf(c) : AtWork(c, w)'
  <2>1. ASSUME NEW w \in HandlersOf(c)
        PROVE  AtWork(c, w)'
    <3>1. AtWork(c, w) /\ job'[w] = job[w] /\ row' = row
      BY <2>1 DEF CallInv, HandlerInv, AtWork, On
    <3>2. QED
      BY <3>1 DEF AtWork
  <2>2. QED
    BY <2>1
<1>3. HandlerInv(c)'
  BY <1>2 DEF CallInv, HandlerInv
<1>4. ActiveInv(c)'
  BY <1>1 DEF CallInv, ActiveInv
<1>5. RarInv(c)'
  BY DEF CallInv, RarInv, AwaitedRar
<1>6. BearerInv(c)'
  <2>1. Removing(c)' <=> Removing(c)
    BY DEF Removing
  <2>2. SeenTo(c)' <=> SeenTo(c)
    BY DEF SeenTo
  <2>3. QED
    BY <1>1, <2>1, <2>2 DEF CallInv, BearerInv
<1>7. QED
  BY <1>3, <1>4, <1>5, <1>6 DEF CallInv

\* A worker that has nothing to do with call c does something else.
LEMMA OtherHandler ==
  ASSUME TypeInv, NEW c \in Call, NEW w \in Worker, NEW j,
         job' = [job EXCEPT ![w] = j], job[w].c # c, j.c # c
  PROVE  /\ HandlersOf(c)' = HandlersOf(c)
         /\ \A v \in HandlersOf(c) : job'[v] = job[v]
BY DEF TypeInv, TypeOK, HandlersOf

LEMMA OtherGoes ==
  ASSUME TypeInv, NEW c \in Call, NEW w \in Worker, NEW at \in Step,
         Goes(w, at), job[w].c # c
  PROVE  /\ HandlersOf(c)' = HandlersOf(c)
         /\ \A v \in HandlersOf(c) : job'[v] = job[v]
<1> DEFINE j == [job[w] EXCEPT !.at = at]
<1>1. job[w] \in Job /\ job' = [job EXCEPT ![w] = j]
  BY DEF TypeInv, TypeOK, Goes
<1>2. j.c = job[w].c
  BY <1>1, JobMoves
<1> HIDE DEF j
<1>3. QED
  BY <1>1, <1>2, OtherHandler

\* Requests, and the steps of the handlers of other calls.
LEMMA OthersKeep ==
  ASSUME TypeInv, NEW c \in Call, CallInv(c), cause'[c] = {},
         NEW w \in Worker, job[w].c # c,
         \/ CcrI(w) \/ CcrT(w) \/ Clear(w) \/ Look(w) \/ Mark(w) \/ Find(w)
         \/ Unmark(w) \/ DbFails(w) \/ Send(w) \/ SendFails(w) \/ Match(w)
         \/ TimeOut(w) \/ Answer(w) \/ Drop(w) \/ Delete(w) \/ Discard(w)
  PROVE  CallInv(c)'
<1>1. /\ TypeOK /\ job[w] \in Job /\ job \in [Worker -> Job]
      /\ None \notin Call /\ c # None /\ Idle.c = None
  BY RxAssumption DEF TypeInv, TypeOK, Idle, Handler
<1>2. CASE CcrI(w)
  <2>1. ~On(c) /\ bearers' = {}
    BY <1>1, <1>2, Blamed DEF CcrI
  <2>2. /\ HandlersOf(c)' = HandlersOf(c)
        /\ \A v \in HandlersOf(c) : job'[v] = job[v]
    BY <1>1, <1>2, OtherHandler DEF CcrI, Request
  <2>3. QED
    BY <1>2, <2>1, <2>2, CallKept DEF CcrI, network
<1>3. CASE CcrT(w)
  <2>1. bearers' = {}
    BY <1>3 DEF CcrT
  <2>2. /\ HandlersOf(c)' = HandlersOf(c)
        /\ \A v \in HandlersOf(c) : job'[v] = job[v]
    <3>1. Handler("drop", "ccr_t", None, None).c = None
      BY DEF Handler
    <3>2. QED
      BY <1>1, <1>3, <3>1, OtherHandler DEF CcrT, Request
  <2>3. QED
    BY <1>3, <2>1, <2>2, CallKept DEF CcrT, network
<1>4. CASE Clear(w)
  <2>1. active # c
    BY <1>1, <1>4, Blamed DEF Clear, Others
  <2>2. /\ HandlersOf(c)' = HandlersOf(c)
        /\ \A v \in HandlersOf(c) : job'[v] = job[v]
    BY <1>4, OtherGoes DEF Clear, Step
  <2>3. QED
    BY <1>1, <1>4, <2>1, <2>2, CallKept DEF Clear, network, pgw
<1>5. ASSUME NEW next \in {"mark", "unmark"}, LookUp(w, next)
      PROVE  /\ HandlersOf(c)' = HandlersOf(c)
             /\ \A v \in HandlersOf(c) : job'[v] = job[v]
  <2> DEFINE at == IF row = None THEN "answer" ELSE next
             j == [job[w] EXCEPT !.at = at, !.gx = row]
  <2>1. j.c = job[w].c /\ job' = [job EXCEPT ![w] = j]
    BY <1>1, <1>5 DEF LookUp, Job
  <2> HIDE DEF j
  <2>2. QED
    BY <2>1, OtherHandler
<1>6. CASE Look(w)
  BY <1>5, <1>6, CallKept DEF Look, network, pgw
<1>7. CASE Mark(w)
  <2>1. active # c /\ active' # c
    BY <1>1, <1>7, Blamed DEF Mark, Others
  <2>2. /\ HandlersOf(c)' = HandlersOf(c)
        /\ \A v \in HandlersOf(c) : job'[v] = job[v]
    BY <1>7, OtherGoes DEF Mark, Step
  <2>3. QED
    BY <1>7, <2>1, <2>2, CallKept DEF Mark, network, pgw
<1>8. CASE Find(w)
  <2>1. /\ HandlersOf(c)' = HandlersOf(c)
        /\ \A v \in HandlersOf(c) : job'[v] = job[v]
    BY <1>5, <1>8, OtherGoes DEF Find, Step
  <2>2. QED
    BY <1>8, <2>1, CallKept DEF Find, network, pgw
<1>9. CASE Unmark(w)
  <2>1. active # c /\ active' # c
    BY <1>1, <1>9, Blamed DEF Unmark, Others
  <2>2. /\ HandlersOf(c)' = HandlersOf(c)
        /\ \A v \in HandlersOf(c) : job'[v] = job[v]
    BY <1>9, OtherGoes DEF Unmark, Step
  <2>3. QED
    BY <1>9, <2>1, <2>2, CallKept DEF Unmark, network, pgw
<1>10. CASE DbFails(w)
  <2> DEFINE j == [job[w] EXCEPT !.at = AfterFailure[@],
                                 !.ok = job[w].at # "clear"]
  <2>1. j.c = job[w].c /\ job' = [job EXCEPT ![w] = j]
    BY <1>1, <1>10 DEF DbFails, Job
  <2> HIDE DEF j
  <2>2. QED
    BY <1>10, <2>1, OtherHandler, CallKept DEF DbFails, network, pgw
<1>11. CASE Send(w)
  <2> DEFINE j == [job[w] EXCEPT !.at = "wait", !.n = sent + 1, !.old = Seen]
             m == RarOf(job[w], sent + 1)
  <2>1. j.c = job[w].c /\ job' = [job EXCEPT ![w] = j]
    BY <1>1, <1>11 DEF Send, Job
  <2>2. m.c # c /\ rars' = rars \cup {m}
    BY <1>11 DEF Send, Transmit, RarOf
  <2> HIDE DEF j, m
  <2>3. /\ HandlersOf(c)' = HandlersOf(c)
        /\ \A v \in HandlersOf(c) : job'[v] = job[v]
    BY <2>1, OtherHandler
  <2>4. QED
    BY <1>11, <2>2, <2>3, CallKept DEF Send, pgw
<1>12. CASE SendFails(w)
  <2>1. /\ HandlersOf(c)' = HandlersOf(c)
        /\ \A v \in HandlersOf(c) : job'[v] = job[v]
    BY <1>12, OtherGoes DEF SendFails, Step
  <2>2. QED
    BY <1>12, <2>1, CallKept DEF SendFails, network, pgw
<1>13. CASE Match(w) \/ TimeOut(w)
  <2>1. PICK ok : Waited(w, ok)
    BY <1>13 DEF Match, TimeOut
  <2> DEFINE j == [job[w] EXCEPT !.at = "answer", !.ok = ok, !.old = {}]
  <2>2. j.c = job[w].c /\ job' = [job EXCEPT ![w] = j]
    BY <1>1, <2>1 DEF Waited, Job
  <2> HIDE DEF j
  <2>3. /\ HandlersOf(c)' = HandlersOf(c)
        /\ \A v \in HandlersOf(c) : job'[v] = job[v]
    BY <2>2, OtherHandler
  <2>4. QED
    BY <2>1, <2>3, CallKept DEF Waited, network, pgw
<1>14. CASE Answer(w)
  <2>1. job[w].c \in Call
    BY <1>14 DEF Answer, TypeInv, NamedInv
  <2>2. call'[c] = call[c]
    BY <1>1, <1>14 DEF Answer, TypeOK
  <2>3. /\ HandlersOf(c)' = HandlersOf(c)
        /\ \A v \in HandlersOf(c) : job'[v] = job[v]
    BY <1>1, <1>14, OtherHandler DEF Answer
  <2>4. QED
    BY <1>14, <2>2, <2>3, CallKept DEF Answer, network, pgw
<1>15. CASE Drop(w)
  <2>1. ~On(c) /\ active # c
    <3>1. ~On(c)
      BY <1>1, <1>15, Blamed DEF Drop
    <3>2. QED
      BY <3>1 DEF CallInv, ActiveInv
  <2>2. /\ HandlersOf(c)' = HandlersOf(c)
        /\ \A v \in HandlersOf(c) : job'[v] = job[v]
    BY <1>15, OtherGoes DEF Drop, Step
  <2>3. QED
    BY <1>1, <1>15, <2>1, <2>2, CallKept DEF Drop, network, pgw
<1>16. CASE Delete(w)
  <2>1. ~On(c)
    BY <1>1, <1>16, Blamed DEF Delete
  <2>2. /\ HandlersOf(c)' = HandlersOf(c)
        /\ \A v \in HandlersOf(c) : job'[v] = job[v]
    BY <1>1, <1>16, OtherHandler DEF Delete
  <2>3. QED
    BY <1>16, <2>1, <2>2, CallKept DEF Delete, network, pgw
<1>17. CASE Discard(w)
  BY <1>17, CallKept DEF Discard, HandlersOf, pgw
<1>18. QED
  BY <1>2, <1>3, <1>4, <1>6, <1>7, <1>8, <1>9, <1>10, <1>11, <1>12, <1>13,
     <1>14, <1>15, <1>16, <1>17

LEMMA OwnHandler ==
  ASSUME TypeInv, NEW c \in Call, CallInv(c), NEW w \in Worker, NEW j,
         HandlersOf(c) \subseteq {w}, job' = [job EXCEPT ![w] = j], j.c = c
  PROVE  HandlersOf(c)' = {w} /\ job'[w] = j
BY DEF TypeInv, TypeOK, HandlersOf

\* The steps of the call's own handler.
LEMMA OwnKeeps ==
  ASSUME TypeInv, NEW c \in Call, CallInv(c), cause'[c] = {},
         NEW w \in HandlersOf(c),
         \/ Clear(w) \/ Look(w) \/ Mark(w) \/ Find(w) \/ Unmark(w)
         \/ Send(w) \/ Match(w) \/ TimeOut(w) \/ Answer(w)
  PROVE  CallInv(c)'
<1>1. /\ TypeOK /\ w \in Worker /\ job[w] \in Job /\ job[w].c = c
      /\ job \in [Worker -> Job] /\ c # None
  BY RxAssumption DEF HandlersOf, TypeInv, TypeOK
<1>2. HandlersOf(c) = {w} /\ AtWork(c, w)
  BY DEF CallInv, HandlerInv
<1>3. ASSUME NEW at \in Step, Goes(w, at)
      PROVE  /\ HandlersOf(c)' = {w} /\ job'[w].at = at
             /\ job'[w].kind = job[w].kind /\ job'[w].gx = job[w].gx
  <2> DEFINE j == [job[w] EXCEPT !.at = at]
  <2>1. j.at = at /\ j.c = c /\ j.kind = job[w].kind /\ j.gx = job[w].gx
    BY <1>1, JobMoves
  <2>2. job' = [job EXCEPT ![w] = j]
    BY <1>3 DEF Goes
  <2> HIDE DEF j
  <2>3. QED
    BY <1>1, <1>2, <2>1, <2>2, OwnHandler
<1>4. ASSUME NEW next \in {"mark", "unmark"}, LookUp(w, next)
      PROVE  /\ HandlersOf(c)' = {w} /\ job'[w].kind = job[w].kind
             /\ job'[w].gx = row
             /\ job'[w].at = IF row = None THEN "answer" ELSE next
  <2> DEFINE at == IF row = None THEN "answer" ELSE next
             j == [job[w] EXCEPT !.at = at, !.gx = row]
  <2>1. j.at = at /\ j.c = c /\ j.kind = job[w].kind /\ j.gx = row
    BY <1>1 DEF Job
  <2>2. job' = [job EXCEPT ![w] = j]
    BY <1>4 DEF LookUp
  <2> HIDE DEF j
  <2>3. QED
    BY <1>1, <1>2, <2>1, <2>2, OwnHandler
\* No RAR of the call is under way until its handler has sent one.
<1>5. ASSUME job[w].at \notin {"wait", "answer"}
      PROVE  \A r \in rars : r.c # c
  BY <1>2, <1>5 DEF CallInv, RarInv, AwaitedRar
<1>6. ASSUME job[w].at \notin {"wait", "answer"}, UNCHANGED rars
      PROVE  RarInv(c)'
  BY <1>5, <1>6 DEF RarInv
<1>7. ASSUME job[w].at \notin {"wait", "answer"}, c \in bearers
      PROVE  On(c) /\ pdn = row /\ row # None /\ SeenTo(c)
  BY <1>5, <1>7 DEF CallInv, BearerInv, Removing
<1>8. CASE Clear(w)
  <2>1. /\ job[w].at = "clear" /\ active' = None /\ call[c] = "asked"
        /\ UNCHANGED <<row, rars, pdn, bearers, call>>
    BY <1>2, <1>8 DEF Clear, AtWork, network, pgw
  <2>2. \/ job[w].kind = "audio" /\ Goes(w, "look")
        \/ job[w].kind = "other" /\ Goes(w, "answer") /\ active # c
    <3>1. CASE job[w].kind = "audio"
      BY <1>8, <3>1 DEF Clear
    <3>2. CASE job[w].kind # "audio"
      <4>1. Goes(w, "answer") /\ Blame(Others(None), "second")
        BY <1>8, <3>2 DEF Clear
      <4>2. active # c
        BY <1>1, <4>1, Blamed DEF Others
      <4>3. QED
        BY <1>2, <2>1, <3>2, <4>1, <4>2 DEF AtWork
    <3>3. QED
      BY <3>1, <3>2
  <2>3. HandlerInv(c)' /\ ActiveInv(c)'
    BY <1>1, <1>3, <2>1, <2>2 DEF HandlerInv, AtWork, ActiveInv, Step
  <2>4. BearerInv(c)'
    <3>1. c \in bearers => On(c) /\ pdn = row /\ row # None /\ SeenTo(c)
      BY <1>7, <2>1
    <3>2. CASE job[w].kind = "audio" /\ Goes(w, "look")
      <4>1. /\ HandlersOf(c)' = {w}
            /\ job'[w].at = "look"
            /\ job'[w].kind = "audio"
        BY <1>3, <3>2 DEF Step
      <4>2. SeenTo(c)'
        BY <4>1 DEF SeenTo
      <4>3. QED
        BY <2>1, <3>1, <4>2 DEF BearerInv, On
    <3>3. CASE job[w].kind = "other" /\ active # c
      BY <1>2, <2>1, <3>1, <3>3 DEF BearerInv, SeenTo
    <3>4. QED
      BY <2>2, <3>2, <3>3
  <2>5. QED
    BY <1>6, <2>1, <2>3, <2>4 DEF CallInv
<1>9. CASE Look(w)
  <2>1. /\ job[w].at = "look" /\ call[c] = "asked" /\ job[w].kind = "audio"
        /\ UNCHANGED <<active, row, rars, pdn, bearers, call>>
    BY <1>2, <1>9 DEF Look, AtWork, network, pgw
  <2>2. /\ HandlersOf(c)' = {w} /\ job'[w].kind = "audio" /\ job'[w].gx = row
        /\ job'[w].at = IF row = None THEN "answer" ELSE "mark"
    BY <1>4, <1>9, <2>1 DEF Look
  <2>3. HandlerInv(c)' /\ ActiveInv(c)'
    BY <2>1, <2>2 DEF CallInv, HandlerInv, AtWork, ActiveInv, On
  <2>4. BearerInv(c)'
    BY <1>7, <2>1, <2>2 DEF BearerInv, SeenTo, On
  <2>5. QED
    BY <1>6, <2>1, <2>3, <2>4 DEF CallInv
<1>10. CASE Mark(w)
  <2>1. /\ job[w].at = "mark" /\ call[c] = "asked" /\ job[w].kind = "audio"
        /\ job[w].gx = row /\ row # None /\ active' = c
        /\ UNCHANGED <<row, rars, pdn, bearers, call>>
    BY <1>1, <1>2, <1>10, RxAssumption
       DEF Mark, AtWork, network, pgw, TypeInv, NamedInv, Gx
  <2>2. /\ HandlersOf(c)' = {w} /\ job'[w].kind = "audio" /\ job'[w].gx = row
        /\ job'[w].at = "send"
    BY <1>3, <1>10, <2>1 DEF Mark, Step
  <2>3. HandlerInv(c)' /\ ActiveInv(c)'
    BY <2>1, <2>2 DEF HandlerInv, AtWork, ActiveInv, On
  <2>4. BearerInv(c)'
    BY <1>7, <2>1 DEF BearerInv, SeenTo, On
  <2>5. QED
    BY <1>6, <2>1, <2>3, <2>4 DEF CallInv
<1>11. CASE Find(w)
  <2>1. /\ job[w].at = "find" /\ call[c] = "ending" /\ job[w].kind = "str"
        /\ UNCHANGED <<active, row, rars, pdn, bearers, call>>
        /\ active = c => row # None
    BY <1>2, <1>11 DEF Find, AtWork, network, pgw, CallInv, ActiveInv
  <2>2. /\ HandlersOf(c)' = {w} /\ job'[w].kind = "str"
        /\ \/ active = c /\ job'[w].at = "unmark" /\ job'[w].gx = row
           \/ active # c /\ job'[w].at = "answer"
    <3>1. CASE active = c
      <4>1. LookUp(w, "unmark")
        BY <1>1, <1>11, <3>1 DEF Find
      <4>2. QED
        BY <1>4, <2>1, <3>1, <4>1
    <3>2. CASE active # c
      <4>1. Goes(w, "answer")
        BY <1>1, <1>11, <3>2 DEF Find
      <4>2. QED
        BY <1>3, <2>1, <3>2, <4>1 DEF Step
    <3>3. QED
      BY <3>1, <3>2
  <2>3. HandlerInv(c)' /\ ActiveInv(c)'
    BY <2>1, <2>2 DEF CallInv, HandlerInv, AtWork, ActiveInv, On
  <2>4. c \in bearers => active = c
    BY <1>2, <1>7, <2>1 DEF SeenTo
  <2>5. BearerInv(c)'
    BY <1>7, <2>1, <2>4 DEF BearerInv, SeenTo, On
  <2>6. QED
    BY <1>6, <2>1, <2>3, <2>5 DEF CallInv
<1>12. CASE Unmark(w)
  <2>1. /\ job[w].at = "unmark" /\ call[c] = "ending" /\ job[w].kind = "str"
        /\ job[w].gx = row /\ active' = None
        /\ UNCHANGED <<row, rars, pdn, bearers, call>>
    BY <1>2, <1>12 DEF Unmark, AtWork, network, pgw
  <2>2. /\ HandlersOf(c)' = {w} /\ job'[w].kind = "str" /\ job'[w].gx = row
        /\ job'[w].at = "send"
    BY <1>3, <1>12, <2>1 DEF Unmark, Step
  <2>3. HandlerInv(c)' /\ ActiveInv(c)'
    BY <1>1, <2>1, <2>2 DEF HandlerInv, AtWork, ActiveInv
  <2>4. BearerInv(c)'
    BY <1>7, <2>1, <2>2 DEF BearerInv, SeenTo, On
  <2>5. QED
    BY <1>6, <2>1, <2>3, <2>4 DEF CallInv
<1>13. CASE Send(w)
  <2> DEFINE j == [job[w] EXCEPT !.at = "wait", !.n = sent + 1, !.old = Seen]
  <2> PICK m : m = RarOf(job[w], sent + 1)
    OBVIOUS
  <2>1. /\ job[w].at = "send" /\ rars' = rars \cup {m}
        /\ UNCHANGED <<active, row, pdn, bearers, call>>
    BY <1>13 DEF Send, Transmit, pgw
  <2>2. /\ j.at = "wait" /\ j.c = c /\ j.kind = job[w].kind
        /\ j.gx = job[w].gx /\ j.n = sent + 1
    BY <1>1 DEF Job
  <2>3. job' = [job EXCEPT ![w] = j]
    BY <1>13 DEF Send
  <2>4. /\ m.c = c /\ m.gx = job[w].gx /\ m.n = sent + 1
        /\ m.install <=> job[w].kind # "str"
    BY <1>1 DEF RarOf
  <2> HIDE DEF j
  <2>5. /\ HandlersOf(c)' = {w} /\ job'[w] = j
    BY <1>1, <1>2, <2>2, <2>3, OwnHandler
  <2>6. \A r \in rars' : r.c = c => r = m
    BY <1>5, <2>1
  <2>7. HandlerInv(c)' /\ ActiveInv(c)'
    BY <1>2, <2>1, <2>2, <2>5 DEF CallInv, HandlerInv, AtWork, ActiveInv, On
  <2>8. c \in bearers => On(c) /\ pdn = row /\ row # None
    BY <1>7, <2>1
  <2>9. CASE job[w].kind = "audio"
    <3>1. call[c] = "asked" /\ active = c
      BY <1>2, <2>1, <2>9 DEF AtWork
    <3>2. m.install /\ AwaitedRar(c, m)'
      BY <2>2, <2>4, <2>5, <2>9 DEF AwaitedRar
    <3>3. RarInv(c)'
      BY <2>6, <3>2 DEF RarInv
    <3>4. BearerInv(c)'
      BY <2>1, <2>8, <3>1 DEF BearerInv, SeenTo, On
    <3>5. QED
      BY <2>7, <3>3, <3>4 DEF CallInv
  <2>10. CASE job[w].kind = "str"
    <3>1. call[c] = "ending" /\ job[w].gx = row
      BY <1>2, <2>1, <2>10 DEF AtWork
    <3>2. ~m.install /\ m \in rars'
      BY <2>1, <2>4, <2>10
    <3>3. RarInv(c)'
      BY <2>1, <2>2, <2>4, <2>5, <2>6, <2>8, <3>1, <3>2 DEF RarInv
    <3>4. BearerInv(c)'
      BY <2>1, <2>4, <2>8, <3>2 DEF BearerInv, Removing
    <3>5. QED
      BY <2>7, <3>3, <3>4 DEF CallInv
  <2>11. QED
    BY <1>2, <2>1, <2>9, <2>10 DEF AtWork
<1>14. CASE Match(w) \/ TimeOut(w)
  <2>1. PICK ok : job[w].at = "wait" /\ Waited(w, ok)
    BY <1>14 DEF Match, TimeOut
  <2> DEFINE j == [job[w] EXCEPT !.at = "answer", !.ok = ok, !.old = {}]
  <2>2. /\ j.at = "answer" /\ j.c = c /\ j.kind = job[w].kind
        /\ j.gx = job[w].gx
    BY <1>1 DEF Job
  <2>3. job' = [job EXCEPT ![w] = j]
    BY <2>1 DEF Waited
  <2> HIDE DEF j
  <2>4. /\ HandlersOf(c)' = {w} /\ job'[w] = j
        /\ UNCHANGED <<active, row, rars, pdn, bearers, call>>
    BY <1>1, <1>2, <2>1, <2>2, <2>3, OwnHandler DEF Waited, network, pgw
  <2>5. HandlerInv(c)' /\ ActiveInv(c)'
    BY <1>2, <2>1, <2>2, <2>4 DEF CallInv, HandlerInv, AtWork, ActiveInv, On
  <2>6. \A r \in rars : r.n = job[w].n => ~r.install
    BY <1>1, <2>1, Blamed DEF Waited
  <2>7. \A r \in rars : r.c = c => ~r.install
    BY <1>2, <2>6 DEF CallInv, RarInv, AwaitedRar
  <2>8. RarInv(c)'
    BY <2>2, <2>4, <2>7 DEF CallInv, RarInv
  <2>9. BearerInv(c)'
    <3>1. SeenTo(c) => active = c
      BY <1>2, <2>1 DEF SeenTo
    <3>2. SeenTo(c) => SeenTo(c)'
      BY <2>4, <3>1 DEF SeenTo
    <3>3. QED
      BY <2>4, <3>2 DEF CallInv, BearerInv, Removing, On
  <2>10. QED
    BY <2>5, <2>8, <2>9 DEF CallInv
<1>15. CASE Answer(w)
  <2>1. /\ job[w].at = "answer" /\ HandlersOf(c)' = {}
        /\ UNCHANGED <<active, row, rars, pdn, bearers>>
    <3>1. Idle.c # c
      BY <1>1 DEF Idle, Handler
    <3>2. QED
      BY <1>1, <1>2, <1>15, <3>1 DEF Answer, HandlersOf, network, pgw
  <2>2. \A r \in rars : r.c = c => ~r.install
    BY <1>2, <2>1 DEF CallInv, RarInv, AwaitedRar
  <2>3. SeenTo(c) => active = c
    BY <1>2, <2>1 DEF SeenTo
  <2>4. HandlerInv(c)'
    BY <2>1 DEF HandlerInv
  <2>5. CASE job[w].kind = "str"
    <3>1. call[c] = "ending" /\ active # c /\ call'[c] = "over"
      BY <1>1, <1>2, <1>15, <2>1, <2>5 DEF Answer, AtWork, TypeOK
    <3>2. ActiveInv(c)' /\ RarInv(c)'
      BY <2>1, <2>2, <3>1 DEF ActiveInv, CallInv, RarInv
    <3>3. BearerInv(c)'
      BY <2>1, <2>3, <3>1 DEF CallInv, BearerInv, Removing
    <3>4. QED
      BY <2>4, <3>2, <3>3 DEF CallInv
  <2>6. CASE job[w].kind # "str"
    <3>1. call[c] = "asked" /\ call'[c] \in {"up", "refused"}
      BY <1>1, <1>2, <1>15, <2>1, <2>6 DEF Answer, AtWork, TypeOK
    <3>2. \A r \in rars : r.c # c
      BY <2>2, <3>1 DEF CallInv, RarInv
    <3>3. ActiveInv(c)' /\ RarInv(c)'
      BY <2>1, <3>1, <3>2 DEF ActiveInv, CallInv, RarInv, On
    <3>4. BearerInv(c)'
      BY <2>1, <2>3, <3>1, <3>2 DEF CallInv, BearerInv, Removing, SeenTo, On
    <3>5. QED
      BY <2>4, <3>3, <3>4 DEF CallInv
  <2>7. QED
    BY <2>5, <2>6
<1>16. QED
  BY <1>8, <1>9, <1>10, <1>11, <1>12, <1>13, <1>14, <1>15

\* The requests.
LEMMA RequestsKeep ==
  ASSUME TypeInv, NEW c \in Call, CallInv(c), cause'[c] = {},
         NEW w \in Worker, Aar(w) \/ Str(w)
  PROVE  CallInv(c)'
<1>1. /\ TypeOK /\ job \in [Worker -> Job] /\ DOMAIN call = Call
      /\ UNCHANGED <<active, row, rars, pdn, bearers>>
  <2>1. TypeOK
    BY DEF TypeInv
  <2>2. DOMAIN call = Call
    BY <2>1 DEF TypeOK
  <2>3. UNCHANGED <<active, row, rars, pdn, bearers>>
    BY DEF Aar, Str, network, pgw
  <2>4. QED
    BY <2>1, <2>2, <2>3 DEF TypeOK
<1>2. job[w].c # c
  BY DEF Aar, Str, Request, Busy, CallInv, HandlerInv, HandlersOf, AtWork
<1>3. PICK d \in Call :
             \/ /\ call[d] \in {"new", "up"}
                /\ call' = [call EXCEPT ![d] = "asked"]
                /\ \E kind \in {"audio", "other"} :
                     job' = [job EXCEPT ![w] = Handler("clear", kind, d, None)]
             \/ /\ call[d] \in {"asked", "up", "refused"}
                /\ call' = [call EXCEPT ![d] = "ending"]
                /\ job' = [job EXCEPT ![w] = Handler("find", "str", d, None)]
                /\ call[d] = "asked" => Blame({d}, "early")
  BY DEF Aar, Str, Request
<1>4. CASE d # c
  <2>1. call'[c] = call[c]
    BY <1>1, <1>3, <1>4
  <2>2. \A at, kind : Handler(at, kind, d, None).c # c
    BY <1>4 DEF Handler
  <2>3. /\ HandlersOf(c)' = HandlersOf(c)
        /\ \A v \in HandlersOf(c) : job'[v] = job[v]
    BY <1>2, <1>3, <2>2, OtherHandler
  <2>4. QED
    BY <1>1, <2>1, <2>3, CallKept
<1>5. CASE d = c
  <2>1. call[c] # "asked" /\ call[c] \in {"new", "up", "refused"}
    BY <1>1, <1>3, <1>5, Blamed
  <2>2. HandlersOf(c) = {} /\ \A r \in rars : r.c # c
    BY <2>1 DEF CallInv, HandlerInv, AtWork, RarInv, AwaitedRar
  <2>3. PICK at, kind :
               /\ job' = [job EXCEPT ![w] = Handler(at, kind, c, None)]
               /\ \/ /\ at = "clear" /\ kind \in {"audio", "other"}
                     /\ call'[c] = "asked"
                  \/ at = "find" /\ kind = "str" /\ call'[c] = "ending"
    BY <1>1, <1>3, <1>5
  <2> DEFINE j == Handler(at, kind, c, None)
  <2>4. j.at = at /\ j.kind = kind /\ j.c = c /\ job' = [job EXCEPT ![w] = j]
    BY <2>3 DEF Handler
  <2> HIDE DEF j
  <2>5. HandlersOf(c)' = {w} /\ job'[w] = j
    BY <2>2, <2>4, OwnHandler
  <2>6. HandlerInv(c)'
    BY <2>3, <2>4, <2>5 DEF HandlerInv, AtWork
  <2>7. ActiveInv(c)' /\ RarInv(c)'
    BY <1>1, <2>2, <2>3 DEF CallInv, ActiveInv, RarInv, On
  <2>8. BearerInv(c)'
    <3>1. c \in bearers => /\ On(c) /\ pdn = row /\ pdn # None /\ active = c
      BY <2>2 DEF CallInv, BearerInv, Removing, SeenTo
    <3>2. QED
      BY <1>1, <2>3, <3>1 DEF BearerInv, SeenTo, On
  <2>9. QED
    BY <2>6, <2>7, <2>8 DEF CallInv
<1>6. QED
  BY <1>4, <1>5

\* The PGW and the network.
LEMMA NetworkKeeps ==
  ASSUME TypeInv, NEW c \in Call, CallInv(c), cause'[c] = {},
         \/ Detach \/ Push
         \/ \E r \in rars : Serve(r) \/ Refuse(r) \/ LoseRar(r)
         \/ \E a \in raas : Arrive(a)
  PROVE  CallInv(c)'
<1>1. TypeOK /\ c # None /\ UNCHANGED <<active, row, job, call>>
  BY RxAssumption
     DEF Detach, Push, Serve, Refuse, LoseRar, Arrive, TypeInv, pgw, network
<1>2. HandlersOf(c)' = HandlersOf(c)
  BY <1>1 DEF HandlersOf
<1>3. ASSUME \A r : r.c = c => (r \in rars' <=> r \in rars),
             c \in bearers' => c \in bearers /\ pdn' = pdn
      PROVE  CallInv(c)'
  BY <1>1, <1>2, <1>3, CallKept
<1>4. CASE Detach
  BY <1>3, <1>4 DEF Detach, network
<1>5. CASE Push
  <2> DEFINE m == [n |-> sent + 1, gx |-> row, c |-> None, install |-> TRUE]
  <2>1. m.c # c /\ rars' = rars \cup {m}
    BY <1>1, <1>5 DEF Push, Transmit
  <2> HIDE DEF m
  <2>2. QED
    BY <1>3, <1>5, <2>1 DEF Push, pgw
<1>6. ASSUME NEW a \in raas, Arrive(a)
      PROVE  CallInv(c)'
  BY <1>3, <1>6 DEF Arrive, pgw
<1>7. ASSUME NEW r \in rars, r.c # c, Serve(r) \/ Refuse(r) \/ LoseRar(r)
      PROVE  CallInv(c)'
  <2>1. rars' = rars \ {r} /\ UNCHANGED pdn
    BY <1>7 DEF Serve, Refuse, LoseRar, pgw
  <2>2. c \in bearers' <=> c \in bearers
    BY <1>7 DEF Serve, Refuse, LoseRar, pgw
  <2>3. QED
    BY <1>3, <1>7, <2>1, <2>2
<1>8. ASSUME NEW r \in rars, r.c = c, rars' = rars \ {r}, UNCHANGED pdn
      PROVE  HandlerInv(c)' /\ ActiveInv(c)'
  BY <1>1, <1>2 DEF CallInv, HandlerInv, AtWork, ActiveInv, On
<1>9. ASSUME NEW r \in rars, r.c = c, Refuse(r) \/ Serve(r)
      PROVE  CallInv(c)'
  <2>1. rars' = rars \ {r} /\ UNCHANGED pdn
    BY <1>9 DEF Serve, Refuse
  <2>2. CASE r.install /\ (c \in bearers' => c \in bearers)
    <3>1. RarInv(c)'
      BY <1>1, <1>2, <2>1, <2>2 DEF CallInv, RarInv, AwaitedRar
    <3>2. BearerInv(c)'
      <4>1. Removing(c) => Removing(c)'
        BY <2>1, <2>2 DEF Removing
      <4>2. SeenTo(c)' <=> SeenTo(c)
        BY <1>1, <1>2 DEF SeenTo
      <4>3. QED
        BY <1>1, <2>1, <2>2, <4>1, <4>2 DEF CallInv, BearerInv, On
    <3>3. QED
      BY <1>8, <1>9, <2>1, <3>1, <3>2 DEF CallInv
  <2>3. CASE r.install /\ r.gx = pdn
    <3>1. PICK w \in HandlersOf(c) :
                 /\ job[w].kind = "audio" /\ job[w].at = "wait"
                 /\ job[w].gx = r.gx
      BY <1>9, <2>3 DEF CallInv, RarInv, AwaitedRar
    <3>2. call[c] = "asked" /\ active = c /\ pdn = row /\ row # None
      BY <2>3, <3>1 DEF CallInv, HandlerInv, AtWork, ActiveInv
    <3>3. RarInv(c)'
      BY <1>1, <1>2, <2>1, <3>2 DEF CallInv, RarInv, AwaitedRar
    <3>4. BearerInv(c)'
      BY <1>1, <2>1, <3>2 DEF BearerInv, SeenTo, On
    <3>5. QED
      BY <1>8, <1>9, <2>1, <3>3, <3>4 DEF CallInv
  <2>4. CASE ~r.install
    <3>1. c \notin bearers'
      BY <1>9, <2>4 DEF Serve, Refuse, CallInv, RarInv
    <3>2. RarInv(c)' /\ BearerInv(c)'
      BY <1>1, <1>2, <2>1, <3>1 DEF CallInv, RarInv, AwaitedRar, BearerInv
    <3>3. QED
      BY <1>8, <1>9, <2>1, <3>2 DEF CallInv
  <2>5. r.install /\ r.gx # pdn => (c \in bearers' => c \in bearers)
    BY <1>9 DEF Serve, Refuse
  <2>6. QED
    BY <2>2, <2>3, <2>4, <2>5
<1>10. ASSUME NEW r \in rars, LoseRar(r)
       PROVE  r.c # c
  BY <1>1, <1>10, Blamed DEF LoseRar
<1>11. QED
  BY <1>4, <1>5, <1>6, <1>7, <1>9, <1>10

LEMMA NextEnded == TypeInv /\ EndedInv /\ [Next]_vars => EndedInv'
<1> SUFFICES ASSUME TypeInv, EndedInv, [Next]_vars, NEW c \in Call,
                    cause'[c] = {}
             PROVE  CallInv(c)'
  BY DEF EndedInv
<1>1. CallInv(c) /\ TypeOK
  BY CausesKept DEF EndedInv, TypeInv
<1>2. CASE UNCHANGED vars
  BY <1>1, <1>2, CallKept DEF vars, network, pgw, HandlersOf
<1>3. ASSUME NEW w \in Worker, w \in HandlersOf(c)
      PROVE  /\ ~CcrI(w) /\ ~CcrT(w) /\ ~Drop(w) /\ ~Delete(w) /\ ~Discard(w)
             /\ ~DbFails(w) /\ ~SendFails(w)
  <2>1. AtWork(c, w) /\ job[w].c = c
    BY <1>1, <1>3 DEF CallInv, HandlerInv, HandlersOf
  <2>2. /\ ~CcrI(w) /\ ~CcrT(w) /\ ~Drop(w) /\ ~Delete(w) /\ ~Discard(w)
    BY <2>1 DEF AtWork, CcrI, CcrT, Request, Busy, Drop, Delete, Discard
  <2>3. ~DbFails(w) /\ ~SendFails(w)
    BY <1>1, <2>1, Blamed DEF DbFails, SendFails
  <2>4. QED
    BY <2>2, <2>3
<1>4. \A w \in Worker : w \notin HandlersOf(c) => job[w].c # c
  BY DEF HandlersOf
<1>5. CASE Next
  BY <1>1, <1>3, <1>4, <1>5, OthersKeep, OwnKeeps, RequestsKeep, NetworkKeeps
     DEF Next
<1>6. QED
  BY <1>2, <1>5

\* Answer_16777236_275: a call that is over, with no RAR of it under way, has
\* no bearer and is not the active session, unless it has one of the causes.
THEOREM BearersGo == Spec => []Ended
<1>1. Init => EndedInv
  <2>1. Init => \A c \in Call : HandlersOf(c) = {} /\ active # c
    BY RxAssumption DEF Init, HandlersOf, Idle, Handler
  <2>2. QED
    BY <2>1 DEF Init, EndedInv, CallInv, HandlerInv, ActiveInv, RarInv,
                BearerInv
<1>2. TypeInv /\ EndedInv => Ended
  BY DEF EndedInv, CallInv, ActiveInv, BearerInv, Removing, On, Ended
<1>3. QED
  BY <1>1, <1>2, InitTypes, NextTypes, NextEnded, PTL DEF Spec

=============================================================================
