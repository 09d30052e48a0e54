------------------------------ MODULE RxCalls -------------------------------
(***************************************************************************)
(* The bearers of a subscriber's calls.  The P-CSCF opens an Rx session    *)
(* for a call with an AAR, and the HSS, which is the PCRF too, has the PGW *)
(* install a bearer with a RAR on the Gx session of the IMS APN; the STR   *)
(* that ends the Rx session has the bearer removed (diameter.py).  Which   *)
(* call is on is the column pcscf_active_session of IMS_SUBSCRIBER, and it *)
(* has room for one.  A worker waits for the PGW's answer in the list that *)
(* all workers take their messages from (awaitDiameterRequestAndResponse). *)
(*                                                                         *)
(* One subscriber with IMS, at one site; no emergency calls.  The P-CSCF,  *)
(* the PGW and the messages between are external.                          *)
(***************************************************************************)
EXTENDS Naturals, FiniteSets

CONSTANTS
  Worker,       \* the HSS workers
  Call,         \* Rx sessions
  None,
  MaxRequests,  \* bound: requests that reach the HSS
  MaxFaults     \* bound: messages lost, bearers refused, database failures

ASSUME RxAssumption ==
  /\ None \notin Call \cup Nat
  /\ MaxRequests \in Nat
  /\ MaxFaults \in Nat

\* The Gx sessions of the IMS APN are numbered.
Gx == Nat \ {0}

\* A RAR, numbered; it is for a call, or pushed by the operator (None).
Rar == [n : Nat, gx : Gx, c : Call \cup {None}, install : BOOLEAN]

\* Its answer.
Raa == [n : Nat, gx : Gx, ok : BOOLEAN]

Step == {"idle", "clear", "look", "mark", "find", "unmark", "send", "wait",
         "answer", "drop", "delete"}

\* A handler: its call, the Gx session it has read, the number of its RAR,
\* the answers that were in the list before it was sent, its result.
Job == [at : Step, kind : {"audio", "other", "str", "ccr_t"},
        c : Call \cup {None}, gx : Gx \cup {None}, n : Nat,
        old : SUBSET Nat, ok : BOOLEAN]

Handler(at, kind, c, gx) ==
  [at |-> at, kind |-> kind, c |-> c, gx |-> gx, n |-> 0, old |-> {},
   ok |-> TRUE]
Idle == Handler("idle", "other", None, None)

\* Why the bearer of a call may stay.
Cause == {"second",   \* an AAR of another call, or without audio, came while
                      \* the call was on
          "gone",     \* the Gx session ended while the call was on
          "early",    \* the STR came before the AAR was answered
          "late",     \* the AAR was answered before the PGW had the RAR
          "shared",   \* two RARs were under way on the Gx session
          "lost"}     \* a message was lost, the database failed

VARIABLES
  active,   \* IMS_SUBSCRIBER.pcscf_active_session
  row,      \* the Gx session of the SERVING_APN row of the IMS APN
  job,      \* [Worker -> Job]
  inbound,  \* the answers of the PGW in the list diameter-inbound
  rars,     \* external: RARs on their way to the PGW
  raas,     \* external: answers on their way back
  pdn,      \* external: the Gx session the PGW has
  opened,   \* external: how many it has opened
  bearers,  \* external: the calls that have a bearer at the PGW
  call,     \* external: [Call -> what the P-CSCF thinks]
  refused,  \* history: RARs that the PGW has refused
  cause,    \* history: [Call -> SUBSET Cause]
  sent,     \* number of RARs sent
  requests, \* how many requests have come
  faults    \* how many things have gone wrong

network == <<rars, raas, inbound>>
pgw == <<pdn, opened, bearers, refused>>
vars == <<active, row, job, network, pgw, call, cause, sent, requests, faults>>

Init ==
  /\ active = None
  /\ row = None
  /\ job = [w \in Worker |-> Idle]
  /\ inbound = {} /\ rars = {} /\ raas = {}
  /\ pdn = None
  /\ opened = 0
  /\ bearers = {}
  /\ call = [c \in Call |-> "new"]
  /\ refused = {}
  /\ cause = [c \in Call |-> {}]
  /\ sent = 0
  /\ requests = 0
  /\ faults = 0

-----------------------------------------------------------------------------
Fault == faults < MaxFaults /\ faults' = faults + 1
Busy(w) == job[w].at # "idle"

\* A call whose Rx session the P-CSCF has begun and not ended.
On(c) == call[c] \notin {"new", "over"}
Blame(calls, why) ==
  cause' = [c \in Call |-> IF c \in calls THEN cause[c] \cup {why}
                           ELSE cause[c]]

Request(w, j) ==
  /\ ~Busy(w)
  /\ requests < MaxRequests
  /\ requests' = requests + 1
  /\ job' = [job EXCEPT ![w] = j]

\* A CCR-I: the PGW has a new Gx session for the UE, and no bearers of an old
\* one (module ServingApn has the steps by which the row is stored).
CcrI(w) ==
  /\ Request(w, Idle)
  /\ opened' = opened + 1
  /\ pdn' = opened'
  /\ row' = opened'
  /\ bearers' = {}
  /\ Blame({c \in Call : On(c)}, "gone")
  /\ UNCHANGED <<active, network, refused, call, sent, faults>>

\* A CCR-T: the PGW has ended its session; if it is the stored one, the
\* P-CSCF and the row are cleared.
CcrT(w) ==
  /\ pdn # None
  /\ Request(w, IF row = pdn THEN Handler("drop", "ccr_t", None, None)
                ELSE Idle)
  /\ pdn' = None
  /\ bearers' = {}
  /\ Blame({c \in Call : On(c)}, "gone")
  /\ UNCHANGED <<active, row, network, opened, refused, call, sent, faults>>

\* The UE is gone, and nothing is sent.
Detach ==
  /\ pdn # None
  /\ pdn' = None
  /\ bearers' = {}
  /\ UNCHANGED <<active, row, job, network, opened, refused, call, cause, sent,
                 requests, faults>>

\* An AAR: a call begins, or changes; only one with audio is for a bearer.
Aar(w) ==
  \E c \in Call, kind \in {"audio", "other"} :
    /\ call[c] \in {"new", "up"}
    /\ Request(w, Handler("clear", kind, c, None))
    /\ call' = [call EXCEPT ![c] = "asked"]
    /\ UNCHANGED <<active, row, network, pgw, cause, sent, faults>>

\* An STR: the call is over, or the P-CSCF gives it up.
Str(w) ==
  \E c \in Call :
    /\ call[c] \in {"asked", "up", "refused"}
    /\ Request(w, Handler("find", "str", c, None))
    /\ call' = [call EXCEPT ![c] = "ending"]
    /\ IF call[c] = "asked" THEN Blame({c}, "early") ELSE UNCHANGED cause
    /\ UNCHANGED <<active, row, network, pgw, sent, faults>>

-----------------------------------------------------------------------------
Goes(w, at) == job' = [job EXCEPT ![w].at = at]
Others(c) == {active} \ {None, c}

\* Update_Proxy_CSCF with no session: the AAR has come, whatever it is for.
Clear(w) ==
  /\ job[w].at = "clear"
  /\ active' = None
  /\ IF job[w].kind = "audio"
     THEN Goes(w, "look") /\ Blame(Others(job[w].c), "second")
     ELSE Goes(w, "answer") /\ Blame(Others(None), "second")
  /\ UNCHANGED <<row, network, pgw, call, sent, requests, faults>>

\* Mutant: that there is no row is not noticed.
LookUnchecked(w, next) ==
  job' = [job EXCEPT ![w].at = next, ![w].gx = row]

\* Get_Serving_APN: without a row it raises, and the answer is a success.
LookUp(w, next) ==
  job' = [job EXCEPT ![w].at = IF row = None THEN "answer" ELSE next,
                     ![w].gx = row]

Look(w) ==
  /\ job[w].at = "look"
  /\ LookUp(w, "mark")
  /\ UNCHANGED <<active, row, network, pgw, call, cause, sent, requests,
                 faults>>

\* Update_Proxy_CSCF with the session, before the PGW is asked.
Mark(w) ==
  /\ job[w].at = "mark"
  /\ active' = job[w].c
  /\ Goes(w, "send")
  /\ Blame(Others(job[w].c), "second")
  /\ UNCHANGED <<row, network, pgw, call, sent, requests, faults>>

\* Get_IMS_Subscriber_By_Session_Id: the subscriber is found by the column.
Find(w) ==
  /\ job[w].at = "find"
  /\ IF active = job[w].c THEN LookUp(w, "unmark") ELSE Goes(w, "answer")
  /\ UNCHANGED <<active, row, network, pgw, call, cause, sent, requests,
                 faults>>

Unmark(w) ==
  /\ job[w].at = "unmark"
  /\ active' = None
  /\ Goes(w, "send")
  /\ Blame(Others(job[w].c), "second")
  /\ UNCHANGED <<row, network, pgw, call, sent, requests, faults>>

\* The database fails.  An AAR is answered with a success once the P-CSCF is
\* stored, with an error before; an STR goes on if it has found the row.
AfterFailure == [clear |-> "answer", look |-> "answer", mark |-> "answer",
                 find |-> "answer", unmark |-> "send"]

DbFails(w) ==
  /\ job[w].at \in DOMAIN AfterFailure
  /\ Fault
  /\ job' = [job EXCEPT ![w].at = AfterFailure[@],
                       ![w].ok = job[w].at # "clear"]
  /\ Blame({job[w].c}, "lost")
  /\ UNCHANGED <<active, row, network, pgw, call, sent, requests>>

\* Calls whose handlers wait for an answer on a Gx session.
Waiting(gx) == {job[w].c : w \in {v \in Worker : job[v].at = "wait"
                                              /\ job[v].gx = gx}}
UnderWay(gx) == \E m \in rars \cup raas : m.gx = gx

\* Mutant: the rule of a call that ends is installed.
RarInstall(j, n) == [n |-> n, gx |-> j.gx, c |-> j.c, install |-> TRUE]

\* The rule is named for the call, and is installed or removed.
RarOf(j, n) == [n |-> n, gx |-> j.gx, c |-> j.c, install |-> j.kind # "str"]

Transmit(m, calls) ==
  /\ sent' = sent + 1
  /\ rars' = rars \cup {m}
  /\ Blame(calls, "shared")

\* Answers received before the request was sent are not for it.
Seen == {a.n : a \in inbound}

\* The RAR, to the PGW's peer.
Send(w) ==
  /\ job[w].at = "send"
  /\ LET j == job[w] IN
       Transmit(RarOf(j, sent + 1),
                IF UnderWay(j.gx) \/ Waiting(j.gx) # {}
                THEN Waiting(j.gx) \cup {j.c} ELSE {})
  /\ job' = [job EXCEPT ![w].at = "wait", ![w].n = sent + 1, ![w].old = Seen]
  /\ UNCHANGED <<active, row, inbound, raas, pgw, call, requests, faults>>

\* ... which is not connected: there is no answer.
SendFails(w) ==
  /\ job[w].at = "send"
  /\ Fault
  /\ Goes(w, "answer")
  /\ Blame({job[w].c}, "lost")
  /\ UNCHANGED <<active, row, network, pgw, call, sent, requests>>

\* PUT /pcrf: the operator pushes a rule, and waits for no answer.
Push ==
  /\ row # None
  /\ requests < MaxRequests
  /\ requests' = requests + 1
  /\ Transmit([n |-> sent + 1, gx |-> row, c |-> None, install |-> TRUE],
              Waiting(row))
  /\ UNCHANGED <<active, row, job, inbound, raas, pgw, call, faults>>

\* Mutant: any answer of the PGW will do.
MatchesAny(j, a) == a.n \notin j.old

\* The only thing by which an answer is known is its Gx session.
Matches(j, a) == a.gx = j.gx /\ a.n \notin j.old

\* The wait ends, the request perhaps on its way yet.
Waited(w, ok) ==
  /\ job' = [job EXCEPT ![w].at = "answer", ![w].ok = ok, ![w].old = {}]
  /\ IF \E r \in rars : r.n = job[w].n /\ r.install
     THEN Blame({job[w].c}, "late") ELSE UNCHANGED cause
  /\ UNCHANGED <<active, row, network, pgw, call, sent, requests, faults>>

Match(w) ==
  /\ job[w].at = "wait"
  /\ \E a \in inbound : Matches(job[w], a) /\ Waited(w, a.ok)

\* After 120 ms.
TimeOut(w) == job[w].at = "wait" /\ Waited(w, TRUE)

\* AAA or STA.  An STA is a success whatever the PGW has said.
Answer(w) ==
  /\ job[w].at = "answer"
  /\ LET j == job[w] IN
       call' = [call EXCEPT ![j.c] =
                  IF j.kind = "str" THEN "over"
                  ELSE IF @ # "asked" THEN @
                  ELSE IF j.ok THEN "up" ELSE "refused"]
  /\ job' = [job EXCEPT ![w] = Idle]
  /\ UNCHANGED <<active, row, network, pgw, cause, sent, requests, faults>>

\* The CCR-T: the P-CSCF is cleared, ...
Drop(w) ==
  /\ job[w].at = "drop"
  /\ active' = None
  /\ Goes(w, "delete")
  /\ Blame({c \in Call : On(c)}, "gone")
  /\ UNCHANGED <<row, network, pgw, call, sent, requests, faults>>

\* ... and then the row.
Delete(w) ==
  /\ job[w].at = "delete"
  /\ row' = None
  /\ job' = [job EXCEPT ![w] = Idle]
  /\ Blame({c \in Call : On(c)}, "gone")
  /\ UNCHANGED <<active, network, pgw, call, sent, requests, faults>>

\* Workers take answers from the list as they take requests, and drop them.
Discard(w) ==
  /\ ~Busy(w)
  /\ \E a \in inbound : inbound' = inbound \ {a}
  /\ UNCHANGED <<active, row, job, rars, raas, pgw, call, cause, sent,
                 requests, faults>>

-----------------------------------------------------------------------------
\* The PGW does what it is asked, in any order: it refuses what is for a
\* session it has not, ...
Serve(r) ==
  /\ rars' = rars \ {r}
  /\ raas' = raas \cup {[n |-> r.n, gx |-> r.gx, ok |-> r.gx = pdn]}
  /\ IF r.gx # pdn
     THEN refused' = refused \cup {r.n} /\ UNCHANGED bearers
     ELSE /\ bearers' = IF r.install THEN bearers \cup ({r.c} \ {None})
                        ELSE bearers \ {r.c}
          /\ UNCHANGED refused
  /\ UNCHANGED <<active, row, job, inbound, pdn, opened, call, cause, sent,
                 requests, faults>>

\* ... and perhaps a bearer.
Refuse(r) ==
  /\ r.install
  /\ Fault
  /\ rars' = rars \ {r}
  /\ raas' = raas \cup {[n |-> r.n, gx |-> r.gx, ok |-> FALSE]}
  /\ refused' = refused \cup {r.n}
  /\ UNCHANGED <<active, row, job, inbound, pdn, opened, bearers, call, cause,
                 sent, requests>>

LoseRar(r) ==
  /\ Fault
  /\ rars' = rars \ {r}
  /\ Blame({r.c} \ {None}, "lost")
  /\ UNCHANGED <<active, row, job, inbound, raas, pgw, call, sent, requests>>

Arrive(a) ==
  /\ raas' = raas \ {a}
  /\ inbound' = inbound \cup {a}
  /\ UNCHANGED <<active, row, job, rars, pgw, call, cause, sent, requests,
                 faults>>

Next ==
  \/ \E w \in Worker :
       \/ CcrI(w) \/ CcrT(w) \/ Aar(w) \/ Str(w)
       \/ Clear(w) \/ Look(w) \/ Mark(w) \/ Find(w) \/ Unmark(w)
       \/ DbFails(w) \/ Send(w) \/ SendFails(w) \/ Match(w) \/ TimeOut(w)
       \/ Answer(w) \/ Drop(w) \/ Delete(w) \/ Discard(w)
  \/ Detach \/ Push
  \/ \E r \in rars : Serve(r) \/ Refuse(r) \/ LoseRar(r)
  \/ \E a \in raas : Arrive(a)

Spec == Init /\ [][Next]_vars

-----------------------------------------------------------------------------
(***************************************************************************)
(* Properties                                                              *)
(***************************************************************************)

\* Type invariant.
TypeOK ==
  /\ active \in Call \cup {None}
  /\ row \in Gx \cup {None}
  /\ job \in [Worker -> Job]
  /\ rars \subseteq Rar
  /\ raas \subseteq Raa
  /\ inbound \subseteq Raa
  /\ pdn \in Gx \cup {None}
  /\ opened \in Nat
  /\ bearers \subseteq Call
  /\ call \in [Call -> {"new", "asked", "up", "refused", "ending", "over"}]
  /\ refused \subseteq Nat
  /\ cause \in [Call -> SUBSET Cause]
  /\ sent \in Nat
  /\ requests \in Nat
  /\ faults \in Nat

\* Answer_16777236_275 (its docstring): the STR has the PGW told, so that a
\* call that is over, with no RAR of it under way, has no bearer, and is not
\* the active session, but for the named causes.
Ended ==
  \A c \in Call :
    call[c] = "over" /\ cause[c] = {} /\ (\A r \in rars : r.c # c)
    => c \notin bearers /\ active # c

\* awaitDiameterRequestAndResponse: a call is refused only if the PGW has
\* refused the RAR of that call, unless RARs of one Gx session overlapped.
RefusedOwn ==
  [][\A w \in Worker :
       /\ job[w].at = "wait" /\ job'[w].at = "answer" /\ ~job'[w].ok
       /\ "shared" \notin cause[job[w].c]
       => job[w].n \in refused]_vars

=============================================================================
