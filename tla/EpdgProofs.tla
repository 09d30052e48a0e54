----------------------------- MODULE EpdgProofs -----------------------------
(***************************************************************************)
(* Theorems about the two sides of the ePDG: the session API of pyepdg     *)
(* (EpdgSession), for any number of UEs, IMSIs and threads, and the bridge *)
(* that authenticates its UEs (RadiusBridge), for any number of            *)
(* authentications, UEs and retransmissions.                               *)
(***************************************************************************)
EXTENDS EpdgSession, RadiusBridge, SequenceTheorems, TLAPS

-----------------------------------------------------------------------------
(***************************************************************************)
(* The session API.                                                        *)
(***************************************************************************)


\* A thread that is not idle serves a request; this makes TypeOK inductive.
Serving == \A t \in Thread : at[t] # "idle" => arg[t] \in Arg

TypeInv == TypeOK /\ Serving

LEMMA InitTypeInv == Init => TypeInv
  BY ConfigAssumption DEF Init, TypeInv, TypeOK, Serving, Place, Time, Cause

\* What a step of a handler does to the locals of its thread.
LEMMA RequestIsArg ==
  ASSUME NEW ue \in UE, NEW imsi \in IMSI
  PROVE  Request(ue, imsi) \in Arg
  BY ConfigAssumption DEF Request, Arg, Status, Time

LEMMA NowKeepsArg ==
  ASSUME NEW a \in Arg, NEW time \in Time
  PROVE  [a EXCEPT !.now = time] \in Arg
  BY DEF Arg

LEMMA StatusKeepsArg ==
  ASSUME NEW a \in Arg, NEW status \in Status
  PROVE  [a EXCEPT !.status = status] \in Arg
  BY DEF Arg

LEMMA VectorsKeepArg ==
  ASSUME NEW a \in Arg
  PROVE  [a EXCEPT !.vectors = {a.imsi}] \in Arg
  BY DEF Arg

LEMMA StoredIsSession ==
  ASSUME TypeInv, NEW t \in Thread, at[t] = "upsert"
  PROVE  Stored(t) \in Session
<1>1. arg[t] \in Arg
  BY DEF TypeInv, Serving
<1>2. sessions[arg[t].ue] \in Session \cup {NoSession}
  BY <1>1 DEF TypeInv, TypeOK, Arg
<1>3. QED
  BY <1>1, <1>2 DEF Stored, Session, Arg

LEMMA FirstImsi == (CHOOSE imsi \in IMSI : TRUE) \in IMSI
  BY ConfigAssumption

\* A thread's request.
LEMMA ClientTypeInv ==
  ASSUME TypeInv, UNCHANGED config, NEW t \in Thread, Client(t)
  PROVE  TypeInv'
<1> USE DEF TypeInv, TypeOK, Serving, Place, config
<1>1. PICK ue \in UE : (\E imsi \in IMSI : StartCreate(t, ue, imsi))
                       \/ StartDelete(t, ue)
  BY DEF Client
<1>2. ASSUME NEW imsi \in IMSI, StartCreate(t, ue, imsi)
      PROVE  TypeInv'
  BY <1>2, RequestIsArg DEF StartCreate, Goto
<1>3. CASE StartDelete(t, ue)
  BY <1>3, RequestIsArg, FirstImsi DEF StartDelete, Goto
<1>4. QED
  BY <1>1, <1>2, <1>3

LEMMA ServeTypeInv ==
  ASSUME TypeInv, UNCHANGED config, NEW t \in Thread, Serve(t)
  PROVE  TypeInv'
<1>1. at[t] # "idle" => arg[t] \in Arg /\ arg[t].ue \in UE /\ arg[t].imsi \in IMSI
  BY DEF TypeInv, Serving, Arg
<1> USE DEF TypeInv, TypeOK, Serving, Place, Goto, Reply, config
<1>2. CASE AuthorizeOk(t)
  BY <1>1, <1>2, VectorsKeepArg DEF AuthorizeOk
<1>3. CASE AuthorizeFail(t)
  BY <1>3 DEF AuthorizeFail
<1>4. CASE InitiateOk(t)
  BY <1>1, <1>4 DEF InitiateOk, Because, Cause
<1>5. CASE InitiateFail(t)
  BY <1>1, <1>5 DEF InitiateFail, Abandon, Initiate, Command
<1>6. CASE LoadAllOk(t)
  BY <1>1, <1>6, StatusKeepsArg DEF LoadAllOk, Status
<1>7. CASE LoadAllFail(t)
  BY <1>7 DEF LoadAllFail
<1>8. CASE CreateSessionOk(t)
  BY <1>1, <1>8, StatusKeepsArg DEF CreateSessionOk, Status
<1>9. CASE CreateSessionFail(t)
  BY <1>1, <1>9 DEF CreateSessionFail
<1>10. CASE Compensate(t)
  <2>1. arg[t].ue \in UE /\ Terminate(arg[t].ue) \in Command
    BY <1>1, <1>10 DEF Compensate, Terminate, Command
  <2>2. CASE TerminateOk(arg[t].ue, "s2b")
    BY <1>10, <2>1, <2>2 DEF Compensate, TerminateOk, Cause
  <2>3. CASE TerminateFail(arg[t].ue) /\ Because("swanctl", {arg[t].ue} \cap sa)
    BY <1>10, <2>1, <2>3 DEF Compensate, TerminateFail, Abandon, Because, Cause
  <2>4. QED
    BY <1>10, <2>2, <2>3 DEF Compensate
<1>11. CASE UpsertNow(t)
  BY <1>1, <1>11, NowKeepsArg DEF UpsertNow
<1>12. CASE Upsert(t)
  BY <1>1, <1>12, StoredIsSession DEF Upsert
<1>13. CASE DeleteChildSaOk(t)
  BY <1>1, <1>13 DEF DeleteChildSaOk, TerminateOk, Cause
<1>14. CASE DeleteChildSaFail(t)
  BY <1>1, <1>14 DEF DeleteChildSaFail, TerminateFail, Abandon, Terminate, Command
<1>15. CASE Delete(t)
  BY <1>1, <1>15 DEF Delete
<1>16. QED
  BY <1>2, <1>3, <1>4, <1>5, <1>6, <1>7, <1>8, <1>9, <1>10, <1>11, <1>12,
     <1>13, <1>14, <1>15 DEF Serve

LEMMA EnvironmentTypeInv ==
  ASSUME TypeInv, UNCHANGED config, Environment
  PROVE  TypeInv'
<1> USE DEF TypeInv, TypeOK, Serving, Place, config
<1>1. ASSUME NEW ue \in UE, Lose(ue)
      PROVE  TypeInv'
  BY <1>1 DEF Lose, Because, Cause
<1>2. ASSUME NEW ue \in UE, Attach(ue)
      PROVE  TypeInv'
  BY <1>2 DEF Attach, Because, Cause
<1>3. CASE Restart
  <2>1. \A places \in SUBSET (Place \ {"idle"}) : UEsAt(places) \subseteq UE
    BY DEF UEsAt, Arg
  <2>2. /\ UEsAt({"compensate", "delete_child_sa"}) \subseteq UE
        /\ UEsAt({"create_child_sa"}) \subseteq UE
    BY <2>1
  <2>3. unfinished' \subseteq Command
    BY <1>3, <2>2 DEF Restart, Abandon, Initiate, Terminate, Command
  <2>4. QED
    BY <1>3, <2>3 DEF Restart, Because, Cause
<1>4. CASE Tick
  BY <1>4, ConfigAssumption DEF Tick, Time
<1>6. ASSUME NEW ue \in UE, InitiateLate(ue) \/ TerminateLate(ue)
      PROVE  TypeInv'
  BY <1>6 DEF InitiateLate, TerminateLate, Because, Cause
<1>5. QED
  BY <1>1, <1>2, <1>3, <1>4, <1>6 DEF Environment

LEMMA NextTypeInv == TypeInv /\ [Next]_vars => TypeInv'
<1> SUFFICES ASSUME TypeInv, [Next]_vars
             PROVE  TypeInv'
  OBVIOUS
<1>1. CASE Next
  BY <1>1, ClientTypeInv, ServeTypeInv, EnvironmentTypeInv DEF Next
<1>2. CASE UNCHANGED vars
  BY <1>2 DEF vars, config, TypeInv, TypeOK, Serving
<1>3. QED
  BY <1>1, <1>2

LEMMA TypeInvariant == Spec => []TypeInv
  BY InitTypeInv, NextTypeInv, PTL DEF Spec

\* The variables keep their types; in particular handle_create never stores a
\* session without a status.
THEOREM TypeCorrect == Spec => []TypeOK
<1>1. TypeInv => TypeOK
  BY DEF TypeInv
<1>2. QED
  BY <1>1, TypeInvariant, PTL

-----------------------------------------------------------------------------
\* The places of a create that the AAA has let pass.
Passed == {"create_child_sa", "create_session", "compensate", "now", "upsert"}

\* Between the AAA's answer and the upsert the thread works for the IMSI that
\* the answer was for.
AuthInv == \A t \in Thread : at[t] \in Passed => arg[t].imsi \in arg[t].vectors

LEMMA NextAuthInv ==
  ASSUME TypeInv, AuthInv, [Next]_vars
  PROVE  AuthInv'
<1> USE DEF TypeInv, TypeOK, AuthInv, Passed, Goto, Reply
<1>1. \A a \in Arg, time \in Time, status \in Status :
        /\ [a EXCEPT !.now = time].imsi = a.imsi
        /\ [a EXCEPT !.status = status].imsi = a.imsi
        /\ [a EXCEPT !.now = time].vectors = a.vectors
        /\ [a EXCEPT !.status = status].vectors = a.vectors
        /\ [a EXCEPT !.vectors = {a.imsi}].imsi = a.imsi
        /\ [a EXCEPT !.vectors = {a.imsi}].vectors = {a.imsi}
  BY DEF Arg
<1>2. ASSUME NEW t \in Thread, Serve(t)
      PROVE  AuthInv'
  <2>1. at[t] # "idle" => arg[t] \in Arg
    BY DEF Serving
  <2>2. CASE AuthorizeOk(t)
    BY <1>1, <2>1, <2>2 DEF AuthorizeOk
  <2>3. CASE LoadAllOk(t)
    BY <1>1, <2>1, <2>3 DEF LoadAllOk, Status
  <2>4. CASE CreateSessionOk(t)
    BY <1>1, <2>1, <2>4 DEF CreateSessionOk, Status
  <2>5. CASE UpsertNow(t)
    BY <1>1, <2>1, <2>5 DEF UpsertNow
  <2>6. CASE InitiateOk(t) \/ CreateSessionFail(t) \/ DeleteChildSaOk(t)
    BY <2>6 DEF InitiateOk, CreateSessionFail, DeleteChildSaOk
  <2>7. CASE Reply(t)
    BY <2>7
  <2>8. QED
    BY <1>2, <2>2, <2>3, <2>4, <2>5, <2>6, <2>7 DEF Serve, AuthorizeFail,
       InitiateFail, LoadAllFail, Compensate, Upsert, DeleteChildSaFail, Delete
<1>3. ASSUME NEW t \in Thread, Client(t)
      PROVE  AuthInv'
  BY <1>3 DEF Client, StartCreate, StartDelete
<1>4. CASE Environment
  BY <1>4 DEF Environment, Lose, Attach, InitiateLate, TerminateLate, Restart,
              Tick
<1>5. CASE UNCHANGED vars
  BY <1>5 DEF vars
<1>6. QED
  BY <1>2, <1>3, <1>4, <1>5 DEF Next

\* Which steps write the table.
LEMMA TableSteps ==
  ASSUME [Next]_vars
  PROVE  \/ sessions' = sessions
         \/ Restart
         \/ \E t \in Thread : Upsert(t) \/ Delete(t)
  BY DEF Next, vars, Environment, Lose, Attach, InitiateLate,
         TerminateLate, Tick, Client, StartCreate,
         StartDelete, Serve, AuthorizeOk, AuthorizeFail, InitiateOk,
         InitiateFail, LoadAllOk, LoadAllFail, CreateSessionOk,
         CreateSessionFail, Compensate, UpsertNow, DeleteChildSaOk,
         DeleteChildSaFail

\* handle_create: no interleaving of the handlers, be it of creates for other
\* IMSIs on the same ue_id, writes an entry under an IMSI that the AAA has not
\* returned vectors for to the request that writes it.
THEOREM OnlyAuthorised == Spec => AuthorisedOnly
<1> DEFINE Kept == \A ue \in UE :
                     InTable(ue)' /\ sessions'[ue] # sessions[ue]
                       => \E t \in Thread :
                            /\ at[t] = "upsert"
                            /\ arg[t].ue = ue
                            /\ sessions'[ue].imsi \in arg[t].vectors
<1>1. ASSUME TypeInv, AuthInv, [Next]_vars
      PROVE  Kept
  <2>1. CASE sessions' = sessions
    BY <2>1
  <2>2. CASE Restart
    BY <2>2 DEF Restart, InTable
  <2>3. ASSUME NEW t \in Thread, Upsert(t)
        PROVE  Kept
    <3>1. at[t] = "upsert" /\ arg[t].ue \in UE
      BY <2>3, <1>1 DEF Upsert, TypeInv, Serving, Arg
    <3>2. Stored(t).imsi = arg[t].imsi /\ arg[t].imsi \in arg[t].vectors
      BY <1>1, <3>1 DEF Stored, AuthInv, Passed
    <3>3. QED
      BY <1>1, <2>3, <3>1, <3>2 DEF Upsert, TypeInv, TypeOK
  <2>4. ASSUME NEW t \in Thread, Delete(t)
        PROVE  Kept
    BY <1>1, <2>4 DEF Delete, InTable, TypeInv, TypeOK
  <2>5. QED
    BY <1>1, <2>1, <2>2, <2>3, <2>4, TableSteps
<1>2. Init => AuthInv
  BY DEF Init, AuthInv, Passed
<1>3. TypeInv /\ AuthInv /\ [Next]_vars => AuthInv' /\ [Kept]_vars
  BY <1>1, NextAuthInv
<1>4. QED
  BY <1>2, <1>3, TypeInvariant, PTL DEF Spec, AuthorisedOnly

\* Store.upsert: whatever the interleaving, an entry that stays in the table
\* keeps its created_at.
THEOREM CreatedAtKept == Spec => CreatedAtStable
<1> DEFINE Kept == \A ue \in UE :
                     InTable(ue) /\ InTable(ue)'
                       => sessions'[ue].created_at = sessions[ue].created_at
<1>1. ASSUME TypeInv, [Next]_vars
      PROVE  Kept
  <2>1. CASE sessions' = sessions
    BY <2>1
  <2>2. CASE Restart
    BY <2>2 DEF Restart, InTable
  <2>3. ASSUME NEW t \in Thread, Upsert(t)
        PROVE  Kept
    <3>1. arg[t].ue \in UE
      BY <2>3, <1>1 DEF Upsert, TypeInv, Serving, Arg
    <3>2. sessions[arg[t].ue] # NoSession
            => Stored(t).created_at = sessions[arg[t].ue].created_at
      BY DEF Stored
    <3>3. QED
      BY <1>1, <2>3, <3>1, <3>2 DEF Upsert, InTable, TypeInv, TypeOK
  <2>4. ASSUME NEW t \in Thread, Delete(t)
        PROVE  Kept
    BY <1>1, <2>4 DEF Delete, InTable, TypeInv, TypeOK
  <2>5. QED
    BY <1>1, <2>1, <2>2, <2>3, <2>4, TableSteps
<1>2. TypeInv /\ [Next]_vars => [Kept]_vars
  BY <1>1
<1>3. QED
  BY <1>2, TypeInvariant, PTL DEF Spec, CreatedAtStable

-----------------------------------------------------------------------------
\* UpdatedAfterCreated needs the clients' discipline: no two handlers work for
\* the same UE, so none stores an entry between another's reading of the clock
\* and its upsert.
Alone ==
  \A t, u \in Thread :
    t # u /\ at[t] # "idle" /\ at[u] # "idle" /\ arg[t].ue = arg[u].ue
      => arg[t].ue \notin Careful

TimesOrdered ==
  \A ue \in Careful :
    InTable(ue) => /\ sessions[ue].created_at <= sessions[ue].updated_at
                   /\ sessions[ue].updated_at <= clock

NowOrdered ==
  \A t \in Thread :
    at[t] = "upsert" /\ arg[t].ue \in Careful =>
      /\ arg[t].now <= clock
      /\ InTable(arg[t].ue) => sessions[arg[t].ue].created_at <= arg[t].now

LEMMA NextAlone ==
  ASSUME TypeInv, Alone, [Next]_vars
  PROVE  Alone'
<1> USE DEF Alone, TypeInv, TypeOK, Goto, Reply
<1>1. ASSUME NEW t \in Thread, Client(t)
      PROVE  Alone'
  <2>1. PICK ue \in UE : /\ at[t] = "idle"
                         /\ ue \in Careful => ~Busy(ue)
                         /\ \A u \in Thread \ {t} : at'[u] = at[u] /\ arg'[u] = arg[u]
                         /\ arg'[t].ue = ue
    BY <1>1 DEF Client, StartCreate, StartDelete, Admitted, Request
  <2>2. QED
    BY <2>1 DEF Busy
<1>2. ASSUME NEW t \in Thread, Serve(t)
      PROVE  Alone'
  <2>1. /\ at[t] # "idle"
        /\ \A u \in Thread \ {t} : at'[u] = at[u] /\ arg'[u] = arg[u]
    BY <1>2 DEF Serve, AuthorizeOk, AuthorizeFail, InitiateOk, InitiateFail,
         LoadAllOk, LoadAllFail, CreateSessionOk, CreateSessionFail,
         Compensate, UpsertNow, Upsert, DeleteChildSaOk, DeleteChildSaFail,
         Delete
  <2>2. at'[t] = "idle" \/ arg'[t].ue = arg[t].ue
    <3>1. \A a \in Arg, time \in Time, status \in Status :
            /\ [a EXCEPT !.now = time].ue = a.ue
            /\ [a EXCEPT !.status = status].ue = a.ue
            /\ [a EXCEPT !.vectors = {a.imsi}].ue = a.ue
      BY DEF Arg
    <3>2. arg[t] \in Arg
      BY <2>1 DEF Serving
    <3>3. CASE LoadAllOk(t)
      BY <3>1, <3>2, <3>3 DEF LoadAllOk, Status
    <3>4. CASE CreateSessionOk(t)
      BY <3>1, <3>2, <3>4 DEF CreateSessionOk, Status
    <3>5. CASE UpsertNow(t)
      BY <3>1, <3>2, <3>5 DEF UpsertNow
    <3>7. CASE AuthorizeOk(t)
      BY <3>1, <3>2, <3>7 DEF AuthorizeOk
    <3>6. QED
      BY <1>2, <3>3, <3>4, <3>5, <3>7 DEF Serve, AuthorizeFail,
         InitiateOk, InitiateFail, LoadAllFail, CreateSessionFail, Compensate,
         Upsert, DeleteChildSaOk, DeleteChildSaFail, Delete
  <2>3. QED
    BY <2>1, <2>2
<1>3. CASE Environment
  BY <1>3 DEF Environment, Lose, Attach, InitiateLate, TerminateLate, Restart,
              Tick
<1>4. CASE UNCHANGED vars
  BY <1>4 DEF vars
<1>5. QED
  BY <1>1, <1>2, <1>3, <1>4 DEF Next

TimeInv == Alone /\ TimesOrdered /\ NowOrdered

\* A step that leaves the table and the clock alone disturbs nothing unless it
\* brings a thread to the upsert.
LEMMA NextTimes ==
  ASSUME TypeInv, TimeInv, [Next]_vars
  PROVE  TimesOrdered' /\ NowOrdered'
<1> USE DEF TypeInv, TypeOK, TimeInv, TimesOrdered, NowOrdered, InTable, Goto, Reply
<1>1. /\ clock \in Nat
      /\ \A ue \in UE : InTable(ue) => /\ sessions[ue].created_at \in Nat
                                        /\ sessions[ue].updated_at \in Nat
      /\ \A t \in Thread : at[t] # "idle" => /\ arg[t] \in Arg
                                              /\ arg[t].ue \in UE
                                              /\ arg[t].now \in Nat
      /\ Careful \subseteq UE
  BY ConfigAssumption DEF Session, Arg, Time, Serving
<1>2. ASSUME NEW t \in Thread, Upsert(t)
      PROVE  TimesOrdered' /\ NowOrdered'
  <2>1. /\ at[t] = "upsert"
        /\ Stored(t).updated_at = arg[t].now
        /\ Stored(t).created_at = IF InTable(arg[t].ue)
             THEN sessions[arg[t].ue].created_at ELSE arg[t].now
        /\ clock' = clock
    BY <1>2 DEF Upsert, Stored
  <2>2. TimesOrdered'
    BY <1>1, <1>2, <2>1 DEF Upsert
  <2>3. \A u \in Thread \ {t} : at[u] = "upsert" /\ arg[u].ue \in Careful
                             => arg[u].ue # arg[t].ue
    BY <2>1 DEF Alone
  <2>4. NowOrdered'
    BY <1>1, <1>2, <2>1, <2>3 DEF Upsert
  <2>5. QED
    BY <2>2, <2>4
<1>3. ASSUME NEW t \in Thread, Delete(t)
      PROVE  TimesOrdered' /\ NowOrdered'
  BY <1>1, <1>3 DEF Delete
<1>4. CASE Restart
  BY <1>1, <1>4 DEF Restart
<1>5. ASSUME NEW t \in Thread, UpsertNow(t)
      PROVE  TimesOrdered' /\ NowOrdered'
  <2>1. /\ arg'[t].now = clock
        /\ arg'[t].ue = arg[t].ue
        /\ \A u \in Thread \ {t} : at'[u] = at[u] /\ arg'[u] = arg[u]
        /\ UNCHANGED <<sessions, clock>>
        /\ at[t] # "idle"
    BY <1>1, <1>5 DEF UpsertNow, Arg
  <2>2. QED
    BY <1>1, <2>1
<1>6. CASE Tick
  BY <1>1, <1>6 DEF Tick
<1>7. ASSUME UNCHANGED <<sessions, clock>>,
             \A t \in Thread : at'[t] = "upsert" => at[t] = "upsert" /\ arg'[t] = arg[t]
      PROVE  TimesOrdered' /\ NowOrdered'
  BY <1>7
<1>8. ASSUME NEW t \in Thread, Client(t)
      PROVE  TimesOrdered' /\ NowOrdered'
  BY <1>7, <1>8 DEF Client, StartCreate, StartDelete
<1>9. ASSUME NEW t \in Thread, Serve(t), ~Upsert(t), ~Delete(t), ~UpsertNow(t)
      PROVE  TimesOrdered' /\ NowOrdered'
  BY <1>7, <1>9 DEF Serve, AuthorizeOk, AuthorizeFail, InitiateOk,
     InitiateFail, LoadAllOk, LoadAllFail, CreateSessionOk, CreateSessionFail,
     Compensate, DeleteChildSaOk, DeleteChildSaFail
<1>10. ASSUME NEW ue \in UE,
              Lose(ue) \/ Attach(ue) \/ InitiateLate(ue) \/ TerminateLate(ue)
       PROVE  TimesOrdered' /\ NowOrdered'
  BY <1>7, <1>10 DEF Lose, Attach, InitiateLate, TerminateLate
<1>11. CASE UNCHANGED vars
  BY <1>7, <1>11 DEF vars
<1>12. QED
  BY <1>2, <1>3, <1>4, <1>5, <1>6, <1>8, <1>9, <1>10, <1>11
     DEF Next, Environment

\* Store.upsert, when the clients keep one request per UE in flight: an entry
\* was never updated before it was created.
THEOREM UpdatedLater ==
  Spec => []UpdatedAfterCreated
<1>1. Init => TimeInv
  BY ConfigAssumption
     DEF Init, TimeInv, Alone, TimesOrdered, NowOrdered, InTable
<1>2. TypeInv /\ TimeInv /\ [Next]_vars => TimeInv'
  BY NextAlone, NextTimes DEF TimeInv
<1>3. TimeInv => UpdatedAfterCreated
  BY DEF TimeInv, TimesOrdered, UpdatedAfterCreated
<1>4. QED
  BY <1>1, <1>2, <1>3, TypeInvariant, PTL DEF Spec

-----------------------------------------------------------------------------
\* What a step may do to the SAs.
LEMMA SaSteps ==
  ASSUME [Next]_vars
  PROVE  \/ UNCHANGED <<sa, cause>>
         \/ Restart
         \/ \E ue \in UE : \/ Lose(ue) \/ Attach(ue)
                           \/ InitiateLate(ue) \/ TerminateLate(ue)
         \/ \E t \in Thread : InitiateOk(t) \/ Compensate(t) \/ DeleteChildSaOk(t)
  BY DEF Next, vars, Environment, Tick, Client, StartCreate, StartDelete,
         Serve, AuthorizeOk, AuthorizeFail, InitiateFail, LoadAllOk,
         LoadAllFail, CreateSessionOk, CreateSessionFail, UpsertNow, Upsert,
         DeleteChildSaFail, TerminateFail, Delete

\* SwanctlBackend, for every child_name: a handler takes down the SA of its
\* own UE, or of one whose child has the same name, and no other.
THEOREM BystandersKept == Spec => BystanderKept
<1> DEFINE Ended(ue) ==
             \/ Lose(ue)
             \/ \E u \in UE :
                  /\ child_name # NoChild \/ CleanName[u] = CleanName[ue]
                  /\ \/ u \in UEsAt({"compensate", "delete_child_sa"})
                     \/ TerminateLate(u)
           Kept == \A ue \in sa \ sa' : Ended(ue)
<1>1. ASSUME TypeInv, [Next]_vars
      PROVE  Kept
  <2>1. sa \subseteq UE
    BY <1>1 DEF TypeInv, TypeOK
  <2>2. ASSUME NEW u \in UE, NEW ue \in SameChild(u)
        PROVE  child_name # NoChild \/ CleanName[u] = CleanName[ue]
    BY <2>2 DEF SameChild, ChildNameOf
  <2>3. ASSUME NEW ue \in UE, Lose(ue)
        PROVE  Kept
    BY <2>3 DEF Lose
  <2>4. ASSUME NEW u \in UE, TerminateLate(u)
        PROVE  Kept
    <3>1. sa \ sa' \subseteq SameChild(u)
      BY <2>4 DEF TerminateLate
    <3>2. QED
      BY <2>2, <2>4, <3>1
  <2>5. ASSUME NEW t \in Thread, Compensate(t) \/ DeleteChildSaOk(t)
        PROVE  Kept
    <3>1. at[t] \in {"compensate", "delete_child_sa"}
      BY <2>5 DEF Compensate, DeleteChildSaOk
    <3>2. arg[t].ue \in UE /\ arg[t].ue \in UEsAt({"compensate", "delete_child_sa"})
      BY <1>1, <3>1 DEF TypeInv, Serving, Arg, UEsAt
    <3>3. sa \ sa' \subseteq SameChild(arg[t].ue)
      BY <2>5 DEF Compensate, DeleteChildSaOk, TerminateOk, TerminateFail
    <3>4. QED
      BY <2>2, <3>2, <3>3
  <2>6. CASE sa \subseteq sa'
    BY <2>6
  <2>7. CASE Restart \/ \E t \in Thread : InitiateOk(t)
    BY <2>6, <2>7 DEF Restart, InitiateOk
  <2>8. CASE \E ue \in UE : Attach(ue) \/ InitiateLate(ue)
    BY <2>6, <2>8 DEF Attach, InitiateLate
  <2>9. QED
    BY <1>1, <2>3, <2>4, <2>5, <2>6, <2>7, <2>8, SaSteps
<1>2. TypeInv /\ [Next]_vars => [Kept]_vars
  BY <1>1
<1>3. QED
  BY <1>2, TypeInvariant, PTL DEF Spec, BystanderKept

-----------------------------------------------------------------------------
\* What the steps of a handler leave of the other threads and UEs: those other
\* UEs whose SAs it takes down had a child of the same name.
OwnStep(t, ue) ==
  /\ arg[t].ue = ue
  /\ \A u \in Thread \ {t} : at'[u] = at[u] /\ arg'[u] = arg[u]

\* What others do to the SA of a UE and to its cause.
SaKept(ue) == (ue \in sa' <=> ue \in sa) /\ cause'[ue] = cause[ue]
SaEnded(ue) == ue \notin sa' /\ cause'[ue] \in {"late", "lost", "shared"}
SaLate(ue) == ue \in sa' /\ cause'[ue] = "late"
SaOfUE(ue) == ue \in sa' /\ mode = "passive"

LEMMA TerminateElsewhere ==
  ASSUME TypeInv, NEW v \in UE, NEW why, TerminateOk(v, why),
         NEW ue \in Careful, ue # v
  PROVE  /\ SaKept(ue) \/ SaEnded(ue)
         /\ cause'[ue] = cause[ue] \/ ue \in SameChild(v)
<1>1. ue \in UE
  BY ConfigAssumption
<1>2. CASE ue \in sa \ sa'
  <2>1. cause'[ue] = "shared" /\ ue \in SameChild(v)
    BY <1>1, <1>2 DEF TerminateOk
  <2>2. QED
    BY <1>2, <2>1 DEF SaEnded
<1>3. CASE ue \notin sa \ sa'
  BY <1>1, <1>3 DEF TerminateOk, SaKept
<1>4. QED
  BY <1>2, <1>3

LEMMA ServeElsewhere ==
  ASSUME TypeInv, NEW t \in Thread, Serve(t)
  PROVE  /\ at[t] # "idle" /\ arg[t] \in Arg /\ arg[t].ue \in UE
         /\ OwnStep(t, arg[t].ue)
         /\ at'[t] = "idle" \/ arg'[t].ue = arg[t].ue
         /\ \A ue \in Careful \ {arg[t].ue} :
              /\ sessions'[ue] = sessions[ue]
              /\ SaKept(ue) \/ SaEnded(ue)
<1> USE DEF TypeInv, TypeOK, Goto, Reply
<1>1. /\ at[t] # "idle"
      /\ \A u \in Thread \ {t} : at'[u] = at[u] /\ arg'[u] = arg[u]
  BY DEF Serve, AuthorizeOk, AuthorizeFail, InitiateOk, InitiateFail,
     LoadAllOk, LoadAllFail, CreateSessionOk, CreateSessionFail, Compensate,
     UpsertNow, Upsert, DeleteChildSaOk, DeleteChildSaFail, Delete
<1>2. arg[t] \in Arg /\ arg[t].ue \in UE
  BY <1>1 DEF Serving, Arg
<1>3. at'[t] = "idle" \/ arg'[t].ue = arg[t].ue
  <2>1. \A a \in Arg, time \in Time, status \in Status :
          /\ [a EXCEPT !.now = time].ue = a.ue
          /\ [a EXCEPT !.status = status].ue = a.ue
          /\ [a EXCEPT !.vectors = {a.imsi}].ue = a.ue
    BY DEF Arg
  <2>2. CASE LoadAllOk(t)
    BY <1>2, <2>1, <2>2 DEF LoadAllOk, Status
  <2>3. CASE CreateSessionOk(t)
    BY <1>2, <2>1, <2>3 DEF CreateSessionOk, Status
  <2>4. CASE UpsertNow(t)
    BY <1>2, <2>1, <2>4 DEF UpsertNow
  <2>5. CASE AuthorizeOk(t)
    BY <1>2, <2>1, <2>5 DEF AuthorizeOk
  <2>6. QED
    BY <2>2, <2>3, <2>4, <2>5 DEF Serve, AuthorizeFail,
       InitiateOk, InitiateFail, LoadAllFail, CreateSessionFail, Compensate,
       Upsert, DeleteChildSaOk, DeleteChildSaFail, Delete
<1>4. Careful \subseteq UE
  BY ConfigAssumption
<1>5. ASSUME NEW ue \in Careful \ {arg[t].ue}
      PROVE  SaKept(ue) \/ SaEnded(ue)
  <2>1. CASE \E why : TerminateOk(arg[t].ue, why)
    BY <1>2, <1>5, <2>1, TerminateElsewhere
  <2>2. CASE InitiateOk(t)
    BY <1>4, <1>5, <2>2 DEF InitiateOk, Because, SaKept
  <2>3. CASE TerminateFail(arg[t].ue) /\ Because("swanctl", {arg[t].ue} \cap sa)
    BY <1>4, <1>5, <2>3 DEF TerminateFail, Because, SaKept
  <2>4. CASE UNCHANGED <<sa, cause>>
    BY <2>4 DEF SaKept
  <2>5. QED
    BY <2>1, <2>2, <2>3, <2>4 DEF Serve, AuthorizeOk, AuthorizeFail,
       InitiateFail, LoadAllOk, LoadAllFail, CreateSessionOk,
       CreateSessionFail, Compensate, UpsertNow, Upsert, DeleteChildSaOk,
       DeleteChildSaFail, TerminateFail, Delete
<1>6. ASSUME NEW ue \in Careful \ {arg[t].ue}
      PROVE  sessions'[ue] = sessions[ue]
  BY <1>2, <1>4, <1>6 DEF Serve, AuthorizeOk, AuthorizeFail, InitiateOk,
     InitiateFail, LoadAllOk, LoadAllFail, CreateSessionOk, CreateSessionFail,
     Compensate, UpsertNow, Upsert, DeleteChildSaOk, DeleteChildSaFail, Delete
<1>7. QED
  BY <1>1, <1>2, <1>3, <1>5, <1>6 DEF OwnStep

\* What the environment does to a UE, but for a restart.
LEMMA EnvironmentElsewhere ==
  ASSUME TypeInv, Environment, ~Restart, NEW ue \in Careful
  PROVE  /\ UNCHANGED <<sessions, at, arg>>
         /\ SaKept(ue) \/ SaEnded(ue) \/ SaLate(ue) \/ SaOfUE(ue)
<1>1. ue \in UE /\ cause \in [UE -> Cause]
  BY ConfigAssumption DEF TypeInv, TypeOK
<1>2. CASE Tick
  BY <1>2 DEF Tick, SaKept
<1>3. ASSUME NEW u \in UE, Lose(u)
      PROVE  SaKept(ue) \/ SaEnded(ue)
  BY <1>1, <1>3 DEF Lose, Because, SaKept, SaEnded
<1>4. ASSUME NEW u \in UE, Attach(u)
      PROVE  SaKept(ue) \/ SaOfUE(ue)
  BY <1>1, <1>4 DEF Attach, Because, SaKept, SaOfUE
<1>5. ASSUME NEW u \in UE, InitiateLate(u)
      PROVE  SaKept(ue) \/ SaLate(ue)
  BY <1>1, <1>5 DEF InitiateLate, Because, SaKept, SaLate
<1>6. ASSUME NEW u \in UE, TerminateLate(u)
      PROVE  SaKept(ue) \/ SaEnded(ue)
  BY <1>1, <1>6 DEF TerminateLate, Because, SaKept, SaEnded
<1>7. UNCHANGED <<sessions, at, arg>>
  BY DEF Environment, Lose, Attach, InitiateLate, TerminateLate, Tick
<1>8. QED
  BY <1>2, <1>3, <1>4, <1>5, <1>6, <1>7 DEF Environment

-----------------------------------------------------------------------------
\* handle_delete reaches the table only when the SA is gone, and while it is
\* on its way there only an initiate that had timed out makes one for its UE.
GoneAt(ue) == ue \notin sa \/ cause[ue] = "late"

GoneInv ==
  mode = "active" =>
    \A t \in Thread : at[t] = "delete" /\ arg[t].ue \in Careful
                       => GoneAt(arg[t].ue)

LEMMA NextGone ==
  ASSUME TypeInv, Alone, GoneInv, [Next]_vars
  PROVE  GoneInv'
<1> SUFFICES ASSUME mode = "active", NEW t \in Thread, at'[t] = "delete",
                    arg'[t].ue \in Careful
             PROVE  (arg'[t].ue \notin sa') \/ cause'[arg'[t].ue] = "late"
  BY DEF GoneInv, GoneAt, Next, vars, config
<1> USE DEF TypeInv, TypeOK
<1>1. ASSUME at[t] = "delete", arg'[t] = arg[t],
             \/ SaKept(arg[t].ue) \/ SaEnded(arg[t].ue)
             \/ SaLate(arg[t].ue) \/ SaOfUE(arg[t].ue)
      PROVE  (arg'[t].ue \notin sa') \/ cause'[arg'[t].ue] = "late"
  BY <1>1 DEF GoneInv, GoneAt, SaKept, SaEnded, SaLate, SaOfUE
<1>2. ~Restart
  BY DEF Restart
<1>3. CASE Environment
  BY <1>1, <1>2, <1>3, EnvironmentElsewhere
<1>4. ASSUME NEW u \in Thread, Client(u)
      PROVE  at[t] = "delete" /\ arg'[t] = arg[t] /\ SaKept(arg[t].ue)
  BY <1>4 DEF Client, StartCreate, StartDelete, Goto, SaKept
<1>5. ASSUME NEW u \in Thread, Serve(u), u # t
      PROVE  (arg'[t].ue \notin sa') \/ cause'[arg'[t].ue] = "late"
  <2>1. at[t] = "delete" /\ arg'[t] = arg[t] /\ at[u] # "idle"
    BY <1>5, ServeElsewhere DEF OwnStep
  <2>2. arg[u].ue # arg[t].ue
    BY <1>5, <2>1 DEF Alone
  <2>3. QED
    BY <1>1, <1>5, <2>1, <2>2, ServeElsewhere
<1>6. CASE Serve(t)
  <2>1. DeleteChildSaOk(t)
    BY <1>6 DEF Serve, AuthorizeOk, AuthorizeFail, InitiateOk,
       InitiateFail, LoadAllOk, LoadAllFail, CreateSessionOk,
       CreateSessionFail, Compensate, UpsertNow, Upsert, DeleteChildSaFail,
       Delete, Goto, Reply
  <2>2. arg[t].ue \in UE /\ arg' = arg
    BY <2>1 DEF DeleteChildSaOk, Serving, Arg
  <2>3. QED
    BY <2>1, <2>2 DEF DeleteChildSaOk, TerminateOk, SameChild
<1>7. CASE UNCHANGED vars
  BY <1>1, <1>7 DEF vars, SaKept
<1>8. QED
  BY <1>1, <1>3, <1>4, <1>5, <1>6, <1>7 DEF Next

\* handle_delete: in active mode, with one request per UE in flight, a session
\* leaves the table only after its SA has gone, or when an initiate that had
\* timed out has put one back.
THEOREM SessionOutlives ==
  Spec => SessionOutlivesSA
<1> DEFINE Outlives ==
      \A ue \in Careful :
        mode = "active" /\ InTable(ue) /\ ~InTable(ue)'
          => ue \notin sa' \/ Restart \/ cause'[ue] = "late"
<1>1. ASSUME TypeInv, GoneInv, [Next]_vars
      PROVE  Outlives
  <2>1. CASE Restart
    BY <2>1 DEF Restart
  <2>2. ASSUME NEW t \in Thread, Upsert(t)
        PROVE  Outlives
    <3>1. Stored(t) # NoSession
      BY <1>1, <2>2, StoredIsSession, NullAssumption DEF Upsert
    <3>2. QED
      BY <1>1, <2>2, <3>1, ConfigAssumption DEF Upsert, InTable, TypeInv, TypeOK
  <2>3. ASSUME NEW t \in Thread, Delete(t)
        PROVE  Outlives
    BY <1>1, <2>3, ConfigAssumption
    DEF Delete, InTable, TypeInv, TypeOK, GoneInv, GoneAt
  <2>4. CASE sessions' = sessions
    BY <2>4 DEF InTable
  <2>5. QED
    BY <1>1, <2>1, <2>2, <2>3, <2>4, TableSteps
<1>2. Init => Alone /\ GoneInv
  BY DEF Init, Alone, GoneInv
<1>3. TypeInv /\ Alone /\ GoneInv /\ [Next]_vars
        => Alone' /\ GoneInv' /\ [Outlives]_vars
  BY <1>1, NextAlone, NextGone
<1>4. QED
  BY <1>2, <1>3, TypeInvariant, PTL DEF Spec, SessionOutlivesSA

-----------------------------------------------------------------------------
\* What the table, charon and the cause are for a UE whose only request, if
\* it has one, is at that place: a delete has taken down the SA before the
\* entry goes, a create has installed it before the entry comes.
AgreeAt(ue, place, status) ==
  /\ Up(ue) /\ ue \notin sa /\ place # "delete" =>
       cause[ue] \in {"s2b", "late", "lost", "shared"}
  /\ /\ mode = "active" /\ ue \in sa /\ ~InTable(ue)
     /\ place \notin {"create_session", "compensate", "now", "upsert"}
     => cause[ue] \in {"swanctl", "late", "restart"}
  /\ \/ place = "create_session"
     \/ place \in {"now", "upsert"} /\ status = "up"
     => ue \in sa \/ cause[ue] \in {"late", "lost", "shared"}

Agree(ue) ==
  /\ Quiet(ue) => AgreeAt(ue, "idle", "pending")
  /\ \A t \in Thread :
       at[t] # "idle" /\ arg[t].ue = ue => AgreeAt(ue, at[t], arg[t].status)

AgreeInv == \A ue \in Careful : Agree(ue)

\* A step that is not about a UE, though it may end or make its SA.
LEMMA AgreeElsewhere ==
  ASSUME NEW ue, Agree(ue),
         sessions'[ue] = sessions[ue], mode' = mode,
         SaKept(ue) \/ SaEnded(ue) \/ SaLate(ue) \/ SaOfUE(ue),
         \A t \in Thread :
           \/ at'[t] = at[t] /\ arg'[t] = arg[t]
           \/ /\ at[t] = "idle" \/ arg[t].ue # ue
              /\ at'[t] = "idle" \/ arg'[t].ue # ue
  PROVE  Agree(ue)'
<1>1. ASSUME NEW place, NEW status, AgreeAt(ue, place, status)
      PROVE  AgreeAt(ue, place, status)'
  BY <1>1 DEF AgreeAt, Up, InTable, SaKept, SaEnded, SaLate, SaOfUE
<1>2. Quiet(ue)' => Quiet(ue)
  BY DEF Quiet, Busy
<1>3. ASSUME Quiet(ue)'
      PROVE  AgreeAt(ue, "idle", "pending")'
  BY <1>1, <1>2, <1>3 DEF Agree
<1>4. ASSUME NEW t \in Thread, at'[t] # "idle", arg'[t].ue = ue
      PROVE  AgreeAt(ue, at[t], arg[t].status)'
  <2>1. at'[t] = at[t] /\ arg'[t] = arg[t]
    BY <1>4
  <2>2. PICK place, status : place = at[t] /\ status = arg[t].status
    OBVIOUS
  <2>3. AgreeAt(ue, place, status)
    BY <1>4, <2>1, <2>2 DEF Agree
  <2>4. AgreeAt(ue, place, status)'
    BY <1>1, <2>3
  <2>5. QED
    BY <2>1, <2>2, <2>4 DEF AgreeAt
<1>5. QED
  BY <1>3, <1>4 DEF Agree

\* A step of the one thread that serves a UE's request.
LEMMA AgreeAfter ==
  ASSUME Alone, NEW ue \in Careful, NEW t \in Thread, at[t] # "idle",
         OwnStep(t, ue), NEW place, NEW status,
         at'[t] = place, place # "idle" => arg'[t].ue = ue
                                           /\ arg'[t].status = status,
         AgreeAt(ue, place, status)'
  PROVE  Agree(ue)'
<1>1. ASSUME NEW u \in Thread \ {t}, at'[u] # "idle", arg'[u].ue = ue
      PROVE  FALSE
  BY <1>1 DEF Alone, OwnStep
<1>2. CASE place = "idle"
  <2>1. AgreeAt(ue, "idle", "pending")'
    BY <1>2 DEF AgreeAt
  <2>2. QED
    BY <1>1, <1>2, <2>1 DEF Agree
<1>3. CASE place # "idle"
  <2>1. ~Quiet(ue)'
    BY <1>3 DEF Quiet, Busy
  <2>2. AgreeAt(ue, at[t], arg[t].status)'
    BY <1>3 DEF AgreeAt
  <2>3. QED
    BY <1>1, <2>1, <2>2 DEF Agree
<1>4. QED
  BY <1>2, <1>3

\* A terminate for a UE: its SA is gone, and if it had one the cause is known.
LEMMA TerminateOwn ==
  ASSUME TypeInv, NEW ue \in Careful, NEW why, TerminateOk(ue, why)
  PROVE  /\ ue \notin sa'
         /\ cause'[ue] = IF ue \in sa THEN why ELSE cause[ue]
<1>1. ue \in UE /\ ue \in SameChild(ue)
  BY ConfigAssumption DEF SameChild
<1>2. QED
  BY <1>1 DEF TerminateOk

LEMMA ServeAgrees ==
  ASSUME TypeInv, Alone, GoneInv, NEW t \in Thread, Serve(t),
         mode' = mode, NEW ue \in Careful, ue = arg[t].ue, Agree(ue)
  PROVE  Agree(ue)'
<1>1. /\ at[t] # "idle" /\ arg[t] \in Arg /\ ue \in UE /\ OwnStep(t, ue)
      /\ AgreeAt(ue, at[t], arg[t].status)
  BY ServeElsewhere DEF Agree
<1>2. /\ at \in [Thread -> Place] /\ arg \in [Thread -> Arg \cup {NoRequest}]
      /\ cause \in [UE -> Cause]
      /\ sessions \in [UE -> Session \cup {NoSession}]
  BY DEF TypeInv, TypeOK
<1>5. /\ \A place : Goto(t, place) => at'[t] = place
      /\ Reply(t) => at'[t] = "idle"
  BY <1>2 DEF Goto, Reply
<1>6. ASSUME NEW place, NEW status, at'[t] = place,
             place # "idle" => arg'[t].ue = ue /\ arg'[t].status = status,
             AgreeAt(ue, place, status)'
      PROVE  Agree(ue)'
  BY <1>1, <1>6, AgreeAfter
<1> USE DEF AgreeAt, Up, InTable
<1>7. CASE AuthorizeOk(t)
  <2>1. /\ arg'[t].ue = ue /\ arg'[t].status = arg[t].status
        /\ at'[t] = "create_child_sa"
    BY <1>1, <1>2, <1>5, <1>7 DEF AuthorizeOk, Arg
  <2>2. AgreeAt(ue, "create_child_sa", arg[t].status)'
    BY <1>1, <1>7, <2>1 DEF AuthorizeOk
  <2>3. QED
    BY <1>6, <2>1, <2>2
<1>8. CASE AuthorizeFail(t) \/ LoadAllFail(t) \/ InitiateFail(t)
  BY <1>1, <1>5, <1>6, <1>8 DEF AuthorizeFail, LoadAllFail, InitiateFail
<1>9. CASE InitiateOk(t)
  BY <1>1, <1>5, <1>6, <1>9 DEF InitiateOk
<1>11. CASE LoadAllOk(t)
  <2>1. arg'[t].ue = ue /\ arg'[t].status = "pending" /\ at'[t] = "now"
    BY <1>1, <1>2, <1>5, <1>11 DEF LoadAllOk, Arg
  <2>2. AgreeAt(ue, "now", "pending")'
    BY <1>1, <1>11 DEF LoadAllOk
  <2>3. QED
    BY <1>6, <2>1, <2>2
<1>12. CASE CreateSessionOk(t)
  <2>1. arg'[t].ue = ue /\ arg'[t].status = "up" /\ at'[t] = "now"
    BY <1>1, <1>2, <1>5, <1>12 DEF CreateSessionOk, Arg
  <2>2. AgreeAt(ue, "now", "up")'
    BY <1>1, <1>12 DEF CreateSessionOk
  <2>3. QED
    BY <1>6, <2>1, <2>2
<1>13. CASE CreateSessionFail(t)
  BY <1>1, <1>5, <1>6, <1>13 DEF CreateSessionFail
<1>14. CASE Compensate(t)
  <2>1. at'[t] = "idle" /\ UNCHANGED sessions /\ at[t] = "compensate"
    BY <1>5, <1>14 DEF Compensate
  <2>2. CASE TerminateOk(arg[t].ue, "s2b")
    BY <1>1, <1>6, <2>1, <2>2, TerminateOwn
  <2>3. CASE TerminateFail(arg[t].ue) /\ Because("swanctl", {arg[t].ue} \cap sa)
    <3>1. /\ sa' = sa
          /\ cause'[ue] = IF ue \in sa THEN "swanctl" ELSE cause[ue]
      BY <1>1, <2>3 DEF TerminateFail, Because
    <3>2. QED
      BY <1>1, <1>6, <2>1, <3>1
  <2>4. QED
    BY <1>14, <2>2, <2>3 DEF Compensate
<1>15. CASE UpsertNow(t)
  <2>1. /\ arg'[t].ue = ue /\ arg'[t].status = arg[t].status
        /\ at'[t] = "upsert"
    BY <1>1, <1>2, <1>5, <1>15 DEF UpsertNow, Arg
  <2>2. AgreeAt(ue, "upsert", arg[t].status)'
    BY <1>1, <1>15, <2>1 DEF UpsertNow
  <2>3. QED
    BY <1>6, <2>1, <2>2
<1>16. CASE Upsert(t)
  <2>1. /\ at'[t] = "idle" /\ UNCHANGED <<sa, cause>> /\ at[t] = "upsert"
        /\ sessions'[ue] = Stored(t) /\ Stored(t).status = arg[t].status
    BY <1>1, <1>2, <1>5, <1>16 DEF Upsert, Stored
  <2>2. Stored(t) # NoSession
    BY <1>16, StoredIsSession, NullAssumption DEF Upsert
  <2>3. AgreeAt(ue, "idle", "pending")'
    BY <1>1, <2>1, <2>2
  <2>4. QED
    BY <1>6, <2>1, <2>3
<1>17. CASE DeleteChildSaOk(t)
  <2>1. ue \notin sa' /\ at'[t] = "delete" /\ UNCHANGED <<sessions, arg>>
    BY <1>5, <1>17, TerminateOwn DEF DeleteChildSaOk
  <2>2. AgreeAt(ue, "delete", arg[t].status)'
    BY <2>1
  <2>3. QED
    BY <1>1, <1>6, <2>1, <2>2 DEF OwnStep
<1>18. CASE DeleteChildSaFail(t)
  BY <1>1, <1>5, <1>6, <1>18 DEF DeleteChildSaFail, TerminateFail
<1>19. CASE Delete(t)
  <2>1. /\ at'[t] = "idle" /\ UNCHANGED <<sa, cause>> /\ at[t] = "delete"
        /\ sessions'[ue] = NoSession
    BY <1>1, <1>2, <1>5, <1>19 DEF Delete
  <2>2. mode = "active" => ue \notin sa \/ cause[ue] = "late"
    BY <1>1, <2>1 DEF GoneInv, GoneAt
  <2>3. AgreeAt(ue, "idle", "pending")'
    BY <2>1, <2>2
  <2>4. QED
    BY <1>6, <2>1, <2>3
<1>20. QED
  BY <1>7, <1>8, <1>9, <1>11, <1>12, <1>13, <1>14, <1>15, <1>16,
     <1>17, <1>18, <1>19 DEF Serve

LEMMA EnvironmentAgrees ==
  ASSUME TypeInv, Environment, mode' = mode, NEW ue \in Careful, Agree(ue)
  PROVE  Agree(ue)'
<1>1. CASE Restart
  <2>1. /\ sessions'[ue] = NoSession
        /\ sa' = sa /\ (ue \in sa => cause'[ue] = "restart")
        /\ \A t \in Thread : at'[t] = "idle"
    BY <1>1, ConfigAssumption DEF Restart, Because
  <2>2. AgreeAt(ue, "idle", "pending")'
    BY <2>1 DEF AgreeAt, Up, InTable
  <2>3. QED
    BY <2>1, <2>2 DEF Agree
<1>2. CASE ~Restart
  BY <1>2, EnvironmentElsewhere, AgreeElsewhere
<1>3. QED
  BY <1>1, <1>2

LEMMA ClientAgrees ==
  ASSUME TypeInv, NEW t \in Thread, Client(t), mode' = mode,
         NEW ue \in Careful, Agree(ue)
  PROVE  Agree(ue)'
<1>1. PICK v \in UE, place \in {"authorize", "delete_child_sa"} :
        /\ at[t] = "idle" /\ (v \in Careful => ~Busy(v))
        /\ at' = [at EXCEPT ![t] = place]
        /\ \A u \in Thread \ {t} : at'[u] = at[u] /\ arg'[u] = arg[u]
        /\ arg'[t].ue = v
        /\ UNCHANGED <<sessions, cause, sa>>
  BY DEF Client, StartCreate, StartDelete, Admitted, Request, Goto, TypeInv,
         TypeOK
<1>2. at'[t] = place /\ at'[t] # "idle"
  BY <1>1 DEF TypeInv, TypeOK
<1>3. CASE v # ue
  BY <1>1, <1>3, AgreeElsewhere DEF SaKept
<1>4. CASE v = ue
  <2>1. AgreeAt(ue, "idle", "pending") /\ Quiet(ue)
    BY <1>1, <1>4 DEF Agree, Quiet
  <2>2. AgreeAt(ue, at[t], arg[t].status)'
    BY <1>1, <1>2, <2>1 DEF AgreeAt, Up, InTable
  <2>3. \A u \in Thread \ {t} : at'[u] = "idle" \/ arg'[u].ue # ue
    BY <1>1, <2>1 DEF Quiet, Busy
  <2>4. ~Quiet(ue)'
    BY <1>1, <1>2, <1>4 DEF Quiet, Busy
  <2>5. QED
    BY <2>2, <2>3, <2>4 DEF Agree
<1>5. QED
  BY <1>3, <1>4

LEMMA NextAgrees ==
  ASSUME TypeInv, Alone, GoneInv, AgreeInv, [Next]_vars
  PROVE  AgreeInv'
<1> SUFFICES ASSUME NEW ue \in Careful
             PROVE  Agree(ue)'
  BY DEF AgreeInv
<1>1. Agree(ue) /\ ue \in UE /\ mode' = mode
  BY ConfigAssumption DEF AgreeInv, Next, vars, config
<1>2. CASE UNCHANGED vars
  BY <1>1, <1>2, AgreeElsewhere DEF vars, SaKept
<1>3. ASSUME NEW t \in Thread, Serve(t)
      PROVE  Agree(ue)'
  <2>1. CASE ue = arg[t].ue
    BY <1>1, <1>3, <2>1, ServeAgrees
  <2>2. CASE ue # arg[t].ue
    <3>1. \A u \in Thread :
            \/ at'[u] = at[u] /\ arg'[u] = arg[u]
            \/ /\ at[u] = "idle" \/ arg[u].ue # ue
               /\ at'[u] = "idle" \/ arg'[u].ue # ue
      BY <1>3, <2>2, ServeElsewhere DEF OwnStep
    <3>2. sessions'[ue] = sessions[ue] /\ (SaKept(ue) \/ SaEnded(ue))
      BY <1>3, <2>2, ServeElsewhere
    <3>3. QED
      BY <1>1, <3>1, <3>2, AgreeElsewhere
  <2>3. QED
    BY <2>1, <2>2
<1>4. QED
  BY <1>1, <1>2, <1>3, ClientAgrees, EnvironmentAgrees DEF Next

\* Only a terminate of another UE whose child has the same name is "shared".
SharedInv == \A ue \in Careful : cause[ue] = "shared" => SameChild(ue) # {ue}

LEMMA NextShared ==
  ASSUME TypeInv, SharedInv, [Next]_vars
  PROVE  SharedInv'
<1> SUFFICES ASSUME NEW ue \in Careful, cause'[ue] = "shared"
             PROVE  SameChild(ue)' # {ue}
  BY DEF SharedInv
<1>1. SameChild(ue)' = SameChild(ue)
  BY DEF SameChild, ChildNameOf, Next, vars, config
<1>2. ue \in UE
  BY ConfigAssumption
<1>3. CASE cause'[ue] = cause[ue]
  BY <1>1, <1>3 DEF SharedInv
<1>4. ASSUME NEW v \in UE, NEW why \in {"asked", "s2b"}, TerminateOk(v, why)
      PROVE  SameChild(ue)' # {ue}
  <2>1. CASE v = ue
    BY <1>3, <1>4, <2>1, TerminateOwn
  <2>2. CASE v # ue
    <3>1. cause'[ue] = cause[ue] \/ ue \in SameChild(v)
      BY <1>4, <2>2, TerminateElsewhere
    <3>2. ue \in SameChild(v) => v \in SameChild(ue)
      BY <1>2 DEF SameChild
    <3>3. QED
      BY <1>1, <1>3, <2>2, <3>1, <3>2
  <2>3. QED
    BY <2>1, <2>2
<1>5. ASSUME NEW why \in {"asked", "swanctl", "late", "lost", "restart"},
             NEW ues, Because(why, ues)
      PROVE  SameChild(ue)' # {ue}
  BY <1>2, <1>3, <1>5 DEF Because
<1>6. ASSUME NEW t \in Thread, Compensate(t) \/ DeleteChildSaOk(t)
      PROVE  SameChild(ue)' # {ue}
  <2>1. arg[t].ue \in UE
    BY <1>6 DEF Compensate, DeleteChildSaOk, TypeInv, Serving, Arg
  <2>2. QED
    BY <1>4, <1>5, <1>6, <2>1 DEF Compensate, DeleteChildSaOk
<1>7. CASE \/ \E t \in Thread : InitiateOk(t)
           \/ Restart
           \/ \E u \in UE : \/ Lose(u) \/ Attach(u)
                            \/ InitiateLate(u) \/ TerminateLate(u)
  BY <1>5, <1>7 DEF InitiateOk, Restart, Lose, Attach, InitiateLate, TerminateLate
<1>8. QED
  BY <1>3, <1>6, <1>7, SaSteps

\* handle_create, handle_delete: whatever child_name is, when a UE's client
\* keeps one request in flight, the table and charon agree between the
\* requests: a session that is "up" has its SA, and in active mode no SA is
\* without a session, but for the causes that are listed; and another UE's
\* terminate is one of them only where the children have the same name.
THEOREM TableMatchesSAs == Spec => []TableAgrees
<1>1. Init => Alone /\ GoneInv /\ AgreeInv /\ SharedInv
  BY ConfigAssumption
     DEF Init, Alone, GoneInv, AgreeInv, Agree, AgreeAt, Up, InTable, SharedInv
<1>2. TypeInv /\ Alone /\ GoneInv /\ AgreeInv /\ SharedInv /\ [Next]_vars
        => Alone' /\ GoneInv' /\ AgreeInv' /\ SharedInv'
  BY NextAlone, NextGone, NextAgrees, NextShared
<1>3. AgreeInv /\ SharedInv => TableAgrees
  BY DEF AgreeInv, Agree, AgreeAt, SharedInv, TableAgrees
<1>4. QED
  BY <1>1, <1>2, <1>3, TypeInvariant, PTL DEF Spec

-----------------------------------------------------------------------------
(***************************************************************************)
(* The RADIUS bridge.                                                      *)
(***************************************************************************)


\* Vector n was fetched in authentication c.
Own(c, n) == n \in DOMAIN vectors /\ vectors[n].conv = c

\* A State leads to the vector it was opened with, or to none.
SessionInv == \A s \in DOMAIN akaSessions : akaSessions[s] \in {0, s}

\* What charon last asked, and what that says of the UE.
NasInv ==
  \A c \in Conv :
    LET r == nas[c].request
    IN  /\ r.conv = c
        /\ r.no = 1 => r = Identity(c) /\ key[c] = 0
        /\ r.no # 1 => r.no = 2 /\ r.kind # "identity" /\ Own(c, r.state)
        /\ key[c] # 0 => /\ r.kind = "res"
                         /\ r.value = key[c]
                         /\ r.state = key[c]
        /\ r.kind = "res" => key[c] # 0

\* A request on its way is the identity or the one charon waits for.
RequestInv ==
  \A r \in requests : r = Identity(r.conv) \/ r = nas[r.conv].request

ReplyInv ==
  \A p \in replies :
    /\ p.result = "challenge" => /\ p.no = 1
                                 /\ p.state = p.vector
                                 /\ Own(p.conv, p.vector)
    /\ p.result = "accept" => /\ p.vector = key[p.conv]
                              /\ Own(p.conv, p.vector)

UpInv ==
  \A c \in Conv :
    nas[c].at = "up" => nas[c].keys = key[c] /\ Own(c, key[c])

\* A RES sent once: its session is there until it is read, and it is never
\* answered with a reject.
OnceInv ==
  \A c \in Conv :
    key[c] # 0 /\ <<c, 2>> \notin again
      => /\ nas[c].request \in requests => akaSessions[key[c]] = key[c]
         /\ \A p \in replies :
              p.conv = c /\ p.no = 2 => p.result # "reject"
         /\ nas[c].at # "failed"
         /\ nas[c].at # "idle"

\* Until the UE has answered, every session of its authentication is there.
FreshInv ==
  \A c \in Conv :
    nas[c].request.no = 1
      => /\ \A p \in replies : p.conv = c => p.no = 1
         /\ \A n \in DOMAIN vectors : vectors[n].conv = c => akaSessions[n] = n

Inv == /\ BridgeTypeOK /\ SessionInv /\ NasInv /\ RequestInv /\ ReplyInv
       /\ UpInv /\ OnceInv /\ FreshInv

-----------------------------------------------------------------------------
\* States and vectors are numbered alike.
LEMMA Domains ==
  ASSUME BridgeTypeOK
  PROVE  /\ DOMAIN akaSessions = 1 .. Len(akaSessions)
         /\ DOMAIN vectors = 1 .. Len(vectors)
         /\ DOMAIN akaSessions = DOMAIN vectors
         /\ akaSessions \in [DOMAIN akaSessions -> Nat]
<1>1. /\ akaSessions \in Seq(Nat)
      /\ vectors \in Seq([conv : Conv, sqn : Nat])
      /\ Len(akaSessions) = Len(vectors)
  BY DEF BridgeTypeOK
<1>2. /\ DOMAIN akaSessions = 1 .. Len(akaSessions)
      /\ akaSessions \in [1 .. Len(akaSessions) -> Nat]
  BY <1>1
<1>3. DOMAIN vectors = 1 .. Len(vectors)
  BY <1>1
<1> QED
  BY <1>1, <1>2, <1>3

LEMMA InitInv == BridgeInit => Inv
<1> SUFFICES ASSUME BridgeInit
             PROVE  Inv
  OBVIOUS
<1>1. PICK who \in [Conv -> User] :
        nas = [c \in Conv |-> [at |-> "idle", ue |-> who[c], sends |-> 0,
                               request |-> Identity(c), keys |-> 0]]
  BY DEF BridgeInit
<1>2. \A c \in Conv : Identity(c) \in AccessRequest
  BY DEF Identity, AccessRequest, Kind
<1>3. BridgeTypeOK
  <2>1. nas \in [Conv -> Nas]
    BY <1>1, <1>2 DEF Nas
  <2>2. /\ akaSessions = << >> /\ akaSessions \in Seq(Nat)
        /\ vectors = << >> /\ vectors \in Seq([conv : Conv, sqn : Nat])
    BY DEF BridgeInit
  <2>3. usim \in [User -> Nat]
    BY BridgeAssumption DEF BridgeInit
  <2> QED
    BY <2>1, <2>2, <2>3 DEF BridgeInit, BridgeTypeOK
<1>4. /\ SessionInv /\ NasInv /\ RequestInv /\ ReplyInv
      /\ UpInv /\ OnceInv /\ FreshInv
  BY <1>1 DEF BridgeInit, SessionInv, NasInv, RequestInv, ReplyInv, UpInv,
               OnceInv,
              FreshInv, Identity
<1> QED
  BY <1>3, <1>4 DEF Inv

\* What is known of a request that the bridge takes off the wire.
LEMMA RequestKnown ==
  ASSUME Inv, NEW r \in requests
  PROVE  /\ r \in AccessRequest
         /\ r.kind = "identity" => r.no = 1
         /\ r.kind # "identity" => /\ r.no = 2
                                   /\ r = nas[r.conv].request
                                   /\ Own(r.conv, r.state)
                                   /\ r.state \in DOMAIN akaSessions
<1>1. r \in AccessRequest /\ r.conv \in Conv
  BY DEF Inv, BridgeTypeOK, AccessRequest
<1>2. DOMAIN akaSessions = DOMAIN vectors
  BY Domains DEF Inv
<1>3. r = Identity(r.conv) \/ r = nas[r.conv].request
  BY DEF Inv, RequestInv
<1>4. CASE r = Identity(r.conv)
  BY <1>1, <1>4 DEF Identity
<1>5. CASE r = nas[r.conv].request
  <2>1. /\ r.no = 1 => r = Identity(r.conv)
        /\ r.no # 1 => /\ r.no = 2
                       /\ r.kind # "identity"
                       /\ Own(r.conv, r.state)
    BY <1>1, <1>5 DEF Inv, NasInv
  <2>2. CASE r.no = 1
    BY <1>1, <2>1, <2>2 DEF Identity
  <2>3. CASE r.no # 1
    BY <1>1, <1>2, <1>5, <2>1, <2>3 DEF Own
  <2> QED
    BY <2>2, <2>3
<1> QED
  BY <1>3, <1>4, <1>5

\* A step of the bridge that changes no vector and drops at most the session
\* of the request keeps the invariant, if its answer is sound.
LEMMA AnswerInv ==
  ASSUME Inv, NEW r \in requests, NEW result \in {"accept", "reject"},
         NEW n \in Nat,
         Answer(r, result, 0, n),
         row' \in [User -> Nat],
         Pop(r) \/ UNCHANGED akaSessions,
         r.kind = "identity" => UNCHANGED akaSessions,
         result = "accept" => n = key[r.conv] /\ Own(r.conv, n),
         result = "reject" /\ r.kind = "res" =>
           <<r.conv, 2>> \in again \/ akaSessions[r.state] # r.state,
         UNCHANGED <<vectors, usim, nas, key, again>>
  PROVE  Inv'
<1> DEFINE p == [conv |-> r.conv, no |-> r.no, result |-> result,
                 state |-> 0, vector |-> n]
<1>1. /\ requests' = requests \ {r}
      /\ replies' = replies \cup {p}
  BY DEF Answer
<1>2. /\ r \in AccessRequest
      /\ r.kind = "identity" => r.no = 1
      /\ r.kind # "identity" => /\ r.no = 2
                                /\ r = nas[r.conv].request
                                /\ Own(r.conv, r.state)
                                /\ r.state \in DOMAIN akaSessions
  BY RequestKnown
<1>3. p \in AccessReply
  BY <1>2 DEF AccessRequest, AccessReply
<1>4. /\ akaSessions' \in Seq(Nat)
      /\ DOMAIN akaSessions' = DOMAIN akaSessions
      /\ Len(akaSessions') = Len(akaSessions)
      /\ \A s \in DOMAIN akaSessions : akaSessions'[s] \in {0, akaSessions[s]}
      /\ \A s \in DOMAIN akaSessions :
           s # r.state \/ r.kind = "identity" =>
             akaSessions'[s] = akaSessions[s]
  <2>1. /\ akaSessions \in Seq(Nat)
        /\ DOMAIN akaSessions = 1 .. Len(akaSessions)
        /\ akaSessions \in [DOMAIN akaSessions -> Nat]
    BY Domains DEF Inv, BridgeTypeOK
  <2>2. CASE UNCHANGED akaSessions
    BY <2>1, <2>2
  <2>3. CASE Pop(r) /\ r.kind # "identity"
    <3>1. akaSessions' = [akaSessions EXCEPT ![r.state] = 0]
      BY <2>3 DEF Pop
    <3>2. /\ akaSessions' \in Seq(Nat)
          /\ Len(akaSessions') = Len(akaSessions)
      BY <1>2, <2>1, <2>3, <3>1, ExceptSeq
    <3>3. DOMAIN akaSessions' = DOMAIN akaSessions
      BY <3>1
    <3>4. \A s \in DOMAIN akaSessions :
            akaSessions'[s] = IF s = r.state THEN 0 ELSE akaSessions[s]
      BY <3>1
    <3> QED
      BY <2>3, <3>2, <3>3, <3>4
  <2> QED
    BY <2>2, <2>3
<1>5. BridgeTypeOK'
  BY <1>1, <1>3, <1>4 DEF Inv, BridgeTypeOK
<1>6. SessionInv'
  BY <1>4 DEF Inv, SessionInv
<1>7. NasInv' /\ UpInv'
  BY DEF Inv, NasInv, UpInv, Own
<1>8. RequestInv'
  BY <1>1 DEF Inv, RequestInv
<1>9. ReplyInv'
  BY <1>1 DEF Inv, ReplyInv, Own
<1>10. OnceInv'
  <2> SUFFICES ASSUME NEW c \in Conv, key[c] # 0, <<c, 2>> \notin again
               PROVE  /\ nas[c].request \in requests'
                            => akaSessions'[key[c]] = key[c]
                      /\ \A q \in replies' :
                           q.conv = c /\ q.no = 2 => q.result # "reject"
                      /\ nas[c].at # "failed"
                      /\ nas[c].at # "idle"
    BY DEF OnceInv
  <2>1. /\ nas[c].request.kind = "res"
        /\ nas[c].request.state = key[c]
        /\ Own(c, key[c])
        /\ nas[c].request.no = 2
    BY DEF Inv, NasInv, Identity
  <2>2. /\ nas[c].request \in requests => akaSessions[key[c]] = key[c]
        /\ \A q \in replies : q.conv = c /\ q.no = 2 => q.result # "reject"
        /\ nas[c].at # "failed"
        /\ nas[c].at # "idle"
    BY DEF Inv, OnceInv
  <2>3. CASE r = nas[c].request
    <3>1. r.conv = c
      BY <2>3 DEF Inv, NasInv
    <3>2. result # "reject"
      BY <2>1, <2>2, <2>3, <3>1
    <3> QED
      BY <1>1, <2>2, <2>3, <3>2
  <2>4. CASE r # nas[c].request
    <3>1. r.conv # c \/ r.kind = "identity"
      BY <1>2, <2>4
    <3>2. r.kind # "identity" => r.state # key[c]
      BY <1>2, <2>1, <3>1 DEF Own
    <3>3. akaSessions'[key[c]] = akaSessions[key[c]]
      BY <1>4, <2>1, <3>2, Domains DEF Inv, Own
    <3>4. ~(p.conv = c /\ p.no = 2)
      BY <1>2, <3>1
    <3> QED
      BY <1>1, <2>2, <3>3, <3>4
  <2> QED
    BY <2>3, <2>4
<1>11. FreshInv'
  <2> SUFFICES ASSUME NEW c \in Conv, nas[c].request.no = 1
               PROVE  /\ \A q \in replies' : q.conv = c => q.no = 1
                      /\ \A i \in DOMAIN vectors :
                           vectors[i].conv = c => akaSessions'[i] = i
    BY DEF FreshInv
  <2>1. /\ \A q \in replies : q.conv = c => q.no = 1
        /\ \A i \in DOMAIN vectors : vectors[i].conv = c => akaSessions[i] = i
    BY DEF Inv, FreshInv
  <2>2. r.conv = c => r.kind = "identity" /\ r.no = 1
    BY <1>2
  <2>3. \A i \in DOMAIN vectors :
          vectors[i].conv = c => akaSessions'[i] = akaSessions[i]
    <3> SUFFICES ASSUME NEW i \in DOMAIN vectors, vectors[i].conv = c
                 PROVE  i # r.state \/ r.kind = "identity"
      BY <1>4, Domains DEF Inv
    <3> QED
      BY <1>2, <2>2 DEF Own
  <2> QED
    BY <1>1, <2>1, <2>2, <2>3
<1> QED
  BY <1>5, <1>6, <1>7, <1>8, <1>9, <1>10, <1>11 DEF Inv

\* A challenge opens a State of its own, with the vector just fetched.
LEMMA ChallengeInv ==
  ASSUME Inv, NEW r \in requests, Challenge(r),
         UNCHANGED <<usim, nas, key, again>>
  PROVE  Inv'
<1> DEFINE n == Len(vectors) + 1
           v == [conv |-> r.conv, sqn |-> row[UeOf(r)]]
           p == [conv |-> r.conv, no |-> r.no, result |-> "challenge",
                 state |-> n, vector |-> n]
<1>1. /\ r \in AccessRequest
      /\ r.kind = "identity"
      /\ r.no = 1
  BY RequestKnown DEF Challenge
<1>2. /\ UeOf(r) \in User
      /\ v \in [conv : Conv, sqn : Nat]
  BY <1>1 DEF Inv, BridgeTypeOK, AccessRequest, Nas, UeOf
<1>3. /\ Len(vectors) \in Nat
      /\ Len(akaSessions) = Len(vectors)
      /\ DOMAIN vectors = 1 .. Len(vectors)
      /\ DOMAIN akaSessions = 1 .. Len(vectors)
      /\ akaSessions \in [1 .. Len(vectors) -> Nat]
  BY Domains DEF Inv, BridgeTypeOK
<1>4. /\ vectors' \in Seq([conv : Conv, sqn : Nat])
      /\ Len(vectors') = n
      /\ \A i \in 1 .. Len(vectors) : vectors'[i] = vectors[i]
      /\ vectors'[n] = v
  BY <1>2 DEF Challenge, Inv, BridgeTypeOK
<1>5. /\ requests' = requests \ {r}
      /\ replies' = replies \cup {p}
      /\ row' = [row EXCEPT ![UeOf(r)] = @ + 1]
  BY DEF Challenge, Answer, NewState
<1>6. /\ akaSessions' \in [1 .. n -> Nat]
      /\ akaSessions' \in Seq(Nat)
      /\ Len(akaSessions') = n
      /\ \A i \in 1 .. Len(vectors) : akaSessions'[i] = akaSessions[i]
      /\ akaSessions'[n] = n
  <2>1. akaSessions' = [s \in 1 .. n |-> IF s = n THEN n ELSE akaSessions[s]]
    BY DEF Challenge, Opened, NewState
  <2>2. akaSessions' \in [1 .. n -> Nat]
    BY <1>3, <2>1
  <2>3. akaSessions' \in Seq(Nat)
    BY <1>3, <2>2, SeqDef
  <2> QED
    BY <1>3, <2>1, <2>2, <2>3
<1>7. \A c, i : Own(c, i) => i \in 1 .. Len(vectors) /\ Own(c, i)'
  BY <1>3, <1>4 DEF Own
<1>8. /\ n \in DOMAIN vectors'
      /\ vectors'[n].conv = r.conv
  BY <1>3, <1>4
<1>9. BridgeTypeOK'
  <2>1. row' \in [User -> Nat]
    BY <1>2, <1>5 DEF Inv, BridgeTypeOK
  <2>2. p \in AccessReply
    BY <1>1, <1>3 DEF AccessReply, AccessRequest
  <2> QED
    BY <1>4, <1>5, <1>6, <2>1, <2>2 DEF Inv, BridgeTypeOK
<1>10. SessionInv'
  BY <1>3, <1>6 DEF Inv, SessionInv
<1>11. NasInv' /\ UpInv'
  BY <1>7 DEF Inv, NasInv, UpInv
<1>12. RequestInv'
  BY <1>5 DEF Inv, RequestInv
<1>13. ReplyInv'
  <2>1. \A q \in replies :
          /\ q.result = "challenge" => /\ q.no = 1
                                       /\ q.state = q.vector
                                       /\ Own(q.conv, q.vector)'
          /\ q.result = "accept" => /\ q.vector = key[q.conv]
                                    /\ Own(q.conv, q.vector)'
    BY <1>7 DEF Inv, ReplyInv
  <2>2. p.no = 1 /\ p.state = p.vector
    BY <1>1
  <2> QED
    BY <1>5, <1>8, <2>1, <2>2 DEF ReplyInv, Own
<1>14. OnceInv'
  <2> SUFFICES ASSUME NEW c \in Conv, key[c] # 0, <<c, 2>> \notin again
               PROVE  /\ nas[c].request \in requests'
                            => akaSessions'[key[c]] = key[c]
                      /\ \A q \in replies' :
                           q.conv = c /\ q.no = 2 => q.result # "reject"
                      /\ nas[c].at # "failed"
                      /\ nas[c].at # "idle"
    BY DEF OnceInv
  <2>1. key[c] \in 1 .. Len(vectors)
    <3>1. Own(c, nas[c].request.state) /\ nas[c].request.state = key[c]
      BY DEF Inv, NasInv
    <3> QED
      BY <1>7, <3>1
  <2> QED
    BY <1>5, <1>6, <2>1 DEF Inv, OnceInv
<1>15. FreshInv'
  <2> SUFFICES ASSUME NEW c \in Conv, nas[c].request.no = 1
               PROVE  /\ \A q \in replies' : q.conv = c => q.no = 1
                      /\ \A i \in 1 .. n :
                           vectors'[i].conv = c => akaSessions'[i] = i
    BY <1>4 DEF FreshInv
  <2>1. /\ \A q \in replies : q.conv = c => q.no = 1
        /\ \A i \in 1 .. Len(vectors) :
             vectors[i].conv = c => akaSessions[i] = i
    BY <1>3 DEF Inv, FreshInv
  <2>2. \A i \in 1 .. n : vectors'[i].conv = c => akaSessions'[i] = i
    <3> TAKE i \in 1 .. n
    <3>1. CASE i = n
      BY <1>6, <3>1
    <3>2. CASE i # n
      <4>1. i \in 1 .. Len(vectors)
        BY <1>3, <3>2
      <4>2. vectors'[i] = vectors[i] /\ akaSessions'[i] = akaSessions[i]
        BY <1>4, <1>6, <4>1
      <4> QED
        BY <2>1, <4>1, <4>2
    <3> QED
      BY <3>1, <3>2
  <2> QED
    BY <1>1, <1>5, <2>1, <2>2
<1> QED
  BY <1>9, <1>10, <1>11, <1>12, <1>13, <1>14, <1>15 DEF Inv

LEMMA HandleInv ==
  ASSUME Inv, NEW r \in requests, HandleAuthPacket(r)
  PROVE  Inv'
<1>1. /\ r \in AccessRequest
      /\ r.kind = "identity" => r.no = 1
      /\ r.kind # "identity" => /\ r.no = 2
                                /\ r = nas[r.conv].request
                                /\ Own(r.conv, r.state)
                                /\ r.state \in DOMAIN akaSessions
  BY RequestKnown
<1>2. /\ r.conv \in Conv
      /\ r.value \in Nat
      /\ UeOf(r) \in User
      /\ row \in [User -> Nat]
      /\ UNCHANGED <<usim, nas, key, again>>
  BY <1>1 DEF AccessRequest, Inv, BridgeTypeOK, Nas, UeOf, HandleAuthPacket
<1>3. r.kind = "res" => /\ r.value = key[r.conv]
                        /\ r.state = key[r.conv]
                        /\ Own(r.conv, key[r.conv])
  BY <1>1, <1>2 DEF Inv, NasInv
<1>4. CASE Challenge(r)
  BY <1>2, <1>4, ChallengeInv
<1>5. CASE FetchFail(r)
  <2>1. /\ row' \in [User -> Nat]
        /\ r.kind = "identity"
        /\ UNCHANGED <<akaSessions, vectors>>
        /\ Answer(r, "reject", 0, 0)
    BY <1>2, <1>5 DEF FetchFail, Reject
  <2> QED
    BY <1>2, <2>1, AnswerInv
<1>6. CASE StateNotFound(r)
  <2>1. /\ UNCHANGED <<akaSessions, vectors, row>>
        /\ Answer(r, "reject", 0, 0)
        /\ r.kind # "identity"
        /\ akaSessions[r.state] = 0
    BY <1>6 DEF StateNotFound, Reject
  <2>2. r.kind = "res" => akaSessions[r.state] # r.state
    BY <1>1, <2>1, Domains DEF Inv
  <2>3. /\ row' \in [User -> Nat]
        /\ UNCHANGED akaSessions
        /\ UNCHANGED <<vectors, usim, nas, key, again>>
        /\ Answer(r, "reject", 0, 0)
    BY <1>2, <2>1
  <2> QED
    BY <2>2, <2>3, AnswerInv
<1>7. CASE Refuse(r)
  <2>1. /\ UNCHANGED <<vectors, row>>
        /\ Answer(r, "reject", 0, 0)
        /\ Pop(r)
        /\ r.kind # "identity"
        /\ r.kind = "res" => r.value # akaSessions[r.state]
    BY <1>7 DEF Refuse, Reject, Known, Verified
  <2>2. r.kind = "res" => akaSessions[r.state] # r.state
    BY <1>3, <2>1
  <2> QED
    BY <1>2, <2>1, <2>2, AnswerInv
<1>8. CASE Resync(r)
  <2>1. /\ row' \in [User -> Nat]
        /\ UNCHANGED vectors
        /\ Answer(r, "reject", 0, 0)
        /\ Pop(r)
        /\ r.kind \in {"auts", "legacy"}
    BY <1>2, <1>8 DEF Resync, Reject
  <2> QED
    BY <1>2, <2>1, AnswerInv
<1>9. CASE Accept(r)
  <2>1. /\ UNCHANGED <<vectors, row>>
        /\ Answer(r, "accept", 0, akaSessions[r.state])
        /\ Pop(r)
        /\ r.kind = "res"
        /\ r.value = akaSessions[r.state]
    BY <1>9 DEF Accept, Keys, Verified
  <2>2. akaSessions[r.state] = key[r.conv] /\ key[r.conv] \in Nat
    BY <1>2, <1>3, <2>1 DEF Inv, BridgeTypeOK
  <2> QED
    BY <1>2, <1>3, <2>1, <2>2, AnswerInv
<1> QED
  BY <1>4, <1>5, <1>6, <1>7, <1>8, <1>9 DEF HandleAuthPacket

-----------------------------------------------------------------------------
\* charon sends the request it already holds, or gives it up.
LEMMA SendInv ==
  ASSUME Inv, NEW c \in Conv, Begin(c) \/ Resend(c) \/ GiveUp(c)
  PROVE  Inv'
<1>1. /\ nas[c] \in Nas
      /\ nas[c].request \in AccessRequest
      /\ nas[c].request.conv = c
      /\ nas[c].request.no \in Nat
      /\ nas[c].request.no # 1 => nas[c].request.no = 2
  BY DEF Inv, BridgeTypeOK, Nas, NasInv, AccessRequest
<1>2. /\ nas' \in [Conv -> Nas]
      /\ \A d \in Conv : /\ nas'[d].request = nas[d].request
                         /\ nas'[d].keys = nas[d].keys
                         /\ \/ nas'[d].at = nas[d].at
                            \/ nas'[d].at \in {"wait", "timeout"}
      /\ requests' \in {requests, requests \cup {nas[c].request}}
      /\ again' \in {again, again \cup {<<c, nas[c].request.no>>}}
      /\ UNCHANGED <<bridge, users, replies>>
  <2>1. PICK place \in {"wait", "timeout"}, sends \in Nat :
          nas' = [nas EXCEPT ![c].at = place, ![c].sends = sends]
    <3>1. nas \in [Conv -> Nas]
      BY DEF Inv, BridgeTypeOK
    <3>2. GiveUp(c) => nas' = [nas EXCEPT ![c].at = "timeout",
                                          ![c].sends = nas[c].sends]
      BY <1>1, <3>1 DEF GiveUp, Nas
    <3>3. Resend(c) => nas' = [nas EXCEPT ![c].at = "wait",
                                          ![c].sends = nas[c].sends + 1]
      <4> SUFFICES ASSUME Resend(c)
                   PROVE  nas' = [nas EXCEPT ![c].at = "wait",
                                             ![c].sends = nas[c].sends + 1]
        OBVIOUS
      <4>1. /\ nas[c].at = "wait"
            /\ nas' = [nas EXCEPT ![c] = [nas[c] EXCEPT !.sends = @ + 1]]
        BY <3>1 DEF Resend
      <4>2. [nas[c] EXCEPT !.sends = @ + 1] =
              [nas[c] EXCEPT !.at = "wait", !.sends = nas[c].sends + 1]
        BY <1>1, <4>1 DEF Nas
      <4> QED
        BY <3>1, <4>1, <4>2
    <3>4. nas[c].sends \in Nat
      BY <1>1 DEF Nas
    <3> QED
      BY <3>2, <3>3, <3>4 DEF Begin
  <2>2. [nas[c] EXCEPT !.at = place, !.sends = sends] \in Nas
    BY <1>1 DEF Nas
  <2>3. nas' = [nas EXCEPT ![c] = [nas[c] EXCEPT !.at = place, !.sends = sends]]
    BY <2>1 DEF Inv, BridgeTypeOK
  <2>4. nas' \in [Conv -> Nas]
    BY <2>2, <2>3 DEF Inv, BridgeTypeOK
  <2>5. \A d \in Conv : /\ nas'[d].request = nas[d].request
                       /\ nas'[d].keys = nas[d].keys
                       /\ \/ nas'[d].at = nas[d].at
                          \/ nas'[d].at \in {"wait", "timeout"}
    BY <1>1, <2>3 DEF Inv, BridgeTypeOK, Nas
  <2> QED
    BY <2>4, <2>5 DEF Begin, Resend, GiveUp
<1>3. BridgeTypeOK'
  <2>1. again' \subseteq Conv \X Nat
    BY <1>1, <1>2 DEF Inv, BridgeTypeOK
  <2> QED
    BY <1>1, <1>2, <2>1 DEF Inv, BridgeTypeOK, bridge, users
<1>4. /\ SessionInv' /\ NasInv' /\ ReplyInv' /\ UpInv'
  BY <1>2 DEF Inv, SessionInv, NasInv, ReplyInv, UpInv, Own, bridge, users
<1>5. RequestInv'
  BY <1>1, <1>2 DEF Inv, RequestInv, BridgeTypeOK, AccessRequest
<1>6. OnceInv'
  <2> SUFFICES ASSUME NEW d \in Conv, key[d] # 0, <<d, 2>> \notin again'
               PROVE  /\ nas[d].request \in requests'
                            => akaSessions[key[d]] = key[d]
                      /\ \A p \in replies :
                           p.conv = d /\ p.no = 2 => p.result # "reject"
                      /\ nas'[d].at # "failed"
                      /\ nas'[d].at # "idle"
    BY <1>2 DEF OnceInv, bridge, users
  <2>1. <<d, 2>> \notin again
    BY <1>2
  <2>2. /\ nas[d].request \in requests => akaSessions[key[d]] = key[d]
        /\ \A p \in replies : p.conv = d /\ p.no = 2 => p.result # "reject"
        /\ nas[d].at # "failed"
        /\ nas[d].at # "idle"
    BY <2>1 DEF Inv, OnceInv
\* Not sent by this step: it would count as sent again.
  <2>3. nas[d].request \in requests' => nas[d].request \in requests
    <3>1. CASE d = c
      <4>1. nas[d].request.no = 2
        BY <1>1, <3>1 DEF Inv, NasInv, Identity
      <4>2. ~Begin(c) /\ ~Resend(c)
        BY <2>2, <3>1, <4>1 DEF Begin, Resend
      <4> QED
        BY <4>2 DEF GiveUp
    <3>2. CASE d # c
      BY <1>1, <1>2, <3>2 DEF Inv, NasInv
    <3> QED
      BY <3>1, <3>2
  <2> QED
    BY <1>2, <2>2, <2>3
<1>7. FreshInv'
  BY <1>2 DEF Inv, FreshInv, bridge
<1> QED
  BY <1>3, <1>4, <1>5, <1>6, <1>7 DEF Inv

\* A reply that charon takes is one of those sound, and answers the request
\* it holds.
LEMMA ReplyKnown ==
  ASSUME Inv, NEW c \in Conv, NEW p \in replies, Comes(c, p)
  PROVE  /\ p \in AccessReply
         /\ p.conv = c
         /\ p.no = nas[c].request.no
         /\ nas[c].at = "wait"
         /\ replies' \subseteq replies
         /\ nas[c] \in Nas
         /\ nas[c].ue \in User
  BY DEF Inv, BridgeTypeOK, Comes, Nas

LEMMA DecidedInv ==
  ASSUME Inv, NEW c \in Conv, TakeAccept(c) \/ TakeReject(c)
  PROVE  Inv'
<1>1. PICK p \in replies :
        /\ Comes(c, p)
        /\ \/ /\ p.result = "accept"
              /\ nas' = [nas EXCEPT ![c].at = "up", ![c].keys = p.vector]
           \/ /\ p.result = "reject"
              /\ nas' = [nas EXCEPT ![c].at = "failed"]
  BY DEF TakeAccept, TakeReject
<1>2. /\ p \in AccessReply
      /\ p.conv = c
      /\ p.no = nas[c].request.no
      /\ replies' \subseteq replies
      /\ nas[c] \in Nas
  BY <1>1, ReplyKnown
<1>3. UNCHANGED <<bridge, users, requests, again>>
  BY DEF TakeAccept, TakeReject
<1>4. /\ nas' \in [Conv -> Nas]
      /\ \A d \in Conv : nas'[d].request = nas[d].request
      /\ \A d \in Conv \ {c} : nas'[d] = nas[d]
  <2>1. PICK place \in {"up", "failed"}, keys \in Nat :
          nas' = [nas EXCEPT ![c].at = place, ![c].keys = keys]
    <3>1. p.result = "reject" => nas' = [nas EXCEPT ![c].at = "failed",
                                                    ![c].keys = nas[c].keys]
      BY <1>1, <1>2 DEF Inv, BridgeTypeOK, Nas
    <3>2. p.vector \in Nat /\ nas[c].keys \in Nat
      BY <1>2 DEF AccessReply, Nas
    <3> QED
      BY <1>1, <3>1, <3>2
  <2>2. [nas[c] EXCEPT !.at = place, !.keys = keys] \in Nas
    BY <1>2 DEF Nas
  <2>3. nas' = [nas EXCEPT ![c] = [nas[c] EXCEPT !.at = place, !.keys = keys]]
    BY <2>1 DEF Inv, BridgeTypeOK
  <2> QED
    BY <1>2, <2>2, <2>3 DEF Inv, BridgeTypeOK, Nas
<1>5. /\ nas'[c].at = "up" => nas'[c].keys = p.vector /\ p.result = "accept"
      /\ nas'[c].at = "failed" => p.result = "reject"
      /\ nas'[c].at \in {"up", "failed"}
  BY <1>1, <1>2 DEF Inv, BridgeTypeOK, Nas
<1>6. BridgeTypeOK'
  BY <1>2, <1>3, <1>4 DEF Inv, BridgeTypeOK, bridge, users
<1>7. SessionInv' /\ NasInv' /\ RequestInv' /\ ReplyInv'
  <2>1. SessionInv' /\ NasInv' /\ ReplyInv'
    BY <1>2, <1>3, <1>4 DEF Inv, SessionInv, NasInv, ReplyInv, Own, bridge,
           users
  <2>2. \A r \in requests : r.conv \in Conv
    BY DEF Inv, BridgeTypeOK, AccessRequest
  <2> QED
    BY <1>3, <1>4, <2>1, <2>2 DEF Inv, RequestInv
<1>8. UpInv'
  <2>1. p.result = "accept" => p.vector = key[c] /\ Own(c, key[c])
    BY <1>2 DEF Inv, ReplyInv
  <2> QED
    BY <1>3, <1>4, <1>5, <2>1 DEF Inv, UpInv, Own, bridge, users
<1>9. OnceInv'
  <2> SUFFICES ASSUME NEW d \in Conv, key[d] # 0, <<d, 2>> \notin again
               PROVE  nas'[d].at # "failed" /\ nas'[d].at # "idle"
    BY <1>2, <1>3, <1>4 DEF Inv, OnceInv, bridge, users
  <2>1. CASE d # c
    BY <1>4, <2>1 DEF Inv, OnceInv
  <2>2. CASE d = c
    <3>1. p.no = 2
      BY <1>2, <2>2 DEF Inv, NasInv
    <3>2. p.result # "reject"
      BY <1>2, <2>2, <3>1 DEF Inv, OnceInv
    <3> QED
      BY <1>5, <2>2, <3>2
  <2> QED
    BY <2>1, <2>2
<1>10. FreshInv'
  BY <1>2, <1>3, <1>4 DEF Inv, FreshInv, bridge
<1> QED
  BY <1>6, <1>7, <1>8, <1>9, <1>10 DEF Inv

\* The UE answers the first challenge that reaches it: with RES it takes the
\* keys of that vector, with anything else it has none.
LEMMA ChallengedInv ==
  ASSUME Inv, NEW c \in Conv, TakeChallenge(c)
  PROVE  Inv'
<1>1. PICK p \in replies :
        Comes(c, p) /\ p.result = "challenge" /\ RunAka(c, p)
  BY DEF TakeChallenge
<1>2. /\ p \in AccessReply
      /\ p.conv = c
      /\ p.no = nas[c].request.no
      /\ nas[c].at = "wait"
      /\ replies' \subseteq replies
      /\ nas[c] \in Nas
      /\ nas[c].ue \in User
  BY <1>1, ReplyKnown
<1>3. /\ p.no = 1
      /\ p.state = p.vector
      /\ Own(c, p.vector)
  BY <1>1, <1>2 DEF Inv, ReplyInv
<1>4. key[c] = 0 /\ nas[c].request = Identity(c)
  BY <1>2, <1>3 DEF Inv, NasInv
<1>5. UNCHANGED <<bridge, again>>
  BY DEF TakeChallenge
<1>6. PICK kind \in Kind \ {"identity"}, value \in Nat :
        /\ UeAnswers(c, p, kind, value)
        /\ \/ /\ kind = "res"
              /\ value = p.vector
              /\ usim' = [usim EXCEPT ![nas[c].ue] = vectors[p.vector].sqn]
              /\ key' = [key EXCEPT ![c] = p.vector]
           \/ kind # "res" /\ UNCHANGED users
  <2>1. /\ p.vector \in Nat
        /\ usim[nas[c].ue] \in Nat
    BY <1>2 DEF AccessReply, Inv, BridgeTypeOK
  <2>2. \A style \in Styles : style \in Kind \ {"identity", "res"}
    BY BridgeAssumption DEF Kind
  <2>3. {"res", "error"} \subseteq Kind \ {"identity"} /\ 0 \in Nat
    BY DEF Kind
  <2> QED
    BY <1>1, <2>1, <2>2, <2>3 DEF RunAka
<1> DEFINE r == [conv |-> c, no |-> 2, kind |-> kind, state |-> p.state,
                 value |-> value]
<1>7. /\ r \in AccessRequest
      /\ nas' = [nas EXCEPT ![c] = [nas[c] EXCEPT !.request = r, !.sends = 1]]
      /\ requests' = requests \cup {r}
  <2>1. r \in AccessRequest
    BY <1>2, <1>6 DEF AccessRequest, AccessReply
  <2>2. UeAnswers(c, p, kind, value)
    BY <1>6
  <2>3. p.no + 1 = 2
    BY <1>3
  <2>4. /\ nas' = [nas EXCEPT ![c].request = r, ![c].sends = 1]
        /\ requests' = requests \cup {r}
    BY <2>2, <2>3 DEF UeAnswers
  <2> QED
    BY <2>1, <2>4 DEF Inv, BridgeTypeOK
<1>8. /\ nas' \in [Conv -> Nas]
      /\ nas'[c].request = r
      /\ nas'[c].at = "wait"
      /\ \A d \in Conv \ {c} : nas'[d] = nas[d]
  <2>1. [nas[c] EXCEPT !.request = r, !.sends = 1] \in Nas
    BY <1>2, <1>7 DEF Nas
  <2> QED
    BY <1>2, <1>7, <2>1 DEF Inv, BridgeTypeOK, Nas
<1>9. /\ key' \in [Conv -> Nat]
      /\ usim' \in [User -> Nat]
      /\ key'[c] = IF kind = "res" THEN p.vector ELSE 0
      /\ \A d \in Conv \ {c} : key'[d] = key[d]
  <2>1. p.vector \in 1 .. Len(vectors)
    BY <1>3, Domains DEF Own, Inv
  <2>2. vectors[p.vector] \in [conv : Conv, sqn : Nat]
    BY <2>1, ElementOfSeq DEF Inv, BridgeTypeOK
  <2>3. p.vector \in Nat /\ vectors[p.vector].sqn \in Nat
    BY <1>2, <2>2 DEF AccessReply
  <2> QED
    BY <1>2, <1>4, <1>6, <2>3 DEF Inv, BridgeTypeOK, users
<1>10. BridgeTypeOK'
  BY <1>2, <1>5, <1>7, <1>8, <1>9 DEF Inv, BridgeTypeOK, bridge
<1>11. SessionInv' /\ (\A d, n : Own(d, n)' <=> Own(d, n))
  BY <1>5 DEF Inv, SessionInv, Own, bridge
<1>12. p.vector # 0
  BY <1>3, Domains DEF Inv, Own, BridgeTypeOK
<1>13. NasInv'
  <2> SUFFICES ASSUME NEW d \in Conv
               PROVE  LET q == nas'[d].request
                      IN  /\ q.conv = d
                          /\ q.no = 1 => q = Identity(d) /\ key'[d] = 0
                          /\ q.no # 1 => /\ q.no = 2
                                         /\ q.kind # "identity"
                                         /\ Own(d, q.state)
                          /\ key'[d] # 0 => /\ q.kind = "res"
                                            /\ q.value = key'[d]
                                            /\ q.state = key'[d]
                          /\ q.kind = "res" => key'[d] # 0
    BY <1>11 DEF NasInv, Identity
  <2>1. CASE d = c
    BY <1>3, <1>6, <1>8, <1>9, <1>12, <2>1
  <2>2. CASE d # c
    BY <1>8, <1>9, <2>2 DEF Inv, NasInv
  <2> QED
    BY <2>1, <2>2
<1>14. RequestInv'
  <2> SUFFICES ASSUME NEW q \in requests'
               PROVE  q = Identity(q.conv) \/ q = nas'[q.conv].request
    BY DEF RequestInv, Identity
  <2>1. CASE q = r
    BY <1>8, <2>1
  <2>2. CASE q \in requests
    <3>1. q.conv \in Conv
      BY <2>2 DEF Inv, BridgeTypeOK, AccessRequest
    <3>2. q = Identity(q.conv) \/ q = nas[q.conv].request
      BY <2>2 DEF Inv, RequestInv
    <3> QED
      BY <1>4, <1>8, <3>1, <3>2
  <2> QED
    BY <1>7, <2>1, <2>2
<1>15. ReplyInv'
  <2> SUFFICES ASSUME NEW q \in replies
               PROVE  /\ q.result = "challenge" => /\ q.no = 1
                                                   /\ q.state = q.vector
                                                   /\ Own(q.conv, q.vector)
                      /\ q.result = "accept" => /\ q.vector = key'[q.conv]
                                                /\ Own(q.conv, q.vector)
    BY <1>2, <1>11 DEF ReplyInv
  <2>1. q.conv \in Conv
    BY DEF Inv, BridgeTypeOK, AccessReply
\* An accept of c would be for keys that its UE does not have yet.
  <2>2. q.result = "accept" => q.conv # c
    BY <1>4, Domains DEF Inv, BridgeTypeOK, ReplyInv, Own
  <2> QED
    BY <1>9, <2>1, <2>2 DEF Inv, ReplyInv
<1>16. UpInv'
  BY <1>8, <1>9, <1>11 DEF Inv, UpInv
<1>17. OnceInv'
  <2> SUFFICES ASSUME NEW d \in Conv, key'[d] # 0, <<d, 2>> \notin again
               PROVE  /\ nas'[d].request \in requests'
                            => akaSessions[key'[d]] = key'[d]
                      /\ \A q \in replies :
                           q.conv = d /\ q.no = 2 => q.result # "reject"
                      /\ nas'[d].at # "failed"
                      /\ nas'[d].at # "idle"
    BY <1>2, <1>5 DEF OnceInv, bridge
  <2>1. CASE d # c
    <3>1. nas[d].request.conv = d
      BY DEF Inv, NasInv
    <3>2. nas'[d].request \in requests' => nas[d].request \in requests
      BY <1>7, <1>8, <2>1, <3>1
    <3> QED
      BY <1>8, <1>9, <2>1, <3>2 DEF Inv, OnceInv
  <2>2. CASE d = c
    <3>1. /\ akaSessions[p.vector] = p.vector
          /\ \A q \in replies : q.conv = c => q.no = 1
      BY <1>2, <1>3 DEF Inv, FreshInv, Own
    <3>2. key'[c] = p.vector
      BY <1>9, <2>2
    <3> QED
      BY <1>8, <2>2, <3>1, <3>2
  <2> QED
    BY <2>1, <2>2
<1>18. FreshInv'
  <2> SUFFICES ASSUME NEW d \in Conv \ {c}, nas[d].request.no = 1
               PROVE  /\ \A q \in replies : q.conv = d => q.no = 1
                      /\ \A n \in DOMAIN vectors :
                           vectors[n].conv = d => akaSessions[n] = n
    BY <1>2, <1>5, <1>8 DEF FreshInv, bridge
  <2> QED
    BY DEF Inv, FreshInv
<1> QED
  BY <1>10, <1>11, <1>13, <1>14, <1>15, <1>16, <1>17, <1>18 DEF Inv

-----------------------------------------------------------------------------
LEMMA NextInv == Inv /\ [BridgeNext]_bridgeVars => Inv'
<1> SUFFICES ASSUME Inv, [BridgeNext]_bridgeVars
             PROVE  Inv'
  OBVIOUS
<1>1. ASSUME NEW r \in requests, HandleAuthPacket(r)
      PROVE  Inv'
  BY <1>1, HandleInv
<1>2. ASSUME NEW c \in Conv, Begin(c) \/ Resend(c) \/ GiveUp(c)
      PROVE  Inv'
  BY <1>2, SendInv
<1>3. ASSUME NEW c \in Conv, TakeChallenge(c)
      PROVE  Inv'
  BY <1>3, ChallengedInv
<1>4. ASSUME NEW c \in Conv, TakeAccept(c) \/ TakeReject(c)
      PROVE  Inv'
  BY <1>4, DecidedInv
<1>5. CASE UNCHANGED bridgeVars
  BY <1>5 DEF bridgeVars, Inv, BridgeTypeOK, SessionInv, NasInv, RequestInv,
              ReplyInv,
              UpInv, OnceInv, FreshInv, Own
<1> QED
  BY <1>1, <1>2, <1>3, <1>4, <1>5 DEF BridgeNext

LEMMA Invariance == BridgeSpec => []Inv
<1>1. BridgeInit => Inv
  BY InitInv
<1>2. Inv /\ [BridgeNext]_bridgeVars => Inv'
  BY NextInv
<1> QED
  BY <1>1, <1>2, PTL DEF BridgeSpec

\* Type correctness of the bridge, charon and the messages between them.
THEOREM BridgeTypes == BridgeSpec => []BridgeTypeOK
<1>1. Inv => BridgeTypeOK
  BY DEF Inv
<1> QED
  BY <1>1, Invariance, PTL

\* HandleAuthPacket, phase 2: charon and the UE it lets in hold the same keys,
\* from a vector of this authentication.
THEOREM SameKeys == BridgeSpec => []KeysAgree
<1>1. Inv => KeysAgree
  <2> SUFFICES ASSUME Inv, NEW c \in Conv, nas[c].at = "up"
               PROVE  /\ nas[c].keys = key[c]
                      /\ key[c] # 0
                      /\ vectors[key[c]].conv = c
    BY DEF KeysAgree
  <2>1. nas[c].keys = key[c] /\ Own(c, key[c])
    BY DEF Inv, UpInv
  <2>2. key[c] # 0
    BY <2>1, Domains DEF Inv, Own, BridgeTypeOK
  <2> QED
    BY <2>1, <2>2 DEF Own
<1> QED
  BY <1>1, Invariance, PTL

\* HandleAuthPacket, phase 2: a UE that answered with RES is refused only
\* when charon had to send that answer again.
THEOREM AdmittedOnce == BridgeSpec => []SoundAdmitted
<1>1. Inv => SoundAdmitted
  <2> SUFFICES ASSUME Inv, NEW c \in Conv, nas[c].at = "failed", key[c] # 0
               PROVE  <<c, nas[c].request.no>> \in again
    BY DEF SoundAdmitted
  <2>1. nas[c].request.no = 2
    BY DEF Inv, NasInv
  <2>2. <<c, 2>> \in again
    BY DEF Inv, OnceInv
  <2> QED
    BY <2>1, <2>2
<1> QED
  BY <1>1, Invariance, PTL

-----------------------------------------------------------------------------
(***************************************************************************)
(* No session is left behind.                                              *)
(***************************************************************************)
VectorsOf(c) == {n \in DOMAIN vectors : vectors[n].conv = c}

\* An authentication whose identity was sent once has no vector before the
\* bridge has read it and one at most after; that vector is the one the UE
\* answers, and its session is gone once that answer was answered.
SpentOf(c) ==
  LET place   == nas[c].at
      r       == nas[c].request
      answers == {p \in replies : p.conv = c}
  IN  /\ place = "idle" \/ Identity(c) \in requests =>
           r.no = 1 /\ VectorsOf(c) = {} /\ answers = {}
      /\ place = "idle" => Identity(c) \notin requests
      /\ Identity(c) \in requests => place \in {"wait", "timeout"}
      /\ \A m, n \in VectorsOf(c) : m = n
      /\ r.no = 1 =>
           /\ place # "up"
           /\ place = "failed" \/ (\E p \in answers : p.result = "reject")
                => VectorsOf(c) = {}
      /\ r.no # 1 =>
           /\ VectorsOf(c) \subseteq {r.state}
           /\ place \in {"up", "failed"} \/ (\E p \in answers : p.no = 2)
                => akaSessions[r.state] = 0

SpentInv == \A c \in Conv : <<c, 1>> \notin again => SpentOf(c)

LEMMA SpentKept ==
  ASSUME NEW c, SpentOf(c), nas'[c].request = nas[c].request,
         \/ nas'[c].at = nas[c].at
         \/ nas[c].at = "wait" /\ nas'[c].at = "timeout",
         VectorsOf(c)' = VectorsOf(c),
         Identity(c) \in requests' <=> Identity(c) \in requests,
         {p \in replies' : p.conv = c} = {p \in replies : p.conv = c},
         LET s == nas[c].request.state
         IN  nas[c].request.no # 1 /\ akaSessions[s] = 0 => akaSessions'[s] = 0
  PROVE  SpentOf(c)'
BY DEF SpentOf, Identity

\* What the steps of the bridge do to the State of a vector there is.
LEMMA SessionsGo ==
  ASSUME Inv, NEW r \in requests, HandleAuthPacket(r)
  PROVE  /\ \A n \in DOMAIN vectors :
              akaSessions[n] = 0 => akaSessions'[n] = 0
         /\ r.kind # "identity" => /\ akaSessions'[r.state] = 0
                                   /\ UNCHANGED vectors
<1>1. /\ DOMAIN akaSessions = DOMAIN vectors
      /\ DOMAIN vectors = 1 .. Len(vectors)
      /\ Len(vectors) \in Nat
  BY Domains DEF Inv, BridgeTypeOK
<1>2. r.kind # "identity" => r.state \in DOMAIN akaSessions
  BY RequestKnown
<1>3. CASE Challenge(r)
  <2>1. akaSessions' = Opened(r) /\ r.kind = "identity"
    BY <1>3 DEF Challenge
  <2>2. \A n \in DOMAIN vectors : akaSessions'[n] = akaSessions[n]
    BY <1>1, <2>1 DEF Opened, NewState
  <2>3. QED
    BY <2>1, <2>2
<1>4. CASE FetchFail(r)
  BY <1>4 DEF FetchFail
<1>5. CASE StateNotFound(r)
  BY <1>5 DEF StateNotFound
<1>6. CASE Refuse(r) \/ Resync(r) \/ Accept(r)
  <2>1. /\ akaSessions' = [akaSessions EXCEPT ![r.state] = 0]
        /\ UNCHANGED vectors
        /\ r.kind # "identity"
    BY <1>6 DEF Refuse, Resync, Accept, Pop, Known
  <2>2. QED
    BY <1>1, <1>2, <2>1
<1>7. QED
  BY <1>3, <1>4, <1>5, <1>6 DEF HandleAuthPacket

LEMMA HandleSpent ==
  ASSUME Inv, NEW r \in requests, HandleAuthPacket(r),
         NEW c \in Conv, SpentOf(c)
  PROVE  SpentOf(c)'
<1>1. /\ UNCHANGED nas
      /\ r.conv \in Conv
      /\ r.kind = "identity" => r.no = 1
      /\ r.kind # "identity" => r.no = 2 /\ r = nas[r.conv].request
  BY RequestKnown DEF HandleAuthPacket, AccessRequest
<1>2. nas[c].request.no # 1 => Own(c, nas[c].request.state)
  BY DEF Inv, NasInv
<1>3. PICK p :
        /\ requests' = requests \ {r}
        /\ replies' = replies \cup {p}
        /\ p.conv = r.conv /\ p.no = r.no
        /\ p.result = "reject" \/ Challenge(r) \/ r.kind # "identity"
  <2>1. PICK result, state, n :
          /\ Answer(r, result, state, n)
          /\ result = "reject" \/ Challenge(r) \/ r.kind # "identity"
    BY DEF HandleAuthPacket, Challenge, FetchFail, StateNotFound, Refuse,
           Resync, Accept, Known, Reject
  <2> DEFINE p == [conv |-> r.conv, no |-> r.no, result |-> result,
                   state |-> state, vector |-> n]
  <2>2. /\ requests' = requests \ {r}
        /\ replies' = replies \cup {p}
    BY <2>1 DEF Answer
  <2>3. /\ p.conv = r.conv /\ p.no = r.no
        /\ p.result = "reject" \/ Challenge(r) \/ r.kind # "identity"
    BY <2>1
  <2> HIDE DEF p
  <2>4. QED
    BY <2>2, <2>3
<1>4. /\ VectorsOf(c)' =
           IF Challenge(r) /\ r.conv = c
           THEN VectorsOf(c) \cup {Len(vectors) + 1} ELSE VectorsOf(c)
      /\ Challenge(r) => r.kind = "identity"
      /\ ~Challenge(r) => UNCHANGED vectors
  <2>1. ~Challenge(r) => UNCHANGED vectors
    BY DEF HandleAuthPacket, FetchFail, StateNotFound, Refuse, Resync, Accept
  <2>2. CASE Challenge(r)
    <3>1. /\ vectors' = Append(vectors, [conv |-> r.conv,
                                         sqn |-> row[UeOf(r)]])
          /\ r.kind = "identity"
      BY <2>2 DEF Challenge
    <3>2. /\ DOMAIN vectors' = DOMAIN vectors \cup {Len(vectors) + 1}
          /\ vectors'[Len(vectors) + 1].conv = r.conv
          /\ \A n \in DOMAIN vectors : vectors'[n] = vectors[n]
      BY <3>1 DEF Inv, BridgeTypeOK
    <3>3. Len(vectors) + 1 \notin DOMAIN vectors
      BY Domains DEF Inv, BridgeTypeOK
    <3>4. QED
      BY <2>2, <3>1, <3>2, <3>3 DEF VectorsOf
  <2>3. QED
    BY <2>1, <2>2 DEF VectorsOf
<1>5. CASE r.conv # c
  <2>1. r # Identity(c)
    BY <1>5 DEF Identity
  <2>2. nas[c].request.no # 1 => nas[c].request.state \in DOMAIN vectors
    BY <1>2 DEF Own
  <2>3. {q \in replies' : q.conv = c} = {q \in replies : q.conv = c}
    BY <1>3, <1>5
  <2>4. QED
    BY <1>1, <1>3, <1>4, <1>5, <2>1, <2>2, <2>3, SessionsGo, SpentKept
<1>6. CASE r.conv = c /\ r.kind = "identity"
  <2>1. r = Identity(c)
    BY <1>1, <1>6 DEF Inv, RequestInv, NasInv
  <2>2. /\ nas[c].request.no = 1
        /\ nas[c].at \in {"wait", "timeout"}
        /\ VectorsOf(c) = {}
        /\ {q \in replies : q.conv = c} = {}
    BY <2>1 DEF SpentOf
  <2>3. {q \in replies' : q.conv = c} = {p}
    BY <1>3, <1>6, <2>2
  <2>4. \A m, n \in VectorsOf(c)' : m = n
    BY <1>4, <2>2
  <2>5. p.result = "reject" \/ Challenge(r)
    BY <1>3, <1>6
  <2>6. Challenge(r) => p.result = "challenge"
    BY <1>3, <2>2, <1>6 DEF Challenge, Answer
  <2>7. QED
    BY <1>1, <1>3, <1>4, <2>1, <2>2, <2>3, <2>4, <2>5, <2>6
       DEF SpentOf, Identity
<1>7. CASE r.conv = c /\ r.kind # "identity"
  <2>1. r = nas[c].request /\ r.no = 2 /\ r # Identity(c)
    BY <1>1, <1>7 DEF Identity
  <2>2. akaSessions'[r.state] = 0 /\ VectorsOf(c)' = VectorsOf(c)
    BY <1>4, <1>7, SessionsGo
  <2>3. \A q \in replies' : q \in replies \/ q = p
    BY <1>3
  <2>4. Identity(c) \notin requests
    BY <2>1 DEF SpentOf
  <2>5. nas[c].at # "idle"
    BY <2>1 DEF SpentOf
  <2>6. QED
    BY <1>1, <1>3, <2>1, <2>2, <2>3, <2>4, <2>5 DEF SpentOf, Identity
<1>8. QED
  BY <1>5, <1>6, <1>7

\* Of the identity, Begin sends the first and Resend the others.
LEMMA SendSpent ==
  ASSUME Inv, NEW d \in Conv, Begin(d) \/ Resend(d) \/ GiveUp(d),
         NEW c \in Conv, <<c, 1>> \notin again', SpentOf(c)
  PROVE  SpentOf(c)'
<1>1. /\ UNCHANGED <<akaSessions, vectors, replies>>
      /\ VectorsOf(c)' = VectorsOf(c)
      /\ nas \in [Conv -> Nas]
      /\ \A e \in Conv : nas[e].request.conv = e
  BY DEF Begin, Resend, GiveUp, bridge, VectorsOf, Inv, BridgeTypeOK, NasInv
<1>2. CASE d # c
  <2>1. nas'[c] = nas[c]
    BY <1>1, <1>2 DEF Begin, Resend, GiveUp
  <2>2. nas[d].request # Identity(c)
    BY <1>1, <1>2 DEF Identity
  <2>3. Identity(c) \in requests' <=> Identity(c) \in requests
    BY <2>2 DEF Begin, Resend, GiveUp
  <2>4. QED
    BY <1>1, <2>1, <2>3, SpentKept
<1>3. CASE d = c /\ Begin(c)
  <2>1. /\ nas'[c].at = "wait"
        /\ nas'[c].request = nas[c].request
        /\ nas[c].at = "idle"
    BY <1>1, <1>3 DEF Begin, Nas
  <2>2. /\ nas[c].request.no = 1
        /\ VectorsOf(c) = {}
        /\ {p \in replies : p.conv = c} = {}
    BY <2>1 DEF SpentOf
  <2>3. QED
    BY <1>1, <2>1, <2>2 DEF SpentOf, Identity
<1>4. CASE d = c /\ Resend(c)
  <2>1. nas'[c].at = nas[c].at /\ nas'[c].request = nas[c].request
    BY <1>1, <1>4 DEF Resend, Nas
  <2>2. nas[c].request.no # 1 /\ requests' = requests \cup {nas[c].request}
    BY <1>4 DEF Resend
  <2>3. nas[c].request # Identity(c)
    BY <2>2 DEF Identity
  <2>4. QED
    BY <1>1, <2>1, <2>2, <2>3, SpentKept
<1>5. CASE d = c /\ GiveUp(c)
  <2>1. /\ nas[c].at = "wait" /\ nas'[c].at = "timeout"
        /\ nas'[c].request = nas[c].request
        /\ UNCHANGED requests
    BY <1>1, <1>5 DEF GiveUp, Nas
  <2>2. QED
    BY <1>1, <2>1, SpentKept
<1>6. QED
  BY <1>2, <1>3, <1>4, <1>5

\* charon takes an answer: the challenge of the one vector, or the end.
LEMMA TakeSpent ==
  ASSUME Inv, NEW d \in Conv,
         TakeChallenge(d) \/ TakeAccept(d) \/ TakeReject(d),
         NEW c \in Conv, SpentOf(c)
  PROVE  SpentOf(c)'
<1>1. PICK p \in replies :
        /\ Comes(d, p)
        /\ \/ p.result = "challenge" /\ RunAka(d, p)
           \/ /\ p.result = "accept" /\ UNCHANGED requests
              /\ nas' = [nas EXCEPT ![d].at = "up", ![d].keys = p.vector]
           \/ /\ p.result = "reject" /\ UNCHANGED requests
              /\ nas' = [nas EXCEPT ![d].at = "failed"]
  BY DEF TakeChallenge, TakeAccept, TakeReject
<1>2. /\ UNCHANGED <<akaSessions, vectors>>
      /\ VectorsOf(c)' = VectorsOf(c)
  BY DEF TakeChallenge, TakeAccept, TakeReject, bridge, VectorsOf
<1>3. /\ p.conv = d
      /\ p.no = nas[d].request.no
      /\ nas[d].at = "wait"
      /\ nas \in [Conv -> Nas]
      /\ p \in AccessReply
      /\ replies' = {q \in replies : q.conv # d}
  BY <1>1, ReplyKnown DEF Comes, Inv, BridgeTypeOK
<1>4. p.result = "challenge" => \E kind, value : UeAnswers(d, p, kind, value)
  BY <1>1 DEF RunAka
<1>5. CASE d # c
  <2>1. nas'[c] = nas[c]
    BY <1>1, <1>3, <1>4, <1>5 DEF UeAnswers
  <2>2. Identity(c) \in requests' <=> Identity(c) \in requests
    BY <1>1, <1>3, <1>4, <1>5 DEF UeAnswers, Identity
  <2>3. {q \in replies' : q.conv = c} = {q \in replies : q.conv = c}
    BY <1>3, <1>5
  <2>4. QED
    BY <1>2, <2>1, <2>2, <2>3, SpentKept
<1>6. CASE d = c
  <2>1. {q \in replies' : q.conv = c} = {} /\ Identity(c) \notin requests
    BY <1>3, <1>6 DEF SpentOf
  <2>2. CASE p.result = "challenge"
    <3>1. p.no = 1 /\ p.state = p.vector /\ p.vector \in VectorsOf(c)
      BY <1>3, <1>6, <2>2 DEF Inv, ReplyInv, Own, VectorsOf
    <3>2. PICK kind, value : UeAnswers(c, p, kind, value)
      BY <1>4, <1>6, <2>2
    <3>3. /\ nas'[c].at = "wait"
          /\ nas'[c].request.no = 2
          /\ nas'[c].request.state = p.vector
          /\ requests' = requests \cup {nas'[c].request}
      BY <1>3, <1>6, <3>1, <3>2 DEF UeAnswers, Nas
    <3>4. VectorsOf(c) \subseteq {p.vector}
      BY <3>1 DEF SpentOf
    <3>5. Identity(c) \notin requests'
      BY <2>1, <3>3 DEF Identity
    <3>6. QED
      BY <1>2, <2>1, <3>3, <3>4, <3>5 DEF SpentOf, Identity
  <2>3. CASE p.result = "accept"
    <3>1. key[c] # 0
      <4>1. p.vector = key[c] /\ p.vector \in DOMAIN vectors
        BY <1>3, <1>6, <2>3 DEF Inv, ReplyInv, Own
      <4>2. 0 \notin DOMAIN vectors
        BY Domains DEF Inv, BridgeTypeOK
      <4>3. QED
        BY <4>1, <4>2
    <3>2. nas[c].request.no # 1 /\ p.no = 2
      BY <1>3, <1>6, <3>1 DEF Inv, NasInv
    <3>3. nas'[c].at = "up" /\ nas'[c].request = nas[c].request
      BY <1>1, <1>3, <1>6, <2>3 DEF Nas
    <3>4. UNCHANGED requests
      BY <1>1, <2>3
    <3>5. akaSessions[nas[c].request.state] = 0
      BY <1>1, <1>3, <1>6, <3>2 DEF SpentOf
    <3>6. QED
      BY <1>2, <2>1, <3>2, <3>3, <3>4, <3>5 DEF SpentOf, Identity
  <2>4. CASE p.result = "reject"
    <3>1. nas'[c].at = "failed" /\ nas'[c].request = nas[c].request
      BY <1>1, <1>3, <1>6, <2>4 DEF Nas
    <3>2. UNCHANGED requests
      BY <1>1, <2>4
    <3>3. CASE nas[c].request.no = 1
      <4>1. VectorsOf(c) = {}
        BY <1>1, <1>3, <1>6, <2>4, <3>3 DEF SpentOf
      <4>2. QED
        BY <1>2, <2>1, <3>1, <3>2, <3>3, <4>1 DEF SpentOf, Identity
    <3>4. CASE nas[c].request.no # 1
      <4>1. p.no = 2
        BY <1>3, <1>6, <3>4 DEF Inv, NasInv
      <4>2. akaSessions[nas[c].request.state] = 0
        BY <1>1, <1>3, <1>6, <3>4, <4>1 DEF SpentOf
      <4>3. QED
        BY <1>2, <2>1, <3>1, <3>2, <3>4, <4>2 DEF SpentOf, Identity
    <3>5. QED
      BY <3>3, <3>4
  <2>5. QED
    BY <1>1, <2>2, <2>3, <2>4
<1>7. QED
  BY <1>5, <1>6

LEMMA NextSpent == Inv /\ SpentInv /\ [BridgeNext]_bridgeVars => SpentInv'
<1> SUFFICES ASSUME Inv, SpentInv, [BridgeNext]_bridgeVars,
                    NEW c \in Conv, <<c, 1>> \notin again'
             PROVE  SpentOf(c)'
  BY DEF SpentInv
<1>1. SpentOf(c)
  <2>1. again \subseteq again'
    BY DEF BridgeNext, HandleAuthPacket, Begin, Resend, GiveUp, TakeChallenge,
           TakeAccept, TakeReject, bridgeVars
  <2>2. QED
    BY <2>1 DEF SpentInv
<1>2. ASSUME NEW r \in requests, HandleAuthPacket(r)
      PROVE  SpentOf(c)'
  BY <1>1, <1>2, HandleSpent
<1>3. ASSUME NEW d \in Conv, Begin(d) \/ Resend(d) \/ GiveUp(d)
      PROVE  SpentOf(c)'
  BY <1>1, <1>3, SendSpent
<1>4. ASSUME NEW d \in Conv, TakeChallenge(d) \/ TakeAccept(d) \/ TakeReject(d)
      PROVE  SpentOf(c)'
  BY <1>1, <1>4, TakeSpent
<1>5. CASE UNCHANGED bridgeVars
  BY <1>1, <1>5 DEF bridgeVars, SpentOf, VectorsOf, Identity
<1>6. QED
  BY <1>2, <1>3, <1>4, <1>5 DEF BridgeNext

\* HandleAuthPacket: a session is left behind only by an authentication that
\* charon gave up, or whose identity it sent more than once.
THEOREM NoneLeftBehind == BridgeSpec => []SessionsSpent
<1>1. BridgeInit => SpentInv
  <2> SUFFICES ASSUME BridgeInit, NEW c \in Conv
               PROVE  SpentOf(c)
    BY DEF SpentInv
  <2>1. nas[c].at = "idle" /\ nas[c].request = Identity(c)
    BY DEF BridgeInit
  <2>2. VectorsOf(c) = {} /\ replies = {} /\ requests = {}
    BY DEF BridgeInit, VectorsOf
  <2>3. QED
    BY <2>1, <2>2 DEF SpentOf, Identity
<1>2. Inv /\ SpentInv => SessionsSpent
  <2> SUFFICES ASSUME Inv, SpentInv, NEW s \in DOMAIN akaSessions,
                      akaSessions[s] # 0,
                      nas[vectors[s].conv].at \notin {"wait", "timeout"},
                      <<vectors[s].conv, 1>> \notin again
               PROVE  FALSE
    BY DEF SessionsSpent
  <2> DEFINE c == vectors[s].conv
  <2>1. c \in Conv /\ s \in VectorsOf(c)
    <3>1. s \in DOMAIN vectors
      BY Domains DEF Inv
    <3>2. vectors[s] \in [conv : Conv, sqn : Nat]
      BY <3>1, Domains, ElementOfSeq DEF Inv, BridgeTypeOK
    <3>3. QED
      BY <3>1, <3>2 DEF VectorsOf
  <2>2. SpentOf(c) /\ nas[c] \in Nas
    BY <2>1 DEF SpentInv, Inv, BridgeTypeOK
  <2>3. nas[c].at \in {"up", "failed"}
    BY <2>1, <2>2 DEF SpentOf, Nas
  <2>4. nas[c].request.no # 1
    BY <2>1, <2>2, <2>3 DEF SpentOf
  <2>5. s = nas[c].request.state
    BY <2>1, <2>2, <2>4 DEF SpentOf
  <2>6. QED
    BY <2>2, <2>3, <2>4, <2>5 DEF SpentOf
<1>3. Inv /\ SpentInv /\ [BridgeNext]_bridgeVars => SpentInv'
  BY NextSpent
<1>4. QED
  BY <1>1, <1>2, <1>3, Invariance, PTL DEF BridgeSpec

=============================================================================
