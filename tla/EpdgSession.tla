---------------------------- MODULE EpdgSession ----------------------------
(***************************************************************************)
(* pyepdg: the session API (server.py, App), the session table             *)
(* (session.py, Store) and the calls it makes to the AAA, to strongSwan    *)
(* (ipsec.py, SwanctlBackend) and over S2b (s2b.py).                       *)
(*                                                                         *)
(* ThreadingHTTPServer runs every request in a thread of its own, and only *)
(* the table is locked, so the steps of a handler (one per external call   *)
(* or lock) interleave with those of the other threads.  The AAA, charon   *)
(* and the PGW are external: each call may succeed or raise, and what a    *)
(* swanctl call that timed out asked for may still be done by charon, at   *)
(* any later time.                                                         *)
(***************************************************************************)
EXTENDS Naturals, FiniteSets

CONSTANTS
  UE,          \* ue_id values
  IMSI,        \* imsi values
  Child,       \* names of CHILD_SA configurations in swanctl.conf
  Thread,      \* handler threads alive at once
  NoSession,   \* not a session: the table has no entry
  NoRequest,   \* not a request: what an idle thread serves
  NoChild,     \* not a child: the empty child_name of the configuration
  ChildNames,  \* the values of ipsec.child_name considered: a child for all
               \* UEs (the default and the shipped files), or NoChild
  CleanName,   \* [UE -> Child]: child_prefix and the sanitised ue_id
  Modes,       \* the values of ipsec.mode considered
  Careful,     \* the UEs whose clients keep at most one request in flight
  Restarts,    \* may the process restart?
  MaxClock,    \* bound: the clock stops there
  MaxUnfinished \* bound: swanctl commands charon still works on at once

ASSUME ConfigAssumption ==
  /\ ChildNames \subseteq Child \cup {NoChild}
  /\ NoChild \notin Child
  /\ CleanName \in [UE -> Child]
  /\ IMSI # {}
  /\ Modes \subseteq {"active", "passive"}
  /\ Careful \subseteq UE
  /\ Restarts \in BOOLEAN
  /\ MaxClock \in Nat
  /\ MaxUnfinished \in Nat

Status == {"pending", "up"}     \* SessionStatus.down is never assigned
Time == 0 .. MaxClock

Session == [imsi : IMSI, status : Status, created_at : Time, updated_at : Time]

\* A request a thread serves: its payload and the handler's locals; history,
\* vectors: the IMSIs for which the AAA has answered it with vectors.
Arg == [ue : UE, imsi : IMSI, status : Status, now : Time,
        vectors : SUBSET IMSI]

Request(ue, imsi) ==
  [ue |-> ue, imsi |-> imsi, status |-> "pending", now |-> 0, vectors |-> {}]

ASSUME NullAssumption == NoSession \notin Session /\ NoRequest \notin Arg

\* Where a handler thread is: the call or the lock it is about to enter.
Place == {"idle", "authorize", "create_child_sa", "create_session",
          "compensate", "now", "upsert", "delete_child_sa", "delete"}

\* What swanctl asks of charon for a UE.
Command == [op : {"initiate", "terminate"}, ue : UE]
Initiate(ue) == [op |-> "initiate", ue |-> ue]
Terminate(ue) == [op |-> "terminate", ue |-> ue]

\* What last happened to the SA of a UE: a handler put it up or took it down
\* as asked, took it down because S2b refused the create, or failed to and
\* left it; charon did as asked after swanctl had timed out; the SA was lost;
\* another UE's terminate named its child; the process was restarted.
Cause == {"asked", "s2b", "swanctl", "late", "lost", "shared", "restart"}

VARIABLES
  mode,        \* ipsec.mode, fixed when the process starts
  child_name,  \* ipsec.child_name, likewise
  sessions,    \* [UE -> Session or NoSession]: Store._sessions
  at,          \* [Thread -> Place]
  arg,         \* [Thread -> Arg or NoRequest]
  clock,       \* the wall clock that datetime.now reads
  sa,          \* external: the UEs with a CHILD_SA installed in charon
  unfinished,  \* external: commands charon may still carry out although the
               \* swanctl that sent them has timed out or died
  cause        \* history, [UE -> Cause]: what last happened to the SA of a UE
               \* in Careful

config == <<mode, child_name>>
vars == <<config, sessions, at, arg, clock, sa, unfinished, cause>>

(***************************************************************************)
(* Initially the table is empty and every thread slot is free.             *)
(***************************************************************************)
Init ==
  /\ mode \in Modes
  /\ child_name \in ChildNames
  /\ sessions = [u \in UE |-> NoSession]
  /\ at = [t \in Thread |-> "idle"]
  /\ arg = [t \in Thread |-> NoRequest]
  /\ clock = 0
  /\ sa = {}
  /\ unfinished = {}
  /\ cause = [u \in UE |-> "asked"]

-----------------------------------------------------------------------------
\* SwanctlBackend._child_name, and the UEs whose SAs a --terminate of this
\* UE's child takes down: charon knows the children by that name only.
ChildNameOf(ue) == IF child_name # NoChild THEN child_name ELSE CleanName[ue]

\* Mutant: a --terminate of the connection, not of the child.
SameConnection(ue) == UE

SameChild(ue) == {u \in UE : ChildNameOf(u) = ChildNameOf(ue)}

Busy(ue) == \E t \in Thread : at[t] # "idle" /\ arg[t].ue = ue
Admitted(ue) == ue \in Careful => ~Busy(ue)

Goto(t, place) == at' = [at EXCEPT ![t] = place]

\* A handler returns: the answer goes out and the thread ends with its locals.
Reply(t) ==
  /\ Goto(t, "idle")
  /\ arg' = [arg EXCEPT ![t] = NoRequest]

Because(why, ues) ==
  cause' = [u \in UE |-> IF u \in ues \cap Careful THEN why ELSE cause[u]]

\* A swanctl that times out or dies may leave its command with charon.
Abandon(commands) ==
  \E left \in SUBSET commands :
    /\ Cardinality(unfinished \cup left) <= MaxUnfinished
    /\ unfinished' = unfinished \cup left

-----------------------------------------------------------------------------
(***************************************************************************)
(* POST /v1/sessions/create                                                *)
(***************************************************************************)

\* A payload without ue_id, imsi or apn is answered 400 and changes nothing.
StartCreate(t, ue, imsi) ==
  /\ at[t] = "idle"
  /\ Admitted(ue)
  /\ Goto(t, "authorize")
  /\ arg' = [arg EXCEPT ![t] = Request(ue, imsi)]
  /\ UNCHANGED <<sessions, clock, sa, unfinished, cause>>

\* PyHSSClient.authorize: the ping and the vectors; any exception is a 502.
AuthorizeOk(t) ==
  /\ at[t] = "authorize"
  /\ arg' = [arg EXCEPT ![t].vectors = {arg[t].imsi}]
  /\ Goto(t, "create_child_sa")
  /\ UNCHANGED <<sessions, clock, sa, unfinished, cause>>

AuthorizeFail(t) ==
  /\ at[t] = "authorize"
  /\ Reply(t)
  /\ UNCHANGED <<sessions, clock, sa, unfinished, cause>>

\* swanctl --initiate, active mode only.
InitiateOk(t) ==
  /\ at[t] = "create_child_sa"
  /\ mode = "active"
  /\ sa' = sa \cup {arg[t].ue}
  /\ Because("asked", {arg[t].ue})
  /\ Goto(t, "create_session")
  /\ UNCHANGED <<sessions, arg, clock, unfinished>>

\* A non-zero exit, or TimeoutExpired with charon still at work on it.
InitiateFail(t) ==
  /\ at[t] = "create_child_sa"
  /\ mode = "active"
  /\ Abandon({Initiate(arg[t].ue)})
  /\ Reply(t)
  /\ UNCHANGED <<sessions, clock, sa, cause>>

\* swanctl --load-all, then PendingError: the UE is to bring the SA up.
LoadAllOk(t) ==
  /\ at[t] = "create_child_sa"
  /\ mode = "passive"
  /\ Goto(t, "now")
  /\ arg' = [arg EXCEPT ![t].status = "pending"]
  /\ UNCHANGED <<sessions, clock, sa, unfinished, cause>>

LoadAllFail(t) ==
  /\ at[t] = "create_child_sa"
  /\ mode = "passive"
  /\ Reply(t)
  /\ UNCHANGED <<sessions, clock, sa, unfinished, cause>>

\* s2b.create_session: the GTPv2 echo is answered, or it raises.
CreateSessionOk(t) ==
  /\ at[t] = "create_session"
  /\ Goto(t, "now")
  /\ arg' = [arg EXCEPT ![t].status = "up"]
  /\ UNCHANGED <<sessions, clock, sa, unfinished, cause>>

CreateSessionFail(t) ==
  /\ at[t] = "create_session"
  /\ Goto(t, "compensate")
  /\ UNCHANGED <<sessions, arg, clock, sa, unfinished, cause>>

\* swanctl --terminate: succeeds only when an SA of that child is there.
TerminateOk(ue, why) ==
  /\ SameChild(ue) \cap sa # {}
  /\ sa' = sa \ SameChild(ue)
  /\ cause' = [u \in UE |-> IF u \notin Careful \cap (sa \ sa') THEN cause[u]
                            ELSE IF u = ue THEN why ELSE "shared"]
  /\ UNCHANGED unfinished

\* It fails, or times out with charon still at work on it.
TerminateFail(ue) ==
  /\ Abandon({Terminate(ue)})
  /\ UNCHANGED sa

\* Mutants: no compensation; a compensation whose failure is not caught.
CompensateNothing(t) ==
  /\ at[t] = "compensate"
  /\ Reply(t)
  /\ UNCHANGED <<sessions, clock, sa, unfinished, cause>>

CompensateUncaught(t) ==
  /\ at[t] = "compensate"
  /\ TerminateOk(arg[t].ue, "s2b")
  /\ Reply(t)
  /\ UNCHANGED <<sessions, clock>>

\* The compensating delete_child_sa; its own failure is swallowed.
Compensate(t) ==
  /\ at[t] = "compensate"
  /\ \/ TerminateOk(arg[t].ue, "s2b")
     \/ /\ TerminateFail(arg[t].ue)
        /\ Because("swanctl", {arg[t].ue} \cap sa)
  /\ Reply(t)
  /\ UNCHANGED <<sessions, clock>>

\* Store.upsert reads the clock before it takes the lock ...
UpsertNow(t) ==
  /\ at[t] = "now"
  /\ arg' = [arg EXCEPT ![t].now = clock]
  /\ Goto(t, "upsert")
  /\ UNCHANGED <<sessions, clock, sa, unfinished, cause>>

\* Mutants: an upsert that forgets updated_at, or keeps the old IMSI too.
StoredStale(t) ==
  [imsi |-> arg[t].imsi, status |-> arg[t].status,
   created_at |-> arg[t].now, updated_at |-> 0]

StoredOldImsi(t) ==
  LET existing == sessions[arg[t].ue]
      kept == existing # NoSession
  IN  [imsi |-> IF kept THEN existing.imsi ELSE arg[t].imsi,
       status |-> arg[t].status, updated_at |-> arg[t].now,
       created_at |-> IF kept THEN existing.created_at ELSE arg[t].now]

\* ... and under the lock keeps the created_at of an existing entry.
Stored(t) ==
  LET a == arg[t]
      existing == sessions[a.ue]
  IN  [imsi |-> a.imsi, status |-> a.status, updated_at |-> a.now,
       created_at |-> IF existing # NoSession THEN existing.created_at
                                              ELSE a.now]

Upsert(t) ==
  /\ at[t] = "upsert"
  /\ sessions' = [sessions EXCEPT ![arg[t].ue] = Stored(t)]
  /\ Reply(t)
  /\ UNCHANGED <<clock, sa, unfinished, cause>>

-----------------------------------------------------------------------------
(***************************************************************************)
(* POST /v1/sessions/delete                                                *)
(***************************************************************************)
\* Mutant: the table entry goes first and the SA is not terminated.
StartDeleteTable(t, ue) ==
  /\ at[t] = "idle"
  /\ Admitted(ue)
  /\ Goto(t, "delete")
  /\ arg' = [arg EXCEPT ![t] = Request(ue, CHOOSE imsi \in IMSI : TRUE)]
  /\ UNCHANGED <<sessions, clock, sa, unfinished, cause>>

StartDelete(t, ue) ==
  /\ at[t] = "idle"
  /\ Admitted(ue)
  /\ Goto(t, "delete_child_sa")
  /\ arg' = [arg EXCEPT ![t] = Request(ue, CHOOSE imsi \in IMSI : TRUE)]
  /\ UNCHANGED <<sessions, clock, sa, unfinished, cause>>

\* s2b.delete_session follows; both clients only check ue_id there.
DeleteChildSaOk(t) ==
  /\ at[t] = "delete_child_sa"
  /\ TerminateOk(arg[t].ue, "asked")
  /\ Goto(t, "delete")
  /\ UNCHANGED <<sessions, arg, clock>>

DeleteChildSaFail(t) ==
  /\ at[t] = "delete_child_sa"
  /\ TerminateFail(arg[t].ue)
  /\ Reply(t)
  /\ UNCHANGED <<sessions, clock, cause>>

\* Store.delete: pop, a missing entry is not an error.
Delete(t) ==
  /\ at[t] = "delete"
  /\ sessions' = [sessions EXCEPT ![arg[t].ue] = NoSession]
  /\ Reply(t)
  /\ UNCHANGED <<clock, sa, unfinished, cause>>

-----------------------------------------------------------------------------
(***************************************************************************)
(* The environment                                                         *)
(***************************************************************************)

\* An SA ends without the API: the UE detaches, or dead peer detection.
Lose(ue) ==
  /\ ue \in sa
  /\ sa' = sa \ {ue}
  /\ Because("lost", {ue})
  /\ UNCHANGED <<sessions, at, arg, clock, unfinished>>

\* In passive mode the UE initiates IKEv2 on the loaded connection.
Attach(ue) ==
  /\ mode = "passive"
  /\ ue \notin sa
  /\ sa' = sa \cup {ue}
  /\ Because("asked", {ue})
  /\ UNCHANGED <<sessions, at, arg, clock, unfinished>>

\* charon carries out what swanctl no longer waits for.
InitiateLate(ue) ==
  /\ Initiate(ue) \in unfinished
  /\ sa' = sa \cup {ue}
  /\ Because("late", {ue} \ sa)
  /\ unfinished' = unfinished \ {Initiate(ue)}
  /\ UNCHANGED <<sessions, at, arg, clock>>

TerminateLate(ue) ==
  /\ Terminate(ue) \in unfinished
  /\ sa' = sa \ SameChild(ue)
  /\ Because("late", SameChild(ue) \cap sa)
  /\ unfinished' = unfinished \ {Terminate(ue)}
  /\ UNCHANGED <<sessions, at, arg, clock>>

UEsAt(places) == {arg[t].ue : t \in {s \in Thread : at[s] \in places}}

\* The table lives in the process; charon does not, and a swanctl left
\* running may still have its command carried out.
Restart ==
  /\ Restarts
  /\ sessions' = [u \in UE |-> NoSession]
  /\ at' = [t \in Thread |-> "idle"]
  /\ arg' = [t \in Thread |-> NoRequest]
  /\ Abandon({Terminate(u) : u \in UEsAt({"compensate", "delete_child_sa"})}
             \cup {Initiate(u) : u \in {v \in UEsAt({"create_child_sa"}) :
                                         mode = "active"}})
  /\ Because("restart", sa)
  /\ UNCHANGED <<clock, sa>>

Tick ==
  /\ clock < MaxClock
  /\ clock' = clock + 1
  /\ UNCHANGED <<sessions, at, arg, sa, unfinished, cause>>

-----------------------------------------------------------------------------
\* The steps a thread takes on its own once it serves a request.
Serve(t) ==
  \/ AuthorizeOk(t) \/ AuthorizeFail(t)
  \/ InitiateOk(t) \/ InitiateFail(t)
  \/ LoadAllOk(t) \/ LoadAllFail(t)
  \/ CreateSessionOk(t) \/ CreateSessionFail(t) \/ Compensate(t)
  \/ UpsertNow(t) \/ Upsert(t)
  \/ DeleteChildSaOk(t) \/ DeleteChildSaFail(t) \/ Delete(t)

Client(t) ==
  \E ue \in UE :
    \/ \E imsi \in IMSI : StartCreate(t, ue, imsi)
    \/ StartDelete(t, ue)

Environment ==
  \/ \E ue \in UE : \/ Lose(ue) \/ Attach(ue)
                    \/ InitiateLate(ue) \/ TerminateLate(ue)
  \/ Restart
  \/ Tick

Next ==
  /\ UNCHANGED config
  /\ Environment \/ \E t \in Thread : Client(t) \/ Serve(t)

Spec == Init /\ [][Next]_vars

-----------------------------------------------------------------------------
(***************************************************************************)
(* Properties                                                              *)
(***************************************************************************)
Quiet(ue) == ~Busy(ue)
InTable(ue) == sessions[ue] # NoSession
Up(ue) == InTable(ue) /\ sessions[ue].status = "up"

\* Type invariant: what every variable of App, Store and charon may hold.
TypeOK ==
  /\ mode \in Modes
  /\ child_name \in ChildNames
  /\ sessions \in [UE -> Session \cup {NoSession}]
  /\ at \in [Thread -> Place]
  /\ arg \in [Thread -> Arg \cup {NoRequest}]
  /\ clock \in Time
  /\ sa \subseteq UE
  /\ unfinished \subseteq Command
  /\ cause \in [UE -> Cause]

\* handle_create with creates of one ue_id for different IMSIs at once: an
\* entry is written only under the IMSI for which the AAA returned vectors to
\* the very request that writes it, never that of the entry it replaces or of
\* another request.
AuthorisedOnly ==
  [][\A ue \in UE : InTable(ue)' /\ sessions'[ue] # sessions[ue]
       => \E t \in Thread : /\ at[t] = "upsert"
                            /\ arg[t].ue = ue
                            /\ sessions'[ue].imsi \in arg[t].vectors]_vars

\* handle_create and handle_delete with one request per UE at a time: the table
\* and charon agree.  A session that is "up" has its SA, unless S2b refused a
\* later create (whose compensation takes the SA of the older session down and
\* leaves that session "up"), a terminate took effect after swanctl had timed
\* out, the SA was lost outside the API, or another UE's terminate named the
\* same child, which only a fixed child_name (or ue_ids equal once sanitised)
\* allows; and in active mode no SA is left behind without a session unless a
\* terminate failed, an initiate took effect late, or the process restarted.
TableAgrees ==
  \A ue \in Careful :
    /\ cause[ue] = "shared" => SameChild(ue) # {ue}
    /\ Quiet(ue) =>
         /\ Up(ue) /\ ue \notin sa
              => cause[ue] \in {"s2b", "late", "lost", "shared"}
         /\ mode = "active" /\ ue \in sa /\ ~InTable(ue)
              => cause[ue] \in {"swanctl", "late", "restart"}

\* Store.upsert with one request per UE at a time: an entry was never
\* updated before it was created.  (Two upserts of one UE that overlap
\* break it: the clock is read before the lock is taken.)
UpdatedAfterCreated ==
  \A ue \in Careful :
    InTable(ue) => sessions[ue].created_at <= sessions[ue].updated_at

\* Store.upsert, however the handlers interleave: as long as a session
\* stays in the table its created_at does not change.
CreatedAtStable ==
  [][\A ue \in UE :
       InTable(ue) /\ InTable(ue)'
         => sessions'[ue].created_at = sessions[ue].created_at]_vars

\* SwanctlBackend, whatever child_name is: an SA ends only by itself, or by a
\* terminate that a handler runs or gave up on; of its own UE (or one
\* with the same sanitised ue_id) where child_name is empty, of any UE where
\* it is fixed, as by default.
BystanderKept ==
  [][\A ue \in sa \ sa' :
       \/ Lose(ue)
       \/ \E u \in UE :
            /\ child_name # NoChild \/ CleanName[u] = CleanName[ue]
            /\ \/ u \in UEsAt({"compensate", "delete_child_sa"})
               \/ TerminateLate(u)]_vars

\* handle_delete in active mode, one request per UE at a time: a session
\* leaves the table only after its SA is gone, with the whole process, or
\* when an initiate that had timed out has put an SA back.
SessionOutlivesSA ==
  [][\A ue \in Careful :
       mode = "active" /\ InTable(ue) /\ ~InTable(ue)'
         => ue \notin sa' \/ Restart \/ cause'[ue] = "late"]_vars

\* Every request can be answered, whatever the external calls do: a handler
\* always has a step to take.  The places of a handler come in a fixed order,
\* so the steps lead to its answer.
NeverStuck == \A t \in Thread : at[t] # "idle" => ENABLED Serve(t)

=============================================================================
