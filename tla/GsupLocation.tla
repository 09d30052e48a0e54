---------------------------- MODULE GsupLocation ----------------------------
(***************************************************************************)
(* The GSUP location dialogues of the HSS (pyhss/lib/gsup): update         *)
(* location, insert subscriber data, cancel location and purge, between    *)
(* the HSS and the MSCs and SGSNs connected to it.                         *)
(*                                                                         *)
(* One asyncio task serves each connection and handles its messages one at *)
(* a time; another task passes on subscriber updates from the API.  Tasks  *)
(* interleave where a handler awaits drain(), and all of them share the    *)
(* two transaction tables of request_dispatcher.py, which are keyed by the *)
(* name of the connection.  The peers are external: they start dialogues,  *)
(* answer insert-data requests or not, and disconnect.                     *)
(***************************************************************************)
EXTENDS Naturals, Sequences, FiniteSets

CONSTANTS
  Conn,         \* connections, by peer name ("ip:port")
  IMSI,         \* subscribers
  Known,        \* the subscribers the database knows and lets use the RAT
  Id,           \* primary_id values
  NoId,         \* a serving_msc or serving_sgsn that is None
  IdOf,         \* [Conn -> Id], from the tags of the peer's ID_RESP
  RoleOf,       \* [Conn -> Role], from the same tags
  NoConn,       \* no old peer
  NoImsi,       \* the IMSI of a transaction not yet created
  Orderly,      \* the disciplines considered: TRUE, peers start a dialogue
                \* only when none of theirs is open and the API sends no
                \* updates
  MaxRequests,  \* bound, per discipline: updates and purges the peers send
  MaxUpdates    \* bound: subscriber updates the API sends

Role == {"msc", "sgsn"}     \* peer.role; serving_msc and serving_sgsn

ASSUME GsupAssumption ==
  /\ Known \subseteq IMSI
  /\ NoId \notin Id /\ NoConn \notin Conn /\ NoImsi \notin IMSI
  /\ IdOf \in [Conn -> Id]
  /\ RoleOf \in [Conn -> Role]
  /\ Orderly \subseteq BOOLEAN
  /\ MaxRequests \in [BOOLEAN -> Nat] /\ MaxUpdates \in Nat

\* Transaction states; ISDTransaction ends in "END", ULRTransaction in
\* "ULR_SENT" or, when there is an old peer, in "CANCEL_LOCATION_SENT".
State == {"INITIAL", "ISD_REQUEST_SENT", "ULR_SENT", "CANCEL_LOCATION_SENT",
          "END"}

Trx == [imsi : IMSI \cup {NoImsi}, state : State, old : Conn \cup {NoConn},
        timedOut : BOOLEAN]

Msg == [type : {"ULR", "ISR", "ISE", "PUR",                  \* to the HSS
                "ISD", "ULR_RES", "ULR_ERR", "CANCEL", "PUR_RES", "PUR_ERR"},
        imsi : IMSI]

VARIABLES
  orderly,    \* external: the discipline of this behaviour
  link,       \* [Conn -> "new", "up", "lost" or "closed"]; the peers in
              \* active_connections are those with a link "up" or "lost"
  task,       \* [Conn -> what the connection's task awaits]
  toHss,      \* [Conn -> Seq(Msg)]: bytes the peer has sent, unread
  toPeer,     \* [Conn -> Seq(Msg)]: bytes the HSS has written, unread
  serving,    \* [IMSI -> [Role -> Id or NoId]]: the SUBSCRIBER rows
  ulr,        \* [Conn -> Trx]: the last ULRTransaction of a connection ...
  ulrTable,   \* ... and the connections __ulr_transactions has a key for
  isd,        \* [Conn -> Trx]: the same for ISDTransaction
  isdTable,
  updates,    \* Seq of [imsi, at]: the subscriber_update queue in Redis
  listener,   \* Seq of [id, imsi, conn]: the insert-data requests the listener
              \* has to make; conn is set while it awaits the first one's drain
  asking,     \* external, [Conn -> SUBSET IMSI]: updates a peer waits for
  holds,      \* external, [Conn -> SUBSET IMSI]: subscribers a peer serves
  accepted,   \* history: <<primary id, imsi>> the peers have taken data for
  excuse,     \* history, [IMSI -> SUBSET Excuse]
  requests, sent    \* counters of the two bounds

peerVars == <<asking, holds, accepted, excuse, requests>>
hssVars == <<serving, ulr, ulrTable, isd, isdTable>>
vars == <<orderly, link, task, toHss, toPeer, serving, ulr, ulrTable, isd,
          isdTable, updates, listener, asking, holds, accepted, excuse,
          requests, sent>>

\* What leaves a subscriber with a peer that the SUBSCRIBER row does not name:
\* a purge by a peer that is no longer in the row, or one read from another
\* connection than the peer's only one; a location update broken off between
\* the row's commit and the cancellation.
Excuse == {"stray purge", "broken off"}

NoTrx == [imsi |-> NoImsi, state |-> "END", old |-> NoConn, timedOut |-> FALSE]
NewTrx(imsi) == [NoTrx EXCEPT !.imsi = imsi, !.state = "INITIAL"]

M(type, imsi) == [type |-> type, imsi |-> imsi]

(***************************************************************************)
(* Initially no peer is connected and no subscriber is located.            *)
(***************************************************************************)
Init ==
  /\ orderly \in Orderly
  /\ link = [c \in Conn |-> "new"]
  /\ task = [c \in Conn |-> "read"]
  /\ toHss = [c \in Conn |-> <<>>]
  /\ toPeer = [c \in Conn |-> <<>>]
  /\ serving = [i \in IMSI |-> [r \in Role |-> NoId]]
  /\ ulr = [c \in Conn |-> NoTrx]
  /\ ulrTable = {}
  /\ isd = [c \in Conn |-> NoTrx]
  /\ isdTable = {}
  /\ updates = <<>>
  /\ listener = <<>>
  /\ asking = [c \in Conn |-> {}]
  /\ holds = [c \in Conn |-> {}]
  /\ accepted = {}
  /\ excuse = [i \in IMSI |-> {}]
  /\ requests = 0
  /\ sent = 0

-----------------------------------------------------------------------------
Active == {c \in Conn : link[c] \in {"up", "lost"}}    \* active_connections

\* writer.write: on a connection that is lost or closed it does nothing.
Write(c, m) ==
  toPeer' = IF link[c] = "up" THEN [toPeer EXCEPT ![c] = Append(@, m)]
                              ELSE toPeer

\* AbstractTransaction.is_finished of the two classes.
UlrFinishedEarly(c) ==                  \* Mutant: one state too early
  ulr[c].timedOut \/ ulr[c].state # "INITIAL"

UlrFinished(c) ==
  \/ ulr[c].timedOut
  \/ ulr[c].state = "ULR_SENT" /\ ulr[c].old = NoConn
  \/ ulr[c].state = "CANCEL_LOCATION_SENT"

IsdFinished(c) == isd[c].timedOut \/ isd[c].state = "END"

\* What dispatch leaves in the tables before it looks at the message.
CleanUlr == {c \in ulrTable : ~UlrFinished(c)}
CleanIsd == {c \in isdTable : ~IsdFinished(c)}

\* The task of a connection has a message and is not awaiting anything else.
Reading(c, type) ==
  /\ c \in Active
  /\ task[c] = "read"
  /\ toHss[c] # <<>>
  /\ Head(toHss[c]).type = type

Consume(c) == toHss' = [toHss EXCEPT ![c] = Tail(@)]
Subject(c) == Head(toHss[c]).imsi
Await(c, what) == task' = [task EXCEPT ![c] = what]

\* An exception leaves the handler: the writer is closed and the peer is
\* taken out of active_connections; its transactions stay where they are.
CloseLink(c) ==
  /\ link' = [link EXCEPT ![c] = "closed"]
  /\ task' = [task EXCEPT ![c] = "read"]
  /\ toHss' = [toHss EXCEPT ![c] = <<>>]
  /\ toPeer' = [toPeer EXCEPT ![c] = <<>>]
  /\ asking' = [asking EXCEPT ![c] = {}]

-----------------------------------------------------------------------------
(***************************************************************************)
(* UPDATE_LOCATION_REQUEST: ULRController.handle_message                   *)
(***************************************************************************)

\* The subscriber is known and its RAT allowed: a transaction is entered for
\* the connection, in place of any other, and the insert-data request written.
HandleUlr(c) ==
  /\ Reading(c, "ULR")
  /\ Subject(c) \in Known
  /\ Consume(c)
  /\ ulr' = [ulr EXCEPT ![c] = NewTrx(Subject(c))]
  /\ ulrTable' = CleanUlr \cup {c}
  /\ isdTable' = CleanIsd
  /\ Write(c, M("ISD", Subject(c)))
  /\ Await(c, "begin")
  /\ UNCHANGED <<link, serving, isd, updates, listener, sent, peerVars>>

\* ULRError, for an unknown subscriber or a RAT it may not use, or when the
\* database cannot be read: one error.  The cn_domain is neither "ps" nor
\* "cs": the transaction stays in the table in its initial state, and two
\* errors go out, the second without an IMSI (a peer ignores it).
RejectUlr(c) ==
  /\ Reading(c, "ULR")
  /\ Consume(c)
  /\ \/ ulrTable' = CleanUlr /\ UNCHANGED ulr
     \/ /\ Subject(c) \in Known
        /\ ulr' = [ulr EXCEPT ![c] = NewTrx(Subject(c))]
        /\ ulrTable' = CleanUlr \cup {c}
  /\ isdTable' = CleanIsd
  /\ Write(c, M("ULR_ERR", Subject(c)))
  /\ UNCHANGED <<link, task, serving, isd, updates, listener, sent, peerVars>>

\* ULRTransaction.begin_invoke after its await.
BegunUlr(c) ==
  /\ task[c] = "begin"
  /\ link[c] = "up"
  /\ ulr' = [ulr EXCEPT ![c].state = "ISD_REQUEST_SENT"]
  /\ Await(c, "read")
  /\ UNCHANGED <<link, toHss, toPeer, serving, ulrTable, isd, isdTable,
                 updates, listener, sent, peerVars>>

-----------------------------------------------------------------------------
(***************************************************************************)
(* INSERT_DATA_RESULT and INSERT_DATA_ERROR: ISRController.handle_message  *)
(* gives the answer to the ULR transaction of the connection, else to its  *)
(* ISD transaction, whatever IMSI the answer carries.                      *)
(***************************************************************************)
Answering(c) == Reading(c, "ISR") \/ Reading(c, "ISE")
ForUlr(c) == Answering(c) /\ c \in CleanUlr
ForIsd(c) == Answering(c) /\ c \notin CleanUlr /\ c \in CleanIsd

\* ULRController.__update_subscriber: Database.update_hlr puts the new id in
\* the row and returns the old one; the old peer is a connected peer of it.
LocatedAsSgsn(imsi, c) == [serving EXCEPT ![imsi]["sgsn"] = IdOf[c]]  \* Mutant
Located(imsi, c) == [serving EXCEPT ![imsi][RoleOf[c]] = IdOf[c]]
OldPeers(imsi, c) ==
  LET found == {d \in Active : IdOf[d] = serving[imsi][RoleOf[c]]}
  IN  IF found = {} THEN {NoConn} ELSE found

ConfirmsAny(c) == TRUE                  \* Mutant: an error taken for a result
Confirms(c) == Head(toHss[c]).type = "ISR"

\* ULRTransaction.continue_invoke up to the await of the result's drain.
ContinueUlr(c) ==
  /\ ForUlr(c)
  /\ ulr[c].state = "ISD_REQUEST_SENT"
  /\ Consume(c)
  /\ IF Confirms(c)
     THEN /\ \E old \in OldPeers(Subject(c), c) :
               ulr' = [ulr EXCEPT ![c].old = old]
          /\ serving' = Located(Subject(c), c)
          /\ Write(c, M("ULR_RES", ulr[c].imsi))
     ELSE /\ Write(c, M("ULR_ERR", ulr[c].imsi))
          /\ UNCHANGED <<ulr, serving>>
  /\ ulrTable' = CleanUlr
  /\ isdTable' = CleanIsd
  /\ Await(c, "result")
  /\ UNCHANGED <<link, isd, updates, listener, sent, peerVars>>

\* Database.update_hlr raises: the exception leaves continue_invoke and the
\* connection is closed.  The row is as before, unless the commit was carried
\* out and only its answer failed; then no old peer is told to cancel.
FailUlr(c) ==
  /\ ForUlr(c)
  /\ ulr[c].state = "ISD_REQUEST_SENT"
  /\ Confirms(c)
  /\ \/ UNCHANGED <<serving, excuse>>
     \/ /\ serving' = Located(Subject(c), c)
        /\ excuse' = [excuse EXCEPT ![Subject(c)] = @ \cup {"broken off"}]
  /\ ulrTable' = CleanUlr
  /\ isdTable' = CleanIsd
  /\ CloseLink(c)
  /\ UNCHANGED <<ulr, isd, updates, listener, holds, accepted, requests, sent>>

\* After that await: an old peer with another identity is told to cancel.
ToCancelNone(c) == FALSE                \* Mutant: never
ToCancel(c) == ulr[c].old # NoConn /\ IdOf[ulr[c].old] # IdOf[c]

AnsweredUlr(c) ==
  /\ task[c] = "result"
  /\ link[c] = "up"
  /\ ulr' = [ulr EXCEPT ![c].state = "ULR_SENT"]
  /\ IF ToCancel(c)
     THEN /\ Await(c, "cancel")
          /\ Write(ulr[c].old, M("CANCEL", ulr[c].imsi))
     ELSE Await(c, "read") /\ UNCHANGED toPeer
  /\ UNCHANGED <<link, toHss, serving, ulrTable, isd, isdTable, updates,
                 listener, sent, peerVars>>

CancelledUlr(c) ==
  /\ task[c] = "cancel"
  /\ link[c] = "up"
  /\ link[ulr[c].old] = "up"
  /\ ulr' = [ulr EXCEPT ![c].state = "CANCEL_LOCATION_SENT"]
  /\ Await(c, "read")
  /\ UNCHANGED <<link, toHss, toPeer, serving, ulrTable, isd, isdTable,
                 updates, listener, sent, peerVars>>

\* ISDTransaction.continue_invoke.
ContinueIsd(c) ==
  /\ ForIsd(c)
  /\ isd[c].state = "ISD_REQUEST_SENT"
  /\ Head(toHss[c]).type = "ISR"
  /\ Consume(c)
  /\ isd' = [isd EXCEPT ![c].state = "END"]
  /\ ulrTable' = CleanUlr
  /\ isdTable' = CleanIsd
  /\ UNCHANGED <<link, task, toPeer, serving, ulr, updates, listener, sent,
                 peerVars>>

\* No transaction, one that is not waiting for an answer, or an error for an
\* ISD transaction: ValueError, and the connection is closed.
RefuseAnswer(c) ==
  /\ Answering(c)
  /\ \/ c \notin CleanUlr \cup CleanIsd
     \/ ForUlr(c) /\ ulr[c].state # "ISD_REQUEST_SENT"
     \/ ForIsd(c) /\ isd[c].state # "ISD_REQUEST_SENT"
     \/ ForIsd(c) /\ Head(toHss[c]).type = "ISE"
  /\ ulrTable' = CleanUlr
  /\ isdTable' = CleanIsd
  /\ CloseLink(c)
  /\ UNCHANGED <<serving, ulr, isd, updates, listener, holds, accepted,
                 excuse, requests, sent>>

-----------------------------------------------------------------------------
\* PURGE_MS_REQUEST: PURController clears the row of the peer's role,
\* whichever peer is in it; it answers an error when update_hlr raises,
\* be the row cleared or not.
HandlePur(c) ==
  /\ Reading(c, "PUR")
  /\ Consume(c)
  /\ \/ /\ Subject(c) \in Known
        /\ serving' = [serving EXCEPT ![Subject(c)][RoleOf[c]] = NoId]
        /\ excuse' = IF /\ serving[Subject(c)][RoleOf[c]] = IdOf[c]
                        /\ ~\E d \in Conn \ {c} :
                             link[d] # "new" /\ IdOf[d] = IdOf[c]
                     THEN excuse
                     ELSE [excuse EXCEPT ![Subject(c)] =
                             @ \cup {"stray purge"}]
        /\ \E type \in {"PUR_RES", "PUR_ERR"} : Write(c, M(type, Subject(c)))
     \/ Write(c, M("PUR_ERR", Subject(c))) /\ UNCHANGED <<serving, excuse>>
  /\ ulrTable' = CleanUlr
  /\ isdTable' = CleanIsd
  /\ UNCHANGED <<link, task, ulr, isd, updates, listener, sent, asking, holds,
                 accepted, requests>>

-----------------------------------------------------------------------------
(***************************************************************************)
(* Subscriber updates: the API takes the locations when it queues one, and *)
(* the listener turns it into insert-data requests, one per location whose *)
(* peer is connected and has no ISD transaction in the table.              *)
(***************************************************************************)
SendUpdate(imsi) ==
  /\ ~orderly /\ sent < MaxUpdates
  /\ sent' = sent + 1
  /\ imsi \in Known
  /\ updates' = Append(updates, [imsi |-> imsi, at |-> serving[imsi]])
  /\ UNCHANGED <<link, task, toHss, toPeer, listener, hssVars, peerVars>>

\* The locations that are not None, msc before sgsn, as a work list.
WorkListAll(u) ==                       \* Mutant: None is not left out
  << [id |-> u.at["msc"], imsi |-> u.imsi, conn |-> NoConn],
     [id |-> u.at["sgsn"], imsi |-> u.imsi, conn |-> NoConn] >>

WorkList(u) ==
  LET work(r) == IF u.at[r] = NoId THEN <<>>
                 ELSE <<[id |-> u.at[r], imsi |-> u.imsi, conn |-> NoConn]>>
  IN  work("msc") \o work("sgsn")

TakeUpdate ==
  /\ updates # <<>> /\ listener = <<>>
  /\ listener' = WorkList(Head(updates))
  /\ updates' = Tail(updates)
  /\ UNCHANGED <<link, task, toHss, toPeer, sent, hssVars, peerVars>>

\* The peers __find_ipa_peer_by_id may return for a location.
PeersAt(id) == {d \in Active : IdOf[d] = id}

SkipUpdate ==
  /\ listener # <<>> /\ Head(listener).conn = NoConn
  /\ \/ PeersAt(Head(listener).id) = {}
     \/ PeersAt(Head(listener).id) \cap isdTable # {}
  /\ listener' = Tail(listener)
  /\ UNCHANGED <<link, task, toHss, toPeer, updates, sent, hssVars, peerVars>>

BeginIsd(d) ==
  /\ listener # <<>> /\ Head(listener).conn = NoConn
  /\ d \in PeersAt(Head(listener).id) \ isdTable
  /\ isd' = [isd EXCEPT ![d] = NewTrx(Head(listener).imsi)]
  /\ isdTable' = isdTable \cup {d}
  /\ Write(d, M("ISD", Head(listener).imsi))
  /\ listener' = [listener EXCEPT ![1].conn = d]
  /\ UNCHANGED <<link, task, toHss, updates, sent, serving, ulr, ulrTable,
                 peerVars>>

\* After the await; when the peer is gone the await raises and the rest of
\* this update is dropped.
BegunIsd ==
  /\ listener # <<>> /\ Head(listener).conn # NoConn
  /\ LET d == Head(listener).conn
     IN  IF link[d] = "up"
         THEN /\ isd' = [isd EXCEPT ![d].state = "ISD_REQUEST_SENT"]
              /\ listener' = Tail(listener)
         ELSE listener' = <<>> /\ UNCHANGED isd
  /\ UNCHANGED <<link, task, toHss, toPeer, updates, sent, serving, ulr,
                 ulrTable, isdTable, peerVars>>

-----------------------------------------------------------------------------
(***************************************************************************)
(* Time and connections                                                    *)
(***************************************************************************)

\* Ten seconds after a transaction was created.
UlrTimeout(c) ==
  /\ c \in ulrTable /\ ~ulr[c].timedOut
  /\ ulr' = [ulr EXCEPT ![c].timedOut = TRUE]
  /\ UNCHANGED <<link, task, toHss, toPeer, serving, ulrTable, isd, isdTable,
                 updates, listener, sent, peerVars>>

IsdTimeout(c) ==
  /\ c \in isdTable /\ ~isd[c].timedOut
  /\ isd' = [isd EXCEPT ![c].timedOut = TRUE]
  /\ UNCHANGED <<link, task, toHss, toPeer, serving, ulr, ulrTable, isdTable,
                 updates, listener, sent, peerVars>>

\* A peer identifies itself (the CCM exchange), and goes away again.
Connect(c) ==
  /\ link[c] = "new"
  /\ link' = [link EXCEPT ![c] = "up"]
  /\ UNCHANGED <<task, toHss, toPeer, updates, listener, sent, hssVars,
                 peerVars>>

Disconnect(c) ==
  /\ link[c] = "up"
  /\ link' = [link EXCEPT ![c] = "lost"]
  /\ toPeer' = [toPeer EXCEPT ![c] = <<>>]
  /\ asking' = [asking EXCEPT ![c] = {}]
  /\ UNCHANGED <<task, toHss, updates, listener, holds, accepted, excuse,
                 requests, sent, hssVars>>

\* The task sees the loss: in its read, or because its await raises.  The
\* await of a cancel raises when the OLD peer is gone, and then it is the
\* new peer's connection that is closed.
SeeLoss(c) ==
  /\ c \in Active
  /\ \/ link[c] = "lost"
     \/ task[c] = "cancel" /\ link[ulr[c].old] # "up"
  /\ CloseLink(c)
  /\ excuse' = IF task[c] = "read" THEN excuse
               ELSE [excuse EXCEPT ![ulr[c].imsi] = @ \cup {"broken off"}]
  /\ UNCHANGED <<updates, listener, holds, accepted, requests, sent, hssVars>>

-----------------------------------------------------------------------------
(***************************************************************************)
(* The peers (external)                                                    *)
(***************************************************************************)
Send(c, m) == toHss' = [toHss EXCEPT ![c] = Append(@, m)]

StartUlr(c, imsi) ==
  /\ link[c] = "up"
  /\ requests < MaxRequests[orderly]
  /\ imsi \notin asking[c]
  /\ orderly => asking[c] = {}
  /\ Send(c, M("ULR", imsi))
  /\ asking' = [asking EXCEPT ![c] = @ \cup {imsi}]
  /\ requests' = requests + 1
  /\ UNCHANGED <<link, task, toPeer, updates, listener, holds, accepted,
                 excuse, sent, hssVars>>

StartPur(c, imsi) ==
  /\ link[c] = "up"
  /\ requests < MaxRequests[orderly]
  /\ imsi \in holds[c]
  /\ orderly => asking[c] = {}
  /\ Send(c, M("PUR", imsi))
  /\ holds' = [holds EXCEPT ![c] = @ \ {imsi}]
  /\ requests' = requests + 1
  /\ UNCHANGED <<link, task, toPeer, updates, listener, asking, accepted,
                 excuse, sent, hssVars>>

Receiving(c, types) ==
  /\ link[c] = "up"
  /\ toPeer[c] # <<>>
  /\ Head(toPeer[c]).type \in types
  /\ toPeer' = [toPeer EXCEPT ![c] = Tail(@)]

TakeIsd(c) ==
  /\ Receiving(c, {"ISD"})
  /\ LET imsi == Head(toPeer[c]).imsi
     IN  \/ /\ Send(c, M("ISR", imsi))
            /\ accepted' = accepted \cup {<<IdOf[c], imsi>>}
         \/ Send(c, M("ISE", imsi)) /\ UNCHANGED accepted
         \/ UNCHANGED <<toHss, accepted>>       \* no answer
  /\ UNCHANGED <<link, task, updates, listener, asking, holds, excuse,
                 requests, sent, hssVars>>

TakeAnswer(c) ==
  /\ Receiving(c, {"ULR_RES", "ULR_ERR", "CANCEL", "PUR_RES", "PUR_ERR"})
  /\ LET m == Head(toPeer[c])
     IN  /\ asking' = [asking EXCEPT ![c] =
                         IF m.type \in {"ULR_RES", "ULR_ERR"} THEN @ \ {m.imsi}
                                                              ELSE @]
         /\ holds' = [holds EXCEPT ![c] =
                        CASE m.type = "ULR_RES" -> @ \cup {m.imsi}
                          [] m.type = "CANCEL"  -> @ \ {m.imsi}
                          [] OTHER              -> @]
  /\ UNCHANGED <<link, task, toHss, updates, listener, accepted, excuse,
                 requests, sent, hssVars>>

-----------------------------------------------------------------------------
Serve(c) ==
  \/ HandleUlr(c) \/ RejectUlr(c) \/ BegunUlr(c)
  \/ ContinueUlr(c) \/ FailUlr(c) \/ AnsweredUlr(c) \/ CancelledUlr(c)
  \/ ContinueIsd(c) \/ RefuseAnswer(c)
  \/ HandlePur(c) \/ SeeLoss(c)

Listen == TakeUpdate \/ SkipUpdate \/ (\E d \in Conn : BeginIsd(d)) \/ BegunIsd

PeerStep(c) ==
  \/ Connect(c) \/ Disconnect(c)
  \/ \E imsi \in IMSI : StartUlr(c, imsi) \/ StartPur(c, imsi)
  \/ TakeIsd(c) \/ TakeAnswer(c)

Next ==
  /\ UNCHANGED orderly
  /\ \/ \E c \in Conn :
          Serve(c) \/ PeerStep(c) \/ UlrTimeout(c) \/ IsdTimeout(c)
     \/ Listen
     \/ \E imsi \in IMSI : SendUpdate(imsi)

Spec == Init /\ [][Next]_vars

-----------------------------------------------------------------------------
(***************************************************************************)
(* Properties                                                              *)
(***************************************************************************)
Work == [id : Id, imsi : IMSI, conn : Conn \cup {NoConn}]

\* Type invariant.
TypeOK ==
  /\ orderly \in Orderly
  /\ link \in [Conn -> {"new", "up", "lost", "closed"}]
  /\ task \in [Conn -> {"read", "begin", "result", "cancel"}]
  /\ toHss \in [Conn -> Seq(Msg)] /\ toPeer \in [Conn -> Seq(Msg)]
  /\ serving \in [IMSI -> [Role -> Id \cup {NoId}]]
  /\ ulr \in [Conn -> Trx] /\ ulrTable \subseteq Conn
  /\ isd \in [Conn -> Trx] /\ isdTable \subseteq Conn
  /\ updates \in Seq([imsi : IMSI, at : [Role -> Id \cup {NoId}]])
  /\ listener \in Seq(Work)
  /\ asking \in [Conn -> SUBSET IMSI] /\ holds \in [Conn -> SUBSET IMSI]
  /\ accepted \subseteq Id \X IMSI
  /\ excuse \in [IMSI -> SUBSET Excuse]
  /\ requests \in Nat /\ sent \in Nat

\* ULRTransaction.continue_invoke: a peer is in a subscriber's row only when
\* it has accepted that subscriber's data, however its dialogues and the
\* subscriber updates overlap.
ServingAccepted ==
  \A i \in IMSI, r \in Role :
    serving[i][r] # NoId => <<serving[i][r], i>> \in accepted

\* The message an action writes to a connection, if it writes one.
Wrote(c, type) ==
  /\ Len(toPeer'[c]) > Len(toPeer[c])
  /\ toPeer'[c][Len(toPeer'[c])].type = type
Written(c) == toPeer'[c][Len(toPeer'[c])].imsi

\* With one dialogue per peer at a time: an update is answered with success
\* only for the subscriber whose row now names that peer.
ResultLocated ==
  [][\A c \in Conn :
       orderly /\ Wrote(c, "ULR_RES")
         => serving'[Written(c)][RoleOf[c]] = IdOf[c]]_vars

\* With one dialogue per peer at a time: once every message has been handled
\* a connected peer serves only subscribers whose row names it.
Settled ==
  \A c \in Conn : toHss[c] = <<>> /\ toPeer[c] = <<>> /\ task[c] = "read"

HeldIsLocated ==
  orderly /\ Settled =>
    \A c \in Conn : link[c] = "up" =>
      \A i \in holds[c] :
        serving[i][RoleOf[c]] = IdOf[c] \/ excuse[i] # {}

\* With one dialogue per peer at a time and no subscriber updates: the HSS
\* closes the connection of a peer only when the peer's transaction timed out
\* (or never started), when the old peer of its update went away, or when the
\* database failed as the peer's result was to be entered.
ConformingKept ==
  [][\A c \in Conn :
       orderly /\ link[c] = "up" /\ link'[c] = "closed"
         => \/ ulr[c].timedOut \/ ulr[c].state = "INITIAL"
            \/ task[c] = "cancel" /\ link[ulr[c].old] # "up"
            \/ FailUlr(c)]_vars

=============================================================================
