----------------------------- MODULE GsupProofs -----------------------------
(***************************************************************************)
(* Theorems about the two layers of the GSUP server.                       *)
(*                                                                         *)
(* About GsupLocation, for any connections, peers and subscribers and any  *)
(* number of dialogues: OnlyAcceptedServe holds however they overlap;      *)
(* SuccessIsLocated and ConformingPeersKept follow from what one dialogue  *)
(* at a time leaves in the queues of a connection (Talk), and              *)
(* ServedIsLocated from what those queues will make a peer serve           *)
(* (WillHold).                                                             *)
(*                                                                         *)
(* At the end, about GsupConnections, for any set of peers and any number  *)
(* of PINGs: PlaceInv ties the place of each task to the shared tables.    *)
(***************************************************************************)
EXTENDS GsupLocation, GsupConnections, SequencesExt, SequenceTheorems, TLAPS

-----------------------------------------------------------------------------
(***************************************************************************)
(* Queues of messages.                                                     *)
(***************************************************************************)

\* The messages of the dialogue that an update of location is.
Tokens == {"ULR", "ISD", "ISR", "ISE", "ULR_RES", "ULR_ERR"}

\* A queue has one of them at most, or none.
Single(q) == \A i, j \in 1 .. Len(q) :
               q[i].type \in Tokens /\ q[j].type \in Tokens => i = j
Silent(q) == \A m \in ToSet(q) : m.type \notin Tokens

LEMMA Appended ==
  ASSUME NEW q \in Seq(Msg), NEW m \in Msg
  PROVE  /\ Append(q, m) \in Seq(Msg)
         /\ ToSet(Append(q, m)) = ToSet(q) \cup {m}
         /\ Len(Append(q, m)) = Len(q) + 1
         /\ Append(q, m)[Len(q) + 1] = m
         /\ Single(q) /\ (Silent(q) \/ m.type \notin Tokens)
              => Single(Append(q, m))
<1> DEFINE longer == Append(q, m)
           n == Len(q)
<1>1. /\ longer \in Seq(Msg) /\ n \in Nat /\ Len(longer) = n + 1
      /\ DOMAIN q = 1 .. n /\ DOMAIN longer = 1 .. n + 1
      /\ \A i \in 1 .. n : longer[i] = q[i]
      /\ longer[n + 1] = m
  BY AppendProperties, LenProperties
<1>2. Len(q) = n
  OBVIOUS
<1> HIDE DEF longer, n
<1>3. ToSet(longer) = ToSet(q) \cup {m}
  BY <1>1 DEF ToSet
<1>4. ASSUME Single(q), Silent(q) \/ m.type \notin Tokens
      PROVE  Single(longer)
  <2>1. \A i \in 1 .. n : Silent(q) => q[i].type \notin Tokens
    BY <1>1 DEF Silent, ToSet
  <2>2. QED
    BY <1>1, <1>2, <1>4, <2>1 DEF Single
<1>5. QED
  BY <1>1, <1>2, <1>3, <1>4 DEF longer

LEMMA Taken ==
  ASSUME NEW q \in Seq(Msg), q # << >>
  PROVE  /\ Head(q) \in Msg /\ Tail(q) \in Seq(Msg)
         /\ Len(Tail(q)) < Len(q)
         /\ ToSet(q) = {Head(q)} \cup ToSet(Tail(q))
         /\ Single(q) => /\ Single(Tail(q))
                         /\ Head(q).type \in Tokens => Silent(Tail(q))
<1> DEFINE rest == Tail(q)
           n == Len(q)
<1>1. /\ Head(q) \in Msg /\ rest \in Seq(Msg)
      /\ n \in Nat \ {0} /\ Len(rest) = n - 1
      /\ DOMAIN q = 1 .. n /\ DOMAIN rest = 1 .. n - 1
      /\ \A i \in 1 .. n - 1 : rest[i] = q[i + 1]
      /\ Head(q) = q[1]
  BY HeadTailProperties, LenProperties, EmptySeq
<1>2. Len(q) = n
  OBVIOUS
<1> HIDE DEF rest, n
<1>3. \A i \in 1 .. n - 1 : i + 1 \in 1 .. n /\ i + 1 # 1
  BY <1>1
<1>4. ToSet(q) = {Head(q)} \cup ToSet(rest)
  <2>1. ASSUME NEW i \in 1 .. n
        PROVE  q[i] \in {Head(q)} \cup ToSet(rest)
    <3>1. i # 1 => i - 1 \in 1 .. n - 1 /\ (i - 1) + 1 = i
      BY <1>1
    <3>2. QED
      BY <1>1, <3>1 DEF ToSet
  <2>2. Head(q) \in ToSet(q)
    BY <1>1 DEF ToSet
  <2>3. ASSUME NEW i \in 1 .. n - 1
        PROVE  rest[i] \in ToSet(q)
    BY <1>1, <1>3 DEF ToSet
  <2>4. \A x : x \in ToSet(q) <=> \E i \in 1 .. n : x = q[i]
    BY <1>1 DEF ToSet
  <2>5. \A x : x \in ToSet(rest) <=> \E i \in 1 .. n - 1 : x = rest[i]
    BY <1>1 DEF ToSet
  <2>6. QED
    BY <2>1, <2>2, <2>3, <2>4, <2>5
<1>5. ASSUME Single(q)
      PROVE  Single(rest) /\ (Head(q).type \in Tokens => Silent(rest))
  <2>1. 1 \in 1 .. n
    BY <1>1
  <2>2. QED
    BY <1>1, <1>2, <1>3, <1>5, <2>1 DEF Single, Silent, ToSet
<1>6. QED
  BY <1>1, <1>2, <1>4, <1>5 DEF rest

LEMMA NoMessages ==
  /\ << >> \in Seq(Msg)
  /\ ToSet(<< >>) = {}
  /\ Single(<< >>) /\ Silent(<< >>)
<1>1. << >> \in Seq(Msg) /\ Len(<< >>) = 0 /\ DOMAIN << >> = 1 .. 0
  BY EmptySeq, LenProperties
<1>2. 1 .. 0 = {}
  OBVIOUS
<1>3. ToSet(<< >>) = {}
  BY <1>1, <1>2 DEF ToSet
<1>4. QED
  BY <1>1, <1>2, <1>3 DEF Single, Silent

-----------------------------------------------------------------------------
(***************************************************************************)
(* Types.                                                                  *)
(***************************************************************************)

LEMMA MsgType ==
  ASSUME NEW i \in IMSI
  PROVE  \A type \in {"ULR", "ISR", "ISE", "PUR", "ISD", "ULR_RES", "ULR_ERR",
                      "CANCEL", "PUR_RES", "PUR_ERR"} :
           /\ M(type, i) \in Msg
           /\ M(type, i).type = type /\ M(type, i).imsi = i
BY DEF M, Msg

LEMMA WriteType ==
  ASSUME TypeOK, NEW c \in Conn, NEW m \in Msg, Write(c, m)
  PROVE  toPeer' \in [Conn -> Seq(Msg)]
BY Appended DEF TypeOK, Write

LEMMA SendType ==
  ASSUME TypeOK, NEW c \in Conn, NEW m \in Msg, Send(c, m)
  PROVE  toHss' \in [Conn -> Seq(Msg)]
BY Appended DEF TypeOK, Send

\* A message is read.
LEMMA ReadType ==
  ASSUME TypeOK, NEW c \in Conn, toHss[c] # << >>
  PROVE  /\ Head(toHss[c]) \in Msg /\ Subject(c) \in IMSI
         /\ Consume(c) => toHss' \in [Conn -> Seq(Msg)]
<1>1. toHss[c] \in Seq(Msg)
  BY DEF TypeOK
<1>2. Head(toHss[c]) \in Msg /\ Tail(toHss[c]) \in Seq(Msg)
  BY <1>1, Taken
<1>3. QED
  BY <1>2 DEF TypeOK, Consume, Subject, Msg

\* One field of a transaction changes.
LEMMA TrxFields ==
  ASSUME NEW t \in Trx
  PROVE  /\ \A i \in IMSI :
              /\ [t EXCEPT !.imsi = i] = [imsi |-> i, state |-> t.state,
                    old |-> t.old, timedOut |-> t.timedOut]
              /\ [t EXCEPT !.imsi = i] \in Trx
         /\ \A s \in State :
              /\ [t EXCEPT !.state = s] = [imsi |-> t.imsi, state |-> s,
                    old |-> t.old, timedOut |-> t.timedOut]
              /\ [t EXCEPT !.state = s] \in Trx
         /\ \A o \in Conn \cup {NoConn} :
              /\ [t EXCEPT !.old = o] = [imsi |-> t.imsi, state |-> t.state,
                    old |-> o, timedOut |-> t.timedOut]
              /\ [t EXCEPT !.old = o] \in Trx
         /\ \A late \in BOOLEAN :
              /\ [t EXCEPT !.timedOut = late] = [imsi |-> t.imsi,
                    state |-> t.state, old |-> t.old, timedOut |-> late]
              /\ [t EXCEPT !.timedOut = late] \in Trx
<1>1. ASSUME NEW i \in IMSI
      PROVE  /\ [t EXCEPT !.imsi = i] = [imsi |-> i, state |-> t.state,
                   old |-> t.old, timedOut |-> t.timedOut]
             /\ [t EXCEPT !.imsi = i] \in Trx
  BY DEF Trx
<1>2. ASSUME NEW s \in State
      PROVE  /\ [t EXCEPT !.state = s] = [imsi |-> t.imsi, state |-> s,
                   old |-> t.old, timedOut |-> t.timedOut]
             /\ [t EXCEPT !.state = s] \in Trx
  BY DEF Trx
<1>3. ASSUME NEW o \in Conn \cup {NoConn}
      PROVE  /\ [t EXCEPT !.old = o] = [imsi |-> t.imsi, state |-> t.state,
                   old |-> o, timedOut |-> t.timedOut]
             /\ [t EXCEPT !.old = o] \in Trx
  <2>1. [t EXCEPT !.old = o] = [imsi |-> t.imsi, state |-> t.state,
                                old |-> o, timedOut |-> t.timedOut]
    BY DEF Trx
  <2>2. /\ t.imsi \in IMSI \cup {NoImsi} /\ t.state \in State
        /\ t.timedOut \in BOOLEAN
    BY DEF Trx
  <2>3. QED
    BY <2>1, <2>2 DEF Trx
<1>4. ASSUME NEW late \in BOOLEAN
      PROVE  /\ [t EXCEPT !.timedOut = late] = [imsi |-> t.imsi,
                   state |-> t.state, old |-> t.old, timedOut |-> late]
             /\ [t EXCEPT !.timedOut = late] \in Trx
  BY DEF Trx
<1>5. QED
  BY <1>1, <1>2, <1>3, <1>4

LEMMA NewTrxType ==
  ASSUME NEW i \in IMSI
  PROVE  NewTrx(i) = [imsi |-> i, state |-> "INITIAL", old |-> NoConn,
                      timedOut |-> FALSE] /\ NewTrx(i) \in Trx
<1>1. NoTrx \in Trx /\ "INITIAL" \in State
  BY DEF NoTrx, Trx, State
<1>2. NoTrx.old = NoConn /\ NoTrx.timedOut = FALSE
  BY DEF NoTrx
<1>3. NewTrx(i) = [[NoTrx EXCEPT !.imsi = i] EXCEPT !.state = "INITIAL"]
  BY Zenon DEF NewTrx
<1> HIDE DEF NoTrx
<1> DEFINE named == [NoTrx EXCEPT !.imsi = i]
<1>4. /\ named = [imsi |-> i, state |-> NoTrx.state, old |-> NoConn,
                  timedOut |-> FALSE]
      /\ named \in Trx
  BY <1>1, <1>2, TrxFields
<1>5. NewTrx(i) = [named EXCEPT !.state = "INITIAL"]
  BY <1>3
<1> HIDE DEF named
<1>6. /\ NewTrx(i) = [imsi |-> named.imsi, state |-> "INITIAL",
                      old |-> named.old, timedOut |-> named.timedOut]
      /\ NewTrx(i) \in Trx
  <2>1. /\ [named EXCEPT !.state = "INITIAL"] =
             [imsi |-> named.imsi, state |-> "INITIAL", old |-> named.old,
              timedOut |-> named.timedOut]
        /\ [named EXCEPT !.state = "INITIAL"] \in Trx
    BY <1>1, <1>4, TrxFields
  <2>2. QED
    BY <1>5, <2>1, Zenon
<1>7. QED
  BY <1>4, <1>6

LEMMA CleanType ==
  TypeOK => CleanUlr \subseteq ulrTable /\ ulrTable \subseteq Conn
            /\ CleanIsd \subseteq isdTable /\ isdTable \subseteq Conn
BY DEF TypeOK, CleanUlr, CleanIsd

LEMMA CloseType ==
  ASSUME TypeOK, NEW c \in Conn, CloseLink(c)
  PROVE  /\ link' \in [Conn -> {"new", "up", "lost", "closed"}]
         /\ task' \in [Conn -> {"read", "begin", "result", "cancel"}]
         /\ toHss' \in [Conn -> Seq(Msg)] /\ toPeer' \in [Conn -> Seq(Msg)]
         /\ asking' \in [Conn -> SUBSET IMSI]
BY NoMessages DEF TypeOK, CloseLink

LEMMA RowUpdate ==
  ASSUME TypeOK, NEW i \in IMSI, NEW c \in Conn, NEW id \in Id \cup {NoId}
  PROVE  [serving EXCEPT ![i][RoleOf[c]] = id]
           \in [IMSI -> [Role -> Id \cup {NoId}]]
BY GsupAssumption DEF TypeOK

LEMMA ExcuseUpdate ==
  ASSUME TypeOK, NEW i, NEW why \in Excuse
  PROVE  [excuse EXCEPT ![i] = @ \cup {why}] \in [IMSI -> SUBSET Excuse]
BY DEF TypeOK

\* A transaction that is in the table or being handled has its subscriber.
NamedInv == \A c \in Conn :
  c \in ulrTable \/ task[c] # "read" => ulr[c].imsi \in IMSI

TypeInv == TypeOK /\ NamedInv

LEMMA InitTypes == Init => TypeInv
<1>1. << >> \in Seq(Msg)
  BY NoMessages
<1>2. NoTrx \in Trx
  BY DEF NoTrx, Trx, State
<1>3. /\ << >> \in Seq([imsi : IMSI, at : [Role -> Id \cup {NoId}]])
      /\ << >> \in Seq(Work)
  BY EmptySeq
<1>4. QED
  BY <1>1, <1>2, <1>3 DEF Init, TypeInv, TypeOK, NamedInv

LEMMA ServeTypes ==
  ASSUME TypeInv, UNCHANGED orderly, NEW c \in Conn, Serve(c)
  PROVE  TypeInv'
<1> USE CleanType DEF TypeInv, NamedInv
<1>1. ASSUME HandleUlr(c)
      PROVE  TypeInv'
  <2>1. Subject(c) \in IMSI /\ toHss' \in [Conn -> Seq(Msg)]
    BY <1>1, ReadType DEF HandleUlr, Reading
  <2>2. toPeer' \in [Conn -> Seq(Msg)]
    BY <1>1, <2>1, MsgType, WriteType DEF HandleUlr
  <2>3. /\ ulr' \in [Conn -> Trx] /\ ulr'[c].imsi = Subject(c)
        /\ \A d \in Conn : d # c => ulr'[d] = ulr[d]
    BY <1>1, <2>1, NewTrxType DEF HandleUlr, TypeOK
  <2>4. QED
    BY <1>1, <2>1, <2>2, <2>3 DEF HandleUlr, Await, TypeOK, peerVars
<1>2. ASSUME RejectUlr(c)
      PROVE  TypeInv'
  <2>1. Subject(c) \in IMSI /\ toHss' \in [Conn -> Seq(Msg)]
    BY <1>2, ReadType DEF RejectUlr, Reading
  <2>2. toPeer' \in [Conn -> Seq(Msg)]
    BY <1>2, <2>1, MsgType, WriteType DEF RejectUlr
  <2>3. NewTrx(Subject(c)) \in Trx /\ NewTrx(Subject(c)).imsi = Subject(c)
    BY <2>1, NewTrxType
  <2>4. CASE ulrTable' = CleanUlr /\ UNCHANGED ulr
    BY <1>2, <2>1, <2>2, <2>4 DEF RejectUlr, TypeOK, peerVars
  <2>5. CASE /\ ulr' = [ulr EXCEPT ![c] = NewTrx(Subject(c))]
             /\ ulrTable' = CleanUlr \cup {c}
    <3>1. /\ ulr' \in [Conn -> Trx] /\ ulr'[c].imsi = Subject(c)
          /\ \A d \in Conn : d # c => ulr'[d] = ulr[d]
      BY <2>3, <2>5 DEF TypeOK
    <3>2. QED
      BY <1>2, <2>1, <2>2, <2>5, <3>1 DEF RejectUlr, TypeOK, peerVars
  <2>6. QED
    BY <1>2, <2>4, <2>5 DEF RejectUlr
<1>3. ASSUME BegunUlr(c)
      PROVE  TypeInv'
  <2>1. /\ ulr' \in [Conn -> Trx]
        /\ \A d \in Conn : ulr'[d].imsi = ulr[d].imsi
    <3>1. /\ ulr \in [Conn -> Trx] /\ "ISD_REQUEST_SENT" \in State
          /\ ulr' = [ulr EXCEPT ![c].state = "ISD_REQUEST_SENT"]
      BY <1>3 DEF BegunUlr, TypeOK, State
    <3>2. QED
      BY <3>1 DEF Trx
  <2>2. QED
    BY <1>3, <2>1 DEF BegunUlr, Await, TypeOK, peerVars
<1>4. ASSUME ContinueUlr(c)
      PROVE  TypeInv'
  <2>1. /\ Subject(c) \in IMSI /\ toHss' \in [Conn -> Seq(Msg)]
        /\ c \in ulrTable /\ ulr[c].imsi \in IMSI
    BY <1>4, ReadType DEF ContinueUlr, ForUlr, Answering, Reading
  <2>2. toPeer' \in [Conn -> Seq(Msg)]
    BY <1>4, <2>1, MsgType, WriteType DEF ContinueUlr
  <2>3. /\ ulr' \in [Conn -> Trx]
        /\ \A d \in Conn : ulr'[d].imsi = ulr[d].imsi
    <3>1. \A old \in OldPeers(Subject(c), c) : old \in Conn \cup {NoConn}
      BY DEF OldPeers, Active
    <3>2. ulr \in [Conn -> Trx]
      BY DEF TypeOK
    <3>3. UNCHANGED ulr \/ \E old \in Conn \cup {NoConn} :
                              ulr' = [ulr EXCEPT ![c].old = old]
      BY <1>4, <3>1 DEF ContinueUlr
    <3>4. CASE UNCHANGED ulr
      BY <3>2, <3>4
    <3>5. CASE ~UNCHANGED ulr
      <4>1. PICK old \in Conn \cup {NoConn} :
                   ulr' = [ulr EXCEPT ![c].old = old]
        BY <3>3, <3>5
      <4>2. QED
        BY <3>2, <4>1 DEF Trx
    <3>6. QED
      BY <3>4, <3>5
  <2>4. serving' \in [IMSI -> [Role -> Id \cup {NoId}]]
    <3>1. IdOf[c] \in Id \cup {NoId}
      BY GsupAssumption
    <3>2. QED
      <4>1. \/ UNCHANGED serving
            \/ serving' = [serving EXCEPT ![Subject(c)][RoleOf[c]] = IdOf[c]]
        BY <1>4 DEF ContinueUlr, Located
      <4>2. [serving EXCEPT ![Subject(c)][RoleOf[c]] = IdOf[c]]
              \in [IMSI -> [Role -> Id \cup {NoId}]]
        BY <2>1, <3>1, RowUpdate
      <4>3. QED
        BY <4>1, <4>2 DEF TypeOK
  <2>5. QED
    BY <1>4, <2>1, <2>2, <2>3, <2>4 DEF ContinueUlr, Await, TypeOK, peerVars
<1>5. ASSUME AnsweredUlr(c)
      PROVE  TypeInv'
  <2>1. /\ ulr' \in [Conn -> Trx]
        /\ \A d \in Conn : ulr'[d].imsi = ulr[d].imsi
    <3>1. /\ ulr \in [Conn -> Trx] /\ "ULR_SENT" \in State
          /\ ulr' = [ulr EXCEPT ![c].state = "ULR_SENT"]
      BY <1>5 DEF AnsweredUlr, TypeOK, State
    <3>2. QED
      BY <3>1 DEF Trx
  <2>2. toPeer' \in [Conn -> Seq(Msg)]
    <3>1. ulr[c].imsi \in IMSI /\ ulr[c].old \in Conn \cup {NoConn}
      BY <1>5 DEF AnsweredUlr, TypeOK, Trx
    <3>2. CASE ToCancel(c)
      BY <1>5, <3>1, <3>2, MsgType, WriteType DEF AnsweredUlr, ToCancel
    <3>3. CASE ~ToCancel(c)
      BY <1>5, <3>3 DEF AnsweredUlr, TypeOK
    <3>4. QED
      BY <3>2, <3>3
  <2>3. QED
    BY <1>5, <2>1, <2>2 DEF AnsweredUlr, Await, TypeOK, peerVars
<1>6. ASSUME CancelledUlr(c)
      PROVE  TypeInv'
  <2>1. /\ ulr' \in [Conn -> Trx]
        /\ \A d \in Conn : ulr'[d].imsi = ulr[d].imsi
    <3>1. /\ ulr \in [Conn -> Trx] /\ "CANCEL_LOCATION_SENT" \in State
          /\ ulr' = [ulr EXCEPT ![c].state = "CANCEL_LOCATION_SENT"]
      BY <1>6 DEF CancelledUlr, TypeOK, State
    <3>2. QED
      BY <3>1 DEF Trx
  <2>2. QED
    BY <1>6, <2>1 DEF CancelledUlr, Await, TypeOK, peerVars
<1>7. ASSUME ContinueIsd(c)
      PROVE  TypeInv'
  <2>1. toHss' \in [Conn -> Seq(Msg)]
    BY <1>7, ReadType DEF ContinueIsd, ForIsd, Answering, Reading
  <2>2. isd' \in [Conn -> Trx]
    <3>1. /\ isd \in [Conn -> Trx] /\ "END" \in State
          /\ isd' = [isd EXCEPT ![c].state = "END"]
      BY <1>7 DEF ContinueIsd, TypeOK, State
    <3>2. QED
      BY <3>1 DEF Trx
  <2>3. QED
    BY <1>7, <2>1, <2>2 DEF ContinueIsd, TypeOK, peerVars
<1>8. ASSUME RefuseAnswer(c)
      PROVE  TypeInv'
  <2>1. \A d \in Conn : task'[d] # "read" => task[d] # "read"
    BY <1>8 DEF RefuseAnswer, CloseLink, TypeOK
  <2>2. QED
    BY <1>8, <2>1, CloseType DEF RefuseAnswer, TypeOK
<1>9. ASSUME HandlePur(c)
      PROVE  TypeInv'
  <2>1. Subject(c) \in IMSI /\ toHss' \in [Conn -> Seq(Msg)]
    BY <1>9, ReadType DEF HandlePur, Reading
  <2>2. toPeer' \in [Conn -> Seq(Msg)]
    BY <1>9, <2>1, MsgType, WriteType DEF HandlePur
  <2>3. serving' \in [IMSI -> [Role -> Id \cup {NoId}]]
    <3>1. \/ UNCHANGED serving
          \/ serving' = [serving EXCEPT ![Subject(c)][RoleOf[c]] = NoId]
      BY <1>9 DEF HandlePur
    <3>2. [serving EXCEPT ![Subject(c)][RoleOf[c]] = NoId]
            \in [IMSI -> [Role -> Id \cup {NoId}]]
      BY <2>1, RowUpdate
    <3>3. QED
      BY <3>1, <3>2 DEF TypeOK
  <2>4. excuse' \in [IMSI -> SUBSET Excuse]
    <3>1. \/ UNCHANGED excuse
          \/ excuse' = [excuse EXCEPT ![Subject(c)] =
                          @ \cup {"stray purge"}]
      BY <1>9 DEF HandlePur
    <3>2. [excuse EXCEPT ![Subject(c)] = @ \cup {"stray purge"}]
            \in [IMSI -> SUBSET Excuse]
      BY ExcuseUpdate DEF Excuse
    <3>3. QED
      BY <3>1, <3>2 DEF TypeOK
  <2>5. QED
    BY <1>9, <2>1, <2>2, <2>3, <2>4 DEF HandlePur, TypeOK
<1>10. ASSUME SeeLoss(c)
       PROVE  TypeInv'
  <2>1. \A d \in Conn : task'[d] # "read" => task[d] # "read"
    BY <1>10 DEF SeeLoss, CloseLink, TypeOK
  <2>2. excuse' \in [IMSI -> SUBSET Excuse]
    BY <1>10, ExcuseUpdate DEF SeeLoss, TypeOK, Excuse
  <2>3. QED
    BY <1>10, <2>1, <2>2, CloseType DEF SeeLoss, TypeOK, hssVars
<1>11. ASSUME FailUlr(c)
       PROVE  TypeInv'
  <2>1. Subject(c) \in IMSI /\ IdOf[c] \in Id \cup {NoId}
    BY <1>11, ReadType, GsupAssumption
       DEF FailUlr, ForUlr, Answering, Reading
  <2>2. serving' \in [IMSI -> [Role -> Id \cup {NoId}]]
    <3>1. \/ UNCHANGED serving
          \/ serving' = [serving EXCEPT ![Subject(c)][RoleOf[c]] = IdOf[c]]
      BY <1>11 DEF FailUlr, Located
    <3>2. [serving EXCEPT ![Subject(c)][RoleOf[c]] = IdOf[c]]
            \in [IMSI -> [Role -> Id \cup {NoId}]]
      BY <2>1, RowUpdate
    <3>3. QED
      BY <3>1, <3>2 DEF TypeOK
  <2>3. excuse' \in [IMSI -> SUBSET Excuse]
    <3>1. [excuse EXCEPT ![Subject(c)] = @ \cup {"broken off"}]
            \in [IMSI -> SUBSET Excuse]
      BY ExcuseUpdate DEF Excuse
    <3>2. QED
      BY <1>11, <3>1 DEF FailUlr, TypeOK
  <2>4. \A d \in Conn : task'[d] # "read" => task[d] # "read"
    BY <1>11 DEF FailUlr, CloseLink, TypeOK
  <2>5. QED
    BY <1>11, <2>2, <2>3, <2>4, CloseType DEF FailUlr, TypeOK
<1>12. QED
  BY <1>1, <1>2, <1>3, <1>4, <1>5, <1>6, <1>7, <1>8, <1>9, <1>10, <1>11
     DEF Serve

LEMMA PeerTypes ==
  ASSUME TypeInv, UNCHANGED orderly, NEW c \in Conn, PeerStep(c)
  PROVE  TypeInv'
<1> USE DEF TypeInv, NamedInv, hssVars
<1>1. ASSUME Connect(c)
      PROVE  TypeInv'
  BY <1>1 DEF Connect, TypeOK, peerVars
<1>2. ASSUME Disconnect(c)
      PROVE  TypeInv'
  BY <1>2, NoMessages DEF Disconnect, TypeOK
<1>3. ASSUME NEW i \in IMSI, StartUlr(c, i)
      PROVE  TypeInv'
  <2>1. toHss' \in [Conn -> Seq(Msg)]
    BY <1>3, MsgType, SendType DEF StartUlr
  <2>2. asking' \in [Conn -> SUBSET IMSI] /\ requests' \in Nat
    BY <1>3 DEF StartUlr, TypeOK
  <2>3. UNCHANGED <<link, task, toPeer, updates, listener, holds, accepted,
                    excuse, sent, serving, ulr, ulrTable, isd, isdTable>>
    BY <1>3 DEF StartUlr
  <2>4. QED
    BY <2>1, <2>2, <2>3 DEF TypeOK
<1>4. ASSUME NEW i \in IMSI, StartPur(c, i)
      PROVE  TypeInv'
  <2>1. toHss' \in [Conn -> Seq(Msg)]
    BY <1>4, MsgType, SendType DEF StartPur
  <2>2. holds' \in [Conn -> SUBSET IMSI] /\ requests' \in Nat
    BY <1>4 DEF StartPur, TypeOK
  <2>3. UNCHANGED <<link, task, toPeer, updates, listener, asking, accepted,
                    excuse, sent, serving, ulr, ulrTable, isd, isdTable>>
    BY <1>4 DEF StartPur
  <2>4. QED
    BY <2>1, <2>2, <2>3 DEF TypeOK
<1>5. ASSUME NEW types, Receiving(c, types)
      PROVE  /\ Head(toPeer[c]).imsi \in IMSI
             /\ toPeer' \in [Conn -> Seq(Msg)]
  <2>1. toPeer[c] \in Seq(Msg) /\ toPeer[c] # << >>
    BY <1>5 DEF Receiving, TypeOK
  <2>2. Head(toPeer[c]) \in Msg /\ Tail(toPeer[c]) \in Seq(Msg)
    BY <2>1, Taken
  <2>3. QED
    BY <1>5, <2>2 DEF Receiving, TypeOK, Msg
<1>6. ASSUME TakeIsd(c)
      PROVE  TypeInv'
  <2>1. Head(toPeer[c]).imsi \in IMSI /\ toPeer' \in [Conn -> Seq(Msg)]
    BY <1>5, <1>6 DEF TakeIsd
  <2>2. toHss' \in [Conn -> Seq(Msg)]
    BY <1>6, <2>1, MsgType, SendType DEF TakeIsd, TypeOK
  <2>3. accepted' \subseteq Id \X IMSI
    <3>1. <<IdOf[c], Head(toPeer[c]).imsi>> \in Id \X IMSI
      BY <2>1, GsupAssumption
    <3>2. \/ UNCHANGED accepted
          \/ accepted' = accepted \cup {<<IdOf[c], Head(toPeer[c]).imsi>>}
      BY <1>6 DEF TakeIsd
    <3>3. QED
      BY <3>1, <3>2 DEF TypeOK
  <2>4. QED
    BY <1>6, <2>1, <2>2, <2>3 DEF TakeIsd, TypeOK
<1>7. ASSUME TakeAnswer(c)
      PROVE  TypeInv'
  <2>1. Head(toPeer[c]).imsi \in IMSI /\ toPeer' \in [Conn -> Seq(Msg)]
    BY <1>5, <1>7 DEF TakeAnswer
  <2>2. asking' \in [Conn -> SUBSET IMSI]
    BY <1>7, <2>1 DEF TakeAnswer, TypeOK
  <2>3. holds' \in [Conn -> SUBSET IMSI]
    BY <1>7, <2>1 DEF TakeAnswer, TypeOK
  <2>4. QED
    BY <1>7, <2>1, <2>2, <2>3 DEF TakeAnswer, TypeOK
<1>8. QED
  BY <1>1, <1>2, <1>3, <1>4, <1>6, <1>7 DEF PeerStep

LEMMA ListenTypes ==
  ASSUME TypeInv, UNCHANGED orderly, Listen
  PROVE  TypeInv'
<1> DEFINE Update == [imsi : IMSI, at : [Role -> Id \cup {NoId}]]
<1> USE DEF TypeInv, NamedInv
<1>1. ASSUME TakeUpdate
      PROVE  TypeInv'
  <2>1. updates \in Seq(Update) /\ updates # << >>
    BY <1>1 DEF TakeUpdate, TypeOK
  <2>2. Head(updates) \in Update /\ Tail(updates) \in Seq(Update)
    BY <2>1, HeadTailProperties
  <2>3. WorkList(Head(updates)) \in Seq(Work)
    <3>1. ASSUME NEW u \in Update
          PROVE  WorkList(u) \in Seq(Work)
      <4> DEFINE item(r) == [id |-> u.at[r], imsi |-> u.imsi, conn |-> NoConn]
                 work(r) == IF u.at[r] = NoId THEN << >> ELSE << item(r) >>
      <4>1. ASSUME NEW r \in Role
            PROVE  work(r) \in Seq(Work)
        <5>1. u.at[r] \in Id \cup {NoId} /\ u.imsi \in IMSI
          OBVIOUS
        <5>2. CASE u.at[r] = NoId
          <6>1. << >> \in Seq(Work)
            BY EmptySeq
          <6>2. QED
            BY <5>2, <6>1
        <5>3. CASE u.at[r] # NoId
          <6>1. item(r) \in Work
            BY <5>1, <5>3 DEF Work
          <6>2. << item(r) >> \in Seq(Work)
            BY <6>1
          <6>3. QED
            BY <5>3, <6>2
        <5>4. QED
          BY <5>2, <5>3
      <4>2. work("msc") \in Seq(Work) /\ work("sgsn") \in Seq(Work)
        BY <4>1 DEF Role
      <4>3. WorkList(u) = work("msc") \o work("sgsn")
        BY DEF WorkList
      <4> HIDE DEF work
      <4>4. QED
        BY <4>2, <4>3, ConcatProperties
    <3>2. QED
      BY <2>2, <3>1
  <2>4. QED
    BY <1>1, <2>2, <2>3 DEF TakeUpdate, TypeOK, hssVars, peerVars
<1>2. ASSUME listener # << >>
      PROVE  /\ Head(listener) \in Work /\ Tail(listener) \in Seq(Work)
             /\ \A d \in Conn :
                  [listener EXCEPT ![1].conn = d] \in Seq(Work)
  <2>1. listener \in Seq(Work)
    BY DEF TypeOK
  <2>2. Head(listener) \in Work /\ Tail(listener) \in Seq(Work)
    BY <1>2, <2>1, HeadTailProperties
  <2>3. ASSUME NEW d \in Conn
        PROVE  [listener EXCEPT ![1].conn = d] \in Seq(Work)
    <3>1. 1 \in 1 .. Len(listener) /\ listener[1] \in Work
      BY <1>2, <2>1
    <3>2. [listener[1] EXCEPT !.conn = d] \in Work
      BY <3>1 DEF Work
    <3>3. QED
      BY <2>1, <3>1, <3>2
  <2>4. QED
    BY <2>2, <2>3
<1>3. ASSUME SkipUpdate
      PROVE  TypeInv'
  BY <1>2, <1>3 DEF SkipUpdate, TypeOK, hssVars, peerVars
<1>4. ASSUME NEW d \in Conn, BeginIsd(d)
      PROVE  TypeInv'
  <2>1. /\ Head(listener).imsi \in IMSI
        /\ [listener EXCEPT ![1].conn = d] \in Seq(Work)
    BY <1>2, <1>4 DEF BeginIsd, Work
  <2>2. toPeer' \in [Conn -> Seq(Msg)]
    BY <1>4, <2>1, MsgType, WriteType DEF BeginIsd
  <2>3. isd' \in [Conn -> Trx]
    BY <1>4, <2>1, NewTrxType DEF BeginIsd, TypeOK
  <2>4. QED
    BY <1>4, <2>1, <2>2, <2>3 DEF BeginIsd, TypeOK, peerVars
<1>5. ASSUME BegunIsd
      PROVE  TypeInv'
  <2>1. listener' \in Seq(Work)
    <3>1. << >> \in Seq(Work)
      BY EmptySeq
    <3>2. QED
      BY <1>2, <1>5, <3>1 DEF BegunIsd
  <2>2. isd' \in [Conn -> Trx]
    <3>1. isd \in [Conn -> Trx] /\ "ISD_REQUEST_SENT" \in State
      BY DEF TypeOK, State
    <3>2. \/ UNCHANGED isd
          \/ isd' = [isd EXCEPT ![Head(listener).conn].state =
                       "ISD_REQUEST_SENT"]
      BY <1>5 DEF BegunIsd
    <3>3. CASE UNCHANGED isd
      BY <3>1, <3>3
    <3>4. CASE isd' = [isd EXCEPT ![Head(listener).conn].state =
                         "ISD_REQUEST_SENT"]
      BY <3>1, <3>4 DEF Trx
    <3>5. QED
      BY <3>2, <3>3, <3>4
  <2>3. QED
    BY <1>5, <2>1, <2>2 DEF BegunIsd, TypeOK, peerVars
<1>6. QED
  BY <1>1, <1>3, <1>4, <1>5 DEF Listen

LEMMA NextTypes == TypeInv /\ [Next]_vars => TypeInv'
<1> SUFFICES ASSUME TypeInv, [Next]_vars
             PROVE  TypeInv'
  OBVIOUS
<1>1. ASSUME UNCHANGED vars
      PROVE  TypeInv'
  BY <1>1 DEF vars, TypeInv, TypeOK, NamedInv
<1>2. ASSUME NEW c \in Conn, UlrTimeout(c)
      PROVE  UNCHANGED orderly => TypeInv'
  <2>1. /\ ulr' \in [Conn -> Trx]
        /\ \A d \in Conn : ulr'[d].imsi = ulr[d].imsi
    <3>1. ulr \in [Conn -> Trx] /\ ulr' = [ulr EXCEPT ![c].timedOut = TRUE]
      BY <1>2 DEF UlrTimeout, TypeInv, TypeOK
    <3>2. QED
      BY <3>1 DEF Trx
  <2>2. QED
    BY <1>2, <2>1 DEF UlrTimeout, TypeInv, TypeOK, NamedInv, peerVars
<1>3. ASSUME NEW c \in Conn, IsdTimeout(c)
      PROVE  UNCHANGED orderly => TypeInv'
  <2>1. isd' \in [Conn -> Trx]
    <3>1. isd \in [Conn -> Trx] /\ isd' = [isd EXCEPT ![c].timedOut = TRUE]
      BY <1>3 DEF IsdTimeout, TypeInv, TypeOK
    <3>2. QED
      BY <3>1 DEF Trx
  <2>2. QED
    BY <1>3, <2>1 DEF IsdTimeout, TypeInv, TypeOK, NamedInv, peerVars
<1>4. ASSUME NEW i \in IMSI, SendUpdate(i)
      PROVE  UNCHANGED orderly => TypeInv'
  <2> DEFINE Update == [imsi : IMSI, at : [Role -> Id \cup {NoId}]]
  <2>1. updates \in Seq(Update) /\ [imsi |-> i, at |-> serving[i]] \in Update
    BY DEF TypeInv, TypeOK
  <2>2. updates' \in Seq(Update)
    BY <1>4, <2>1, AppendProperties DEF SendUpdate
  <2>3. QED
    BY <1>4, <2>2
       DEF SendUpdate, TypeInv, TypeOK, NamedInv, hssVars, peerVars
<1>5. QED
  BY <1>1, <1>2, <1>3, <1>4, ServeTypes, PeerTypes, ListenTypes DEF Next

\* Type invariant: every queue, transaction and row keeps its shape, and a
\* transaction in use has its subscriber.
THEOREM GsupTypes == Spec => []TypeOK
<1>1. Spec => []TypeInv
  BY InitTypes, NextTypes, PTL DEF Spec
<1>2. QED
  BY <1>1, PTL DEF TypeInv

-----------------------------------------------------------------------------
(***************************************************************************)
(* A peer in a row has taken the subscriber's data.                        *)
(***************************************************************************)

\* An unread result of insert data is from a peer that has taken the data.
AnswerInv == \A c \in Conn : \A m \in ToSet(toHss[c]) :
  m.type = "ISR" => <<IdOf[c], m.imsi>> \in accepted

AcceptedInv == TypeInv /\ AnswerInv /\ ServingAccepted

\* The HSS only takes messages away from what its peers have sent.
LEMMA OnlyReads ==
  ASSUME TypeOK, NEW c \in Conn, Serve(c)
  PROVE  /\ \A d \in Conn : d # c => toHss'[d] = toHss[d]
         /\ ToSet(toHss'[c]) \subseteq ToSet(toHss[c])
         /\ UNCHANGED accepted
<1>1. ASSUME toHss[c] # << >>, Consume(c)
      PROVE  /\ \A d \in Conn : d # c => toHss'[d] = toHss[d]
             /\ ToSet(toHss'[c]) \subseteq ToSet(toHss[c])
  <2>1. toHss[c] \in Seq(Msg)
    BY DEF TypeOK
  <2>2. ToSet(Tail(toHss[c])) \subseteq ToSet(toHss[c])
    BY <1>1, <2>1, Taken
  <2>3. QED
    BY <1>1, <2>2 DEF TypeOK, Consume
<1>2. ASSUME CloseLink(c)
      PROVE  /\ \A d \in Conn : d # c => toHss'[d] = toHss[d]
             /\ ToSet(toHss'[c]) \subseteq ToSet(toHss[c])
  BY <1>2, NoMessages DEF TypeOK, CloseLink
<1>3. CASE HandleUlr(c) \/ RejectUlr(c) \/ ContinueUlr(c) \/ ContinueIsd(c)
           \/ HandlePur(c)
  BY <1>1, <1>3 DEF HandleUlr, RejectUlr, ContinueUlr, ContinueIsd, HandlePur,
                    ForUlr, ForIsd, Answering, Reading, peerVars
<1>4. CASE BegunUlr(c) \/ AnsweredUlr(c) \/ CancelledUlr(c)
  BY <1>4 DEF BegunUlr, AnsweredUlr, CancelledUlr, peerVars
<1>5. CASE RefuseAnswer(c) \/ FailUlr(c) \/ SeeLoss(c)
  BY <1>2, <1>5 DEF RefuseAnswer, FailUlr, SeeLoss
<1>6. QED
  BY <1>3, <1>4, <1>5 DEF Serve

\* It puts a peer in a row only for such a result.
LEMMA OnlyAnswersServe ==
  ASSUME AcceptedInv, NEW c \in Conn, Serve(c)
  PROVE  ServingAccepted'
<1>1. UNCHANGED accepted
  BY OnlyReads DEF AcceptedInv, TypeInv
<1>2. CASE /\ ContinueUlr(c) \/ FailUlr(c)
           /\ Confirms(c) /\ ~UNCHANGED serving
  <2>1. toHss[c] \in Seq(Msg) /\ toHss[c] # << >>
    BY <1>2 DEF AcceptedInv, TypeInv, TypeOK, ContinueUlr, FailUlr, ForUlr,
                Answering, Reading
  <2>2. Head(toHss[c]) \in ToSet(toHss[c]) /\ Subject(c) \in IMSI
    BY <2>1, Taken, ReadType DEF AcceptedInv, TypeInv
  <2>3. <<IdOf[c], Subject(c)>> \in accepted
    BY <1>2, <2>2 DEF AcceptedInv, AnswerInv, Confirms, Subject
  <2>4. serving' = [serving EXCEPT ![Subject(c)][RoleOf[c]] = IdOf[c]]
    BY <1>2 DEF ContinueUlr, FailUlr, Located
  <2>5. ASSUME NEW i \in IMSI, NEW r \in Role
        PROVE  \/ serving'[i][r] = serving[i][r]
               \/ i = Subject(c) /\ serving'[i][r] = IdOf[c]
    BY <2>2, <2>4 DEF AcceptedInv, TypeInv, TypeOK
  <2>6. QED
    BY <1>1, <2>3, <2>5 DEF AcceptedInv, ServingAccepted
<1>3. CASE HandlePur(c)
  <2>1. Subject(c) \in IMSI
    BY <1>3, ReadType DEF AcceptedInv, TypeInv, HandlePur, Reading
  <2>2. ASSUME NEW i \in IMSI, NEW r \in Role
        PROVE  serving'[i][r] \in {serving[i][r], NoId}
    <3>1. \/ UNCHANGED serving
          \/ serving' = [serving EXCEPT ![Subject(c)][RoleOf[c]] = NoId]
      BY <1>3 DEF HandlePur
    <3>2. serving \in [IMSI -> [Role -> Id \cup {NoId}]]
      BY DEF AcceptedInv, TypeInv, TypeOK
    <3>3. CASE serving' = [serving EXCEPT ![Subject(c)][RoleOf[c]] = NoId]
      BY <2>1, <3>2, <3>3
    <3>4. QED
      BY <3>1, <3>3
  <2>3. QED
    BY <1>1, <2>2 DEF AcceptedInv, ServingAccepted
<1>4. CASE UNCHANGED serving
  BY <1>1, <1>4 DEF AcceptedInv, ServingAccepted
<1>5. QED
  BY <1>2, <1>3, <1>4 DEF Serve, HandleUlr, RejectUlr, BegunUlr, ContinueUlr,
     AnsweredUlr, CancelledUlr, ContinueIsd, RefuseAnswer, FailUlr, SeeLoss,
     hssVars

\* What a peer sends.
LEMMA PeerSends ==
  ASSUME TypeInv, NEW c \in Conn, PeerStep(c)
  PROVE  /\ UNCHANGED serving /\ accepted \subseteq accepted'
         /\ \A d \in Conn : d # c => toHss'[d] = toHss[d]
         /\ \/ UNCHANGED toHss
            \/ \E m \in Msg :
                 /\ toHss'[c] = Append(toHss[c], m)
                 /\ m.type = "ISR" => <<IdOf[c], m.imsi>> \in accepted'
<1>1. CASE Connect(c) \/ Disconnect(c)
  BY <1>1 DEF Connect, Disconnect, hssVars, peerVars
<1>2. CASE TakeAnswer(c)
  BY <1>2 DEF TakeAnswer, hssVars
<1>3. ASSUME NEW m \in Msg, Send(c, m)
      PROVE  /\ \A d \in Conn : d # c => toHss'[d] = toHss[d]
             /\ toHss'[c] = Append(toHss[c], m)
  BY <1>3 DEF TypeInv, TypeOK, Send
<1>4. ASSUME NEW i \in IMSI, StartUlr(c, i) \/ StartPur(c, i)
      PROVE  /\ UNCHANGED <<serving, accepted>>
             /\ \E m \in Msg : Send(c, m) /\ m.type # "ISR"
  <2>1. /\ M("ULR", i) \in Msg /\ M("ULR", i).type # "ISR"
        /\ M("PUR", i) \in Msg /\ M("PUR", i).type # "ISR"
    BY MsgType
  <2>2. QED
    BY <1>4, <2>1 DEF StartUlr, StartPur, hssVars
<1>5. CASE TakeIsd(c)
  <2> DEFINE i == Head(toPeer[c]).imsi
  <2>1. toPeer[c] \in Seq(Msg) /\ toPeer[c] # << >>
    BY <1>5 DEF TakeIsd, Receiving, TypeInv, TypeOK
  <2>2. i \in IMSI
    BY <2>1, Taken DEF Msg
  <2>3. /\ M("ISR", i) \in Msg /\ M("ISR", i).imsi = i
        /\ M("ISE", i) \in Msg /\ M("ISE", i).type # "ISR"
    BY <2>2, MsgType
  <2> HIDE DEF i
  <2>4. /\ UNCHANGED serving
        /\ \/ /\ Send(c, M("ISR", i))
              /\ accepted' = accepted \cup {<<IdOf[c], i>>}
           \/ Send(c, M("ISE", i)) /\ UNCHANGED accepted
           \/ UNCHANGED <<toHss, accepted>>
    BY <1>5 DEF TakeIsd, hssVars, i
  <2>5. QED
    BY <1>3, <2>3, <2>4
<1>6. QED
  BY <1>1, <1>2, <1>3, <1>4, <1>5 DEF PeerStep

LEMMA NextAccepted == AcceptedInv /\ [Next]_vars => AcceptedInv'
<1> SUFFICES ASSUME AcceptedInv, [Next]_vars
             PROVE  AcceptedInv'
  OBVIOUS
<1>1. TypeInv'
  BY NextTypes DEF AcceptedInv
<1>2. ASSUME NEW c \in Conn, Serve(c)
      PROVE  AnswerInv' /\ ServingAccepted'
  <2>1. AnswerInv'
    BY <1>2, OnlyReads DEF AcceptedInv, TypeInv, AnswerInv
  <2>2. QED
    BY <1>2, <2>1, OnlyAnswersServe
<1>3. ASSUME NEW c \in Conn, PeerStep(c)
      PROVE  AnswerInv' /\ ServingAccepted'
  <2>1. /\ UNCHANGED serving /\ accepted \subseteq accepted'
        /\ \A d \in Conn : d # c => toHss'[d] = toHss[d]
    BY <1>3, PeerSends DEF AcceptedInv
  <2>2. ASSUME NEW m \in ToSet(toHss'[c]), m.type = "ISR"
        PROVE  <<IdOf[c], m.imsi>> \in accepted'
    <3>1. CASE UNCHANGED toHss
      BY <2>1, <2>2, <3>1 DEF AcceptedInv, AnswerInv
    <3>2. CASE ~UNCHANGED toHss
      <4>1. PICK n \in Msg :
                   /\ toHss'[c] = Append(toHss[c], n)
                   /\ n.type = "ISR" => <<IdOf[c], n.imsi>> \in accepted'
        BY <1>3, <3>2, PeerSends DEF AcceptedInv
      <4>2. toHss[c] \in Seq(Msg)
        BY DEF AcceptedInv, TypeInv, TypeOK
      <4>3. m = n \/ m \in ToSet(toHss[c])
        BY <4>1, <4>2, Appended
      <4>4. QED
        BY <2>1, <2>2, <4>1, <4>3 DEF AcceptedInv, AnswerInv
    <3>3. QED
      BY <3>1, <3>2
  <2>3. AnswerInv'
    BY <2>1, <2>2 DEF AcceptedInv, AnswerInv
  <2>4. QED
    BY <2>1, <2>3 DEF AcceptedInv, ServingAccepted
<1>4. ASSUME UNCHANGED <<toHss, accepted, serving>>
      PROVE  AnswerInv' /\ ServingAccepted'
  BY <1>4 DEF AcceptedInv, AnswerInv, ServingAccepted
<1>5. ASSUME NEW c \in Conn, UlrTimeout(c) \/ IsdTimeout(c)
      PROVE  AnswerInv' /\ ServingAccepted'
  BY <1>4, <1>5 DEF UlrTimeout, IsdTimeout, peerVars
<1>6. ASSUME Listen
      PROVE  AnswerInv' /\ ServingAccepted'
  BY <1>4, <1>6 DEF Listen, TakeUpdate, SkipUpdate, BeginIsd, BegunIsd,
                    hssVars, peerVars
<1>7. ASSUME NEW i \in IMSI, SendUpdate(i)
      PROVE  AnswerInv' /\ ServingAccepted'
  BY <1>4, <1>7 DEF SendUpdate, hssVars, peerVars
<1>8. CASE UNCHANGED vars
  BY <1>1, <1>4, <1>8 DEF vars, AcceptedInv
<1>9. QED
  BY <1>1, <1>2, <1>3, <1>5, <1>6, <1>7, <1>8 DEF AcceptedInv, Next

\* continue_invoke: a peer is in a subscriber's row only when it has taken
\* that subscriber's data, for any number of dialogues and updates.
THEOREM OnlyAcceptedServe == Spec => []ServingAccepted
<1>1. Init => AcceptedInv
  <2>1. ASSUME Init
        PROVE  AnswerInv /\ ServingAccepted
    BY <2>1, NoMessages DEF Init, AnswerInv, ServingAccepted
  <2>2. QED
    BY <2>1, InitTypes DEF AcceptedInv
<1>2. Spec => []AcceptedInv
  BY <1>1, NextAccepted, PTL DEF Spec
<1>3. QED
  BY <1>2, PTL DEF AcceptedInv

-----------------------------------------------------------------------------
(***************************************************************************)
(* One dialogue at a time.                                                 *)
(***************************************************************************)

InsertData == {"ISD", "ISR", "ISE"}

\* Queue h holds what a peer has sent and p what it has been sent, a is what
\* it asks for, W the subscribers its transaction waits for: one message of
\* the dialogue is under way at most, and it is about the right subscriber.
Talk(h, p, a, W) ==
  /\ Single(h) /\ Single(p)
  /\ Silent(h) \/ Silent(p)
  /\ \A m \in ToSet(h) \cup ToSet(p) :
       /\ m.type \in Tokens => a = {m.imsi}
       /\ m.type \in InsertData => m.imsi \in W

\* Subscriber i is the one that c's transaction awaits the data's answer for.
Waiting(c, i) ==
  /\ ulr[c].imsi = i
  /\ task[c] \in {"read", "begin"}
  /\ \/ ulr[c].timedOut
     \/ c \in ulrTable /\ ulr[c].state \in {"INITIAL", "ISD_REQUEST_SENT"}

Awaited(c) == {i \in IMSI : Waiting(c, i)}
Dialogue(c) == Talk(toHss[c], toPeer[c], asking[c], Awaited(c))

OrderlyInv ==
  orderly =>
    /\ isdTable = {} /\ updates = << >> /\ listener = << >>
    /\ \A c \in Conn :
         /\ link[c] = "new" => toHss[c] = << >> /\ toPeer[c] = << >>
         /\ link[c] = "up" => Dialogue(c)

\* Nothing under way.
LEMMA NothingSaid ==
  ASSUME NEW h, NEW p, NEW a, NEW W, Silent(h), Silent(p)
  PROVE  Talk(h, p, a, W)
BY DEF Talk, Silent, Single, ToSet, Tokens, InsertData

\* Nothing was under way, and a message of the dialogue follows.
LEMMA FirstSaid ==
  ASSUME NEW h \in Seq(Msg), NEW p \in Seq(Msg), NEW i \in IMSI,
         NEW m \in Msg, NEW W, Silent(h), Silent(p),
         m.imsi = i, m.type \in InsertData => i \in W
  PROVE  /\ Talk(Append(h, m), p, {i}, W)
         /\ Talk(h, Append(p, m), {i}, W)
<1>1. Single(h) /\ Single(p)
  BY DEF Silent, Single, ToSet
<1>2. /\ Single(Append(h, m)) /\ ToSet(Append(h, m)) = ToSet(h) \cup {m}
      /\ Single(Append(p, m)) /\ ToSet(Append(p, m)) = ToSet(p) \cup {m}
  BY <1>1, Appended
<1>3. \A n \in ToSet(h) \cup ToSet(p) : n.type \notin Tokens \cup InsertData
  BY DEF Silent, Tokens, InsertData
<1>4. QED
  BY <1>1, <1>2, <1>3 DEF Talk

\* A message that is not of the dialogue is added.
LEMMA AsideSaid ==
  ASSUME NEW h \in Seq(Msg), NEW p \in Seq(Msg), NEW a, NEW W,
         NEW m \in Msg, m.type \notin Tokens, Talk(h, p, a, W)
  PROVE  /\ Talk(Append(h, m), p, a, W)
         /\ Talk(h, Append(p, m), a, W)
<1>1. /\ Single(Append(h, m)) /\ ToSet(Append(h, m)) = ToSet(h) \cup {m}
      /\ Single(Append(p, m)) /\ ToSet(Append(p, m)) = ToSet(p) \cup {m}
  BY Appended DEF Talk
<1>2. m.type \notin InsertData
  BY DEF Tokens, InsertData
<1>3. /\ Silent(h) => Silent(Append(h, m))
      /\ Silent(p) => Silent(Append(p, m))
  BY <1>1 DEF Silent
<1>4. QED
  BY <1>1, <1>2, <1>3 DEF Talk

\* A message is read on one side or the other.
LEMMA HssReads ==
  ASSUME NEW h \in Seq(Msg), NEW p \in Seq(Msg), NEW a, NEW W,
         h # << >>, Talk(h, p, a, W)
  PROVE  /\ Talk(Tail(h), p, a, W)
         /\ Head(h).type \in Tokens =>
              Silent(Tail(h)) /\ Silent(p) /\ a = {Head(h).imsi}
         /\ Head(h).type \in InsertData => Head(h).imsi \in W
<1>1. /\ ToSet(h) = {Head(h)} \cup ToSet(Tail(h)) /\ Single(Tail(h))
      /\ Head(h).type \in Tokens => Silent(Tail(h))
  BY Taken DEF Talk
<1>2. Silent(h) => Silent(Tail(h))
  BY <1>1 DEF Silent
<1>3. Head(h).type \in Tokens => Silent(p)
  BY <1>1 DEF Talk, Silent
<1>4. QED
  BY <1>1, <1>2, <1>3 DEF Talk

LEMMA PeerReads ==
  ASSUME NEW h \in Seq(Msg), NEW p \in Seq(Msg), NEW a, NEW W,
         p # << >>, Talk(h, p, a, W)
  PROVE  /\ Talk(h, Tail(p), a, W)
         /\ Head(p).type \in Tokens =>
              Silent(Tail(p)) /\ Silent(h) /\ a = {Head(p).imsi}
         /\ Head(p).type \in InsertData => Head(p).imsi \in W
<1>1. /\ ToSet(p) = {Head(p)} \cup ToSet(Tail(p)) /\ Single(Tail(p))
      /\ Head(p).type \in Tokens => Silent(Tail(p))
  BY Taken DEF Talk
<1>2. Silent(p) => Silent(Tail(p))
  BY <1>1 DEF Silent
<1>3. Head(p).type \in Tokens => Silent(h)
  BY <1>1 DEF Talk, Silent
<1>4. QED
  BY <1>1, <1>2, <1>3 DEF Talk

\* A transaction goes on waiting.
LEMMA WaitsOn ==
  ASSUME NEW h, NEW p, NEW a, NEW W, NEW V, Talk(h, p, a, W), W \subseteq V
  PROVE  Talk(h, p, a, V)
BY DEF Talk

\* The cleaning of the tables leaves it waiting.
LEMMA WaitKept ==
  ASSUME NEW c \in Conn, CleanUlr \subseteq ulrTable',
         ulr'[c] = ulr[c], task'[c] = task[c]
  PROVE  Awaited(c) \subseteq Awaited(c)'
<1>1. \A i : Waiting(c, i) => Waiting(c, i)'
  BY DEF Waiting, CleanUlr, UlrFinished
<1>2. QED
  BY <1>1 DEF Awaited

LEMMA DialogueNext ==
  ASSUME NEW c \in Conn, Talk(toHss'[c], toPeer'[c], asking'[c], Awaited(c)')
  PROVE  Dialogue(c)'
BY DEF Dialogue, Talk, Single, Silent

\* What the task of a connection does to the others: at most a cancellation.
LEMMA OthersServed ==
  ASSUME TypeInv, NEW c \in Conn, Serve(c), NEW d \in Conn, d # c
  PROVE  /\ link'[d] = link[d] /\ toHss'[d] = toHss[d]
         /\ asking'[d] = asking[d]
         /\ Awaited(d) \subseteq Awaited(d)'
         /\ \/ toPeer'[d] = toPeer[d]
            \/ /\ link[d] = "up"
               /\ \E m \in Msg : /\ m.type = "CANCEL"
                               /\ toPeer'[d] = Append(toPeer[d], m)
<1>1. /\ toHss'[d] = toHss[d]
      /\ ulr \in [Conn -> Trx]
      /\ DOMAIN task = Conn /\ DOMAIN toPeer = Conn /\ DOMAIN asking = Conn
      /\ DOMAIN link = Conn
  BY OnlyReads DEF TypeInv, TypeOK
<1>2. CleanUlr \subseteq ulrTable' /\ ulr'[d] = ulr[d] /\ task'[d] = task[d]
  <2>1. CASE HandleUlr(c) \/ RejectUlr(c)
    BY <1>1, <2>1 DEF HandleUlr, RejectUlr, Await
  <2>2. CASE BegunUlr(c) \/ AnsweredUlr(c) \/ CancelledUlr(c)
    BY <1>1, <2>2, CleanType
       DEF BegunUlr, AnsweredUlr, CancelledUlr, Await, TypeInv
  <2>3. CASE ContinueUlr(c)
    BY <1>1, <2>3 DEF ContinueUlr, Await
  <2>4. CASE ContinueIsd(c) \/ HandlePur(c)
    BY <2>4 DEF ContinueIsd, HandlePur
  <2>5. CASE RefuseAnswer(c) \/ FailUlr(c) \/ SeeLoss(c)
    BY <1>1, <2>5, CleanType
       DEF RefuseAnswer, FailUlr, SeeLoss, CloseLink, hssVars, TypeInv
  <2>6. QED
    BY <2>1, <2>2, <2>3, <2>4, <2>5 DEF Serve
<1>3. link'[d] = link[d] /\ asking'[d] = asking[d]
  <2>1. CASE CloseLink(c)
    BY <1>1, <2>1 DEF CloseLink
  <2>2. CASE ~CloseLink(c)
    BY <2>2 DEF Serve, HandleUlr, RejectUlr, BegunUlr, ContinueUlr,
                AnsweredUlr, CancelledUlr, ContinueIsd, RefuseAnswer, FailUlr,
                HandlePur, SeeLoss, peerVars
  <2>3. QED
    BY <2>1, <2>2
<1>4. \/ toPeer'[d] = toPeer[d]
      \/ /\ link[d] = "up"
         /\ \E m \in Msg : /\ m.type = "CANCEL"
                         /\ toPeer'[d] = Append(toPeer[d], m)
  <2>1. ASSUME NEW m, Write(c, m)
        PROVE  toPeer'[d] = toPeer[d]
    BY <1>1, <2>1 DEF Write
  <2>2. CASE HandleUlr(c) \/ RejectUlr(c) \/ ContinueUlr(c) \/ HandlePur(c)
    BY <2>1, <2>2 DEF HandleUlr, RejectUlr, ContinueUlr, HandlePur
  <2>3. CASE BegunUlr(c) \/ CancelledUlr(c) \/ ContinueIsd(c)
    BY <2>3 DEF BegunUlr, CancelledUlr, ContinueIsd
  <2>4. CASE RefuseAnswer(c) \/ FailUlr(c) \/ SeeLoss(c)
    BY <1>1, <2>4 DEF RefuseAnswer, FailUlr, SeeLoss, CloseLink
  <2>5. CASE AnsweredUlr(c)
    <3>1. CASE toPeer' = toPeer
      BY <3>1
    <3>2. CASE toPeer' # toPeer
      <4>1. Write(ulr[c].old, M("CANCEL", ulr[c].imsi))
        BY <2>5, <3>2 DEF AnsweredUlr
      <4>2. /\ link[ulr[c].old] = "up"
            /\ toPeer' = [toPeer EXCEPT ![ulr[c].old] =
                             Append(@, M("CANCEL", ulr[c].imsi))]
        BY <3>2, <4>1 DEF Write
      <4>3. /\ M("CANCEL", ulr[c].imsi) \in Msg
            /\ M("CANCEL", ulr[c].imsi).type = "CANCEL"
        BY <2>5, MsgType DEF AnsweredUlr, TypeInv, NamedInv
      <4>4. CASE ulr[c].old = d
        BY <1>1, <4>2, <4>3, <4>4
      <4>5. CASE ulr[c].old # d
        BY <1>1, <4>2, <4>5
      <4>6. QED
        BY <4>4, <4>5
    <3>3. QED
      BY <3>1, <3>2
  <2>6. QED
    BY <2>2, <2>3, <2>4, <2>5 DEF Serve
<1>5. QED
  BY <1>1, <1>2, <1>3, <1>4, WaitKept

\* What it does to its own dialogue.
LEMMA OwnServed ==
  ASSUME TypeInv, OrderlyInv, orderly, NEW c \in Conn, Serve(c),
         link[c] = "up", link'[c] = "up"
  PROVE  Dialogue(c)'
<1> DEFINE h == toHss[c]
           p == toPeer[c]
           i == Subject(c)
<1>1. /\ h \in Seq(Msg) /\ p \in Seq(Msg) /\ isdTable = {}
      /\ Talk(h, p, asking[c], Awaited(c))
      /\ ulr \in [Conn -> Trx] /\ DOMAIN task = Conn
  BY DEF TypeInv, TypeOK, OrderlyInv, Dialogue
<1>2. ASSUME NEW m, Write(c, m)
      PROVE  toPeer'[c] = Append(p, m)
  BY <1>2 DEF Write, TypeInv, TypeOK
<1>3. ASSUME Consume(c)
      PROVE  toHss'[c] = Tail(h)
  BY <1>3 DEF Consume, TypeInv, TypeOK
<1>4. ASSUME h # << >>
      PROVE  /\ Tail(h) \in Seq(Msg) /\ i \in IMSI /\ i = Head(h).imsi
             /\ Talk(Tail(h), p, asking[c], Awaited(c))
             /\ Head(h).type \in Tokens =>
                  Silent(Tail(h)) /\ Silent(p) /\ asking[c] = {i}
             /\ Head(h).type \in InsertData => i \in Awaited(c)
  <2>1. Head(h) \in Msg /\ Tail(h) \in Seq(Msg)
    BY <1>1, <1>4, Taken
  <2>2. QED
    BY <1>1, <1>4, <2>1, HssReads DEF Subject, Msg
<1> HIDE DEF h, p, i
<1>5. CASE HandleUlr(c)
  <2>1. h # << >> /\ Head(h).type = "ULR" /\ asking' = asking
    BY <1>5 DEF HandleUlr, Reading, peerVars, h
  <2>2. /\ Silent(Tail(h)) /\ Silent(p) /\ asking'[c] = {i} /\ i \in IMSI
        /\ Tail(h) \in Seq(Msg)
    BY <1>4, <2>1 DEF Tokens
  <2>3. /\ toHss'[c] = Tail(h) /\ toPeer'[c] = Append(p, M("ISD", i))
        /\ M("ISD", i) \in Msg /\ M("ISD", i).imsi = i
    BY <1>2, <1>3, <1>5, <2>2, MsgType DEF HandleUlr, i
  <2>4. i \in Awaited(c)'
    <3>1. ulr'[c] = NewTrx(i) /\ c \in ulrTable' /\ task'[c] = "begin"
      BY <1>1, <1>5 DEF HandleUlr, Await, i
    <3>2. NewTrx(i).imsi = i /\ NewTrx(i).state = "INITIAL"
      BY <2>2, NewTrxType
    <3>3. QED
      BY <2>2, <3>1, <3>2 DEF Awaited, Waiting
  <2>5. Talk(Tail(h), Append(p, M("ISD", i)), {i}, Awaited(c)')
    BY <1>1, <2>2, <2>3, <2>4, FirstSaid
  <2>6. QED
    BY <2>2, <2>3, <2>5, DialogueNext
<1>6. CASE RejectUlr(c)
  <2>1. h # << >> /\ Head(h).type = "ULR" /\ asking' = asking
    BY <1>6 DEF RejectUlr, Reading, peerVars, h
  <2>2. /\ Silent(Tail(h)) /\ Silent(p) /\ asking'[c] = {i} /\ i \in IMSI
        /\ Tail(h) \in Seq(Msg)
    BY <1>4, <2>1 DEF Tokens
  <2>3. /\ toHss'[c] = Tail(h) /\ toPeer'[c] = Append(p, M("ULR_ERR", i))
        /\ M("ULR_ERR", i) \in Msg /\ M("ULR_ERR", i).imsi = i
        /\ M("ULR_ERR", i).type \notin InsertData
    BY <1>2, <1>3, <1>6, <2>2, MsgType DEF RejectUlr, i, InsertData
  <2>4. Talk(Tail(h), Append(p, M("ULR_ERR", i)), {i}, Awaited(c)')
    BY <1>1, <2>2, <2>3, FirstSaid
  <2>5. QED
    BY <2>2, <2>3, <2>4, DialogueNext
<1>7. CASE BegunUlr(c)
  <2>1. Awaited(c) \subseteq Awaited(c)'
    <3>1. /\ ulr'[c].imsi = ulr[c].imsi /\ ulr'[c].timedOut = ulr[c].timedOut
          /\ ulr'[c].state = "ISD_REQUEST_SENT"
          /\ task'[c] = "read" /\ ulrTable' = ulrTable
      BY <1>1, <1>7 DEF BegunUlr, Await, Trx
    <3>2. QED
      BY <3>1 DEF Awaited, Waiting
  <2>2. toHss'[c] = h /\ toPeer'[c] = p /\ asking'[c] = asking[c]
    BY <1>7 DEF BegunUlr, peerVars, h, p
  <2>3. QED
    BY <1>1, <2>1, <2>2, WaitsOn, DialogueNext
<1>8. CASE ContinueUlr(c)
  <2>1. h # << >> /\ Head(h).type \in {"ISR", "ISE"} /\ asking' = asking
    BY <1>8 DEF ContinueUlr, ForUlr, Answering, Reading, peerVars, h
  <2>2. /\ Silent(Tail(h)) /\ Silent(p) /\ asking'[c] = {i} /\ i \in IMSI
        /\ Tail(h) \in Seq(Msg) /\ i \in Awaited(c)
    BY <1>4, <2>1 DEF Tokens, InsertData
  <2>3. ulr[c].imsi = i
    BY <2>2 DEF Awaited, Waiting
  <2>4. toHss'[c] = Tail(h)
    BY <1>3, <1>8 DEF ContinueUlr
  <2>5. PICK type \in {"ULR_RES", "ULR_ERR"} :
               toPeer'[c] = Append(p, M(type, i))
    BY <1>2, <1>8, <2>3 DEF ContinueUlr
  <2>6. /\ M(type, i) \in Msg /\ M(type, i).imsi = i
        /\ M(type, i).type \notin InsertData
    BY <2>2, MsgType DEF InsertData
  <2>7. Talk(Tail(h), Append(p, M(type, i)), {i}, Awaited(c)')
    BY <1>1, <2>2, <2>6, FirstSaid
  <2>8. QED
    BY <2>2, <2>4, <2>5, <2>7, DialogueNext
<1>9. CASE AnsweredUlr(c) \/ CancelledUlr(c)
  <2>1. Awaited(c) = {}
    BY <1>9 DEF AnsweredUlr, CancelledUlr, Awaited, Waiting
  <2>2. toHss'[c] = h /\ asking'[c] = asking[c]
    BY <1>9 DEF AnsweredUlr, CancelledUlr, peerVars, h
  <2>3. toPeer'[c] = p
    <3>1. CASE UNCHANGED toPeer
      BY <3>1 DEF p
    <3>2. CASE ~UNCHANGED toPeer
      <4>1. ulr[c].old # c /\ Write(ulr[c].old, M("CANCEL", ulr[c].imsi))
        BY <1>9, <3>2 DEF AnsweredUlr, CancelledUlr, ToCancel
      <4>2. QED
        BY <4>1 DEF Write, TypeInv, TypeOK, p
    <3>3. QED
      BY <3>1, <3>2
  <2>4. QED
    BY <1>1, <2>1, <2>2, <2>3, WaitsOn, DialogueNext
<1>10. CASE HandlePur(c)
  <2>1. h # << >> /\ asking' = asking
    BY <1>10 DEF HandlePur, Reading, h
  <2>2. /\ Tail(h) \in Seq(Msg) /\ i \in IMSI
        /\ Talk(Tail(h), p, asking[c], Awaited(c))
    BY <1>4, <2>1
  <2>3. toHss'[c] = Tail(h)
    BY <1>3, <1>10 DEF HandlePur
  <2>4. PICK type \in {"PUR_RES", "PUR_ERR"} :
               toPeer'[c] = Append(p, M(type, i))
    BY <1>2, <1>10 DEF HandlePur, i
  <2>5. M(type, i) \in Msg /\ M(type, i).type \notin Tokens
    BY <2>2, MsgType DEF Tokens
  <2>6. Awaited(c) \subseteq Awaited(c)'
    BY <1>10, WaitKept DEF HandlePur
  <2>7. Talk(Tail(h), Append(p, M(type, i)), asking[c], Awaited(c))
    BY <1>1, <2>2, <2>5, AsideSaid
  <2>8. QED
    BY <2>1, <2>3, <2>4, <2>6, <2>7, WaitsOn, DialogueNext
<1>11. CASE ContinueIsd(c) \/ RefuseAnswer(c) \/ FailUlr(c) \/ SeeLoss(c)
  BY <1>1, <1>11
     DEF ContinueIsd, ForIsd, CleanIsd, RefuseAnswer, FailUlr, SeeLoss,
         CloseLink,
         TypeInv, TypeOK
<1>12. QED
  BY <1>5, <1>6, <1>7, <1>8, <1>9, <1>10, <1>11 DEF Serve

LEMMA ServeOrderly ==
  ASSUME TypeInv, OrderlyInv, UNCHANGED orderly, NEW c \in Conn, Serve(c)
  PROVE  OrderlyInv'
<1> SUFFICES ASSUME orderly
             PROVE  OrderlyInv'
  BY DEF OrderlyInv
<1>1. isdTable' = {} /\ updates' = << >> /\ listener' = << >>
  <2>1. UNCHANGED <<updates, listener>>
    BY DEF Serve, HandleUlr, RejectUlr, BegunUlr, ContinueUlr, AnsweredUlr,
           CancelledUlr, ContinueIsd, RefuseAnswer, FailUlr, HandlePur, SeeLoss
  <2>2. isdTable' \in {isdTable, CleanIsd}
    BY DEF Serve, HandleUlr, RejectUlr, BegunUlr, ContinueUlr, AnsweredUlr,
           CancelledUlr, ContinueIsd, RefuseAnswer, FailUlr, HandlePur,
           SeeLoss, hssVars
  <2>3. QED
    BY <2>1, <2>2 DEF OrderlyInv, CleanIsd
<1>2. link[c] # "new" /\ link'[c] # "new"
  <2>1. link[c] # "new"
    BY DEF Serve, HandleUlr, RejectUlr, BegunUlr, ContinueUlr, AnsweredUlr,
           CancelledUlr, ContinueIsd, RefuseAnswer, FailUlr, HandlePur,
           SeeLoss,
           ForUlr, ForIsd, Answering, Reading, Active
  <2>2. CASE CloseLink(c)
    BY <2>1, <2>2 DEF CloseLink, TypeInv, TypeOK
  <2>3. CASE ~CloseLink(c)
    <3>1. UNCHANGED link
      BY <2>3 DEF Serve, HandleUlr, RejectUlr, BegunUlr, ContinueUlr,
                  AnsweredUlr, CancelledUlr, ContinueIsd, RefuseAnswer,
                  FailUlr,
                  HandlePur, SeeLoss
    <3>2. QED
      BY <2>1, <3>1
  <2>4. QED
    BY <2>2, <2>3
<1>3. link'[c] = "up" => Dialogue(c)'
  <2>1. link'[c] = "up" => link[c] = "up"
    <3>1. link'[c] \in {link[c], "closed"}
      BY DEF Serve, HandleUlr, RejectUlr, BegunUlr, ContinueUlr, AnsweredUlr,
             CancelledUlr, ContinueIsd, RefuseAnswer, FailUlr, HandlePur,
             SeeLoss,
             CloseLink, TypeInv, TypeOK
    <3>2. QED
      BY <3>1
  <2>2. QED
    BY <2>1, OwnServed
<1>4. ASSUME NEW d \in Conn, d # c
      PROVE  /\ link'[d] = "new" => toHss'[d] = << >> /\ toPeer'[d] = << >>
             /\ link'[d] = "up" => Dialogue(d)'
  <2>1. /\ link'[d] = link[d] /\ toHss'[d] = toHss[d]
        /\ asking'[d] = asking[d] /\ Awaited(d) \subseteq Awaited(d)'
        /\ \/ toPeer'[d] = toPeer[d]
           \/ /\ link[d] = "up"
              /\ \E m \in Msg : /\ m.type = "CANCEL"
                              /\ toPeer'[d] = Append(toPeer[d], m)
    BY <1>4, OthersServed
  <2>2. link'[d] = "new" => toHss'[d] = << >> /\ toPeer'[d] = << >>
    BY <2>1 DEF OrderlyInv
  <2>3. ASSUME link'[d] = "up"
        PROVE  Dialogue(d)'
    <3>1. /\ Talk(toHss[d], toPeer[d], asking[d], Awaited(d))
          /\ toHss[d] \in Seq(Msg) /\ toPeer[d] \in Seq(Msg)
      BY <2>1, <2>3 DEF OrderlyInv, Dialogue, TypeInv, TypeOK
    <3>2. Talk(toHss[d], toPeer'[d], asking[d], Awaited(d))
      <4>1. CASE toPeer'[d] = toPeer[d]
        BY <3>1, <4>1
      <4>2. CASE toPeer'[d] # toPeer[d]
        <5>1. PICK m \in Msg : /\ m.type = "CANCEL"
                               /\ toPeer'[d] = Append(toPeer[d], m)
          BY <2>1, <4>2
        <5>2. Talk(toHss[d], Append(toPeer[d], m), asking[d], Awaited(d))
          BY <3>1, <5>1, AsideSaid DEF Tokens
        <5>3. QED
          BY <5>1, <5>2
      <4>3. QED
        BY <4>1, <4>2
    <3>3. Talk(toHss[d], toPeer'[d], asking[d], Awaited(d)')
      BY <2>1, <3>2, WaitsOn
    <3>4. QED
      BY <2>1, <3>3, DialogueNext
  <2>4. QED
    BY <2>2, <2>3
<1>5. QED
  BY <1>1, <1>2, <1>3, <1>4 DEF OrderlyInv

LEMMA PeerOrderly ==
  ASSUME TypeInv, OrderlyInv, UNCHANGED orderly, NEW c \in Conn, PeerStep(c)
  PROVE  OrderlyInv'
<1> SUFFICES ASSUME orderly
             PROVE  OrderlyInv'
  BY DEF OrderlyInv
<1> DEFINE h == toHss[c]
           p == toPeer[c]
<1>1. /\ UNCHANGED <<isdTable, updates, listener, ulr, ulrTable, task>>
      /\ \A d \in Conn : d # c =>
           /\ link'[d] = link[d] /\ toHss'[d] = toHss[d]
           /\ toPeer'[d] = toPeer[d] /\ asking'[d] = asking[d]
  <2>1. UNCHANGED <<isdTable, updates, listener, ulr, ulrTable, task>>
    BY DEF PeerStep, Connect, Disconnect, StartUlr, StartPur, TakeIsd,
           TakeAnswer, hssVars, peerVars
  <2>2. ASSUME NEW d \in Conn, d # c
        PROVE  link'[d] = link[d] /\ toHss'[d] = toHss[d]
               /\ toPeer'[d] = toPeer[d] /\ asking'[d] = asking[d]
    BY <2>2 DEF PeerStep, Connect, Disconnect, StartUlr, StartPur, TakeIsd,
                TakeAnswer, Receiving, Send, peerVars, TypeInv, TypeOK
  <2>3. QED
    BY <2>1, <2>2
<1>2. Awaited(c)' = Awaited(c)
  BY <1>1 DEF Awaited, Waiting
<1>3. /\ h \in Seq(Msg) /\ p \in Seq(Msg) /\ asking \in [Conn -> SUBSET IMSI]
      /\ link[c] = "up" => Talk(h, p, asking[c], Awaited(c))
      /\ link[c] = "new" => h = << >> /\ p = << >>
      /\ toHss \in [Conn -> Seq(Msg)] /\ toPeer \in [Conn -> Seq(Msg)]
      /\ DOMAIN link = Conn
  BY DEF TypeInv, TypeOK, OrderlyInv, Dialogue
<1>4. ASSUME NEW m, Send(c, m)
      PROVE  toHss'[c] = Append(h, m)
  BY <1>3, <1>4 DEF Send
<1>5. ASSUME NEW types, Receiving(c, types)
      PROVE  /\ link[c] = "up" /\ toPeer'[c] = Tail(p)
             /\ Head(p).type \in types
             /\ Tail(p) \in Seq(Msg) /\ Head(p).imsi \in IMSI
             /\ Talk(h, Tail(p), asking[c], Awaited(c))
             /\ Head(p).type \in Tokens =>
                  Silent(Tail(p)) /\ Silent(h) /\ asking[c] = {Head(p).imsi}
             /\ Head(p).type \in InsertData => Head(p).imsi \in Awaited(c)
  <2>1. /\ p # << >> /\ link[c] = "up" /\ toPeer'[c] = Tail(p)
        /\ Head(p).type \in types
    BY <1>3, <1>5 DEF Receiving
  <2>2. Head(p) \in Msg /\ Tail(p) \in Seq(Msg)
    BY <1>3, <2>1, Taken
  <2>3. Head(p).imsi \in IMSI
    BY <2>2 DEF Msg
  <2>4. QED
    BY <1>3, <2>1, <2>2, <2>3, PeerReads
<1> HIDE DEF h, p
<1>6. /\ link'[c] # "new"
      /\ link'[c] = "up" => Talk(toHss'[c], toPeer'[c], asking'[c], Awaited(c))
  <2>1. CASE Connect(c)
    <3>1. link'[c] = "up" /\ toHss'[c] = << >> /\ toPeer'[c] = << >>
      BY <1>3, <2>1 DEF Connect, h, p
    <3>2. Talk(<< >>, << >>, asking'[c], Awaited(c))
      BY NoMessages, NothingSaid
    <3>3. QED
      BY <3>1, <3>2
  <2>2. CASE Disconnect(c)
    BY <1>3, <2>2 DEF Disconnect
  <2>3. ASSUME NEW i \in IMSI, StartUlr(c, i)
        PROVE  /\ link'[c] = "up"
               /\ Talk(toHss'[c], toPeer'[c], asking'[c], Awaited(c))
    <3>1. /\ link[c] = "up" /\ link'[c] = "up" /\ toPeer'[c] = p
          /\ asking[c] = {} /\ asking'[c] = {i}
          /\ toHss'[c] = Append(h, M("ULR", i))
      BY <1>3, <1>4, <2>3 DEF StartUlr, p
    <3>2. Silent(h) /\ Silent(p)
      BY <1>3, <3>1 DEF Talk, Silent
    <3>3. /\ M("ULR", i) \in Msg /\ M("ULR", i).imsi = i
          /\ M("ULR", i).type \notin InsertData
      BY MsgType DEF InsertData
    <3>4. Talk(Append(h, M("ULR", i)), p, {i}, Awaited(c))
      BY <1>3, <3>2, <3>3, FirstSaid
    <3>5. QED
      BY <3>1, <3>4
  <2>4. ASSUME NEW i \in IMSI, StartPur(c, i)
        PROVE  /\ link'[c] = "up"
               /\ Talk(toHss'[c], toPeer'[c], asking'[c], Awaited(c))
    <3>1. /\ link[c] = "up" /\ link'[c] = "up" /\ toPeer'[c] = p
          /\ asking'[c] = asking[c] /\ toHss'[c] = Append(h, M("PUR", i))
      BY <1>3, <1>4, <2>4 DEF StartPur, p
    <3>2. M("PUR", i) \in Msg /\ M("PUR", i).type \notin Tokens
      BY MsgType DEF Tokens
    <3>3. Talk(Append(h, M("PUR", i)), p, asking[c], Awaited(c))
      BY <1>3, <3>1, <3>2, AsideSaid
    <3>4. QED
      BY <3>1, <3>3
  <2>5. CASE TakeIsd(c)
    <3> DEFINE i == Head(p).imsi
    <3>1. /\ link[c] = "up" /\ toPeer'[c] = Tail(p) /\ Head(p).type = "ISD"
          /\ Tail(p) \in Seq(Msg) /\ i \in IMSI
          /\ Silent(Tail(p)) /\ Silent(h) /\ asking[c] = {i}
          /\ i \in Awaited(c)
      BY <1>5, <2>5 DEF TakeIsd, Tokens, InsertData
    <3>2. /\ link'[c] = "up" /\ asking'[c] = asking[c]
          /\ \/ toHss'[c] = h
             \/ toHss'[c] = Append(h, M("ISR", i))
             \/ toHss'[c] = Append(h, M("ISE", i))
      BY <1>4, <2>5, <3>1 DEF TakeIsd, h, p
    <3>3. \A type \in {"ISR", "ISE"} :
            M(type, i) \in Msg /\ M(type, i).imsi = i
      BY <3>1, MsgType
    <3> HIDE DEF i
    <3>4. \A type \in {"ISR", "ISE"} :
            Talk(Append(h, M(type, i)), Tail(p), {i}, Awaited(c))
      BY <1>3, <3>1, <3>3, FirstSaid
    <3>5. Talk(h, Tail(p), asking[c], Awaited(c))
      BY <3>1, NothingSaid
    <3>6. QED
      BY <3>1, <3>2, <3>4, <3>5
  <2>6. CASE TakeAnswer(c)
    <3>1. /\ link[c] = "up" /\ toPeer'[c] = Tail(p)
          /\ Talk(h, Tail(p), asking[c], Awaited(c))
          /\ Head(p).type \in Tokens => Silent(Tail(p)) /\ Silent(h)
      BY <1>5, <2>6 DEF TakeAnswer
    <3>2. link'[c] = "up" /\ toHss'[c] = h
      BY <2>6, <3>1 DEF TakeAnswer, h
    <3>3. CASE Head(p).type \in {"ULR_RES", "ULR_ERR"}
      BY <3>1, <3>2, <3>3, NothingSaid DEF Tokens
    <3>4. CASE Head(p).type \notin {"ULR_RES", "ULR_ERR"}
      <4>1. asking'[c] = asking[c]
        BY <1>3, <2>6, <3>4 DEF TakeAnswer, p
      <4>2. QED
        BY <3>1, <3>2, <4>1
    <3>5. QED
      BY <3>3, <3>4
  <2>7. QED
    BY <2>1, <2>2, <2>3, <2>4, <2>5, <2>6 DEF PeerStep
<1>7. link'[c] = "up" => Dialogue(c)'
  BY <1>2, <1>6, DialogueNext
<1>8. ASSUME NEW d \in Conn, d # c
      PROVE  /\ link'[d] = "new" => toHss'[d] = << >> /\ toPeer'[d] = << >>
             /\ link'[d] = "up" => Dialogue(d)'
  <2>1. /\ link'[d] = link[d] /\ toHss'[d] = toHss[d]
        /\ toPeer'[d] = toPeer[d] /\ asking'[d] = asking[d]
        /\ Awaited(d)' = Awaited(d)
    BY <1>1, <1>8 DEF Awaited, Waiting
  <2>2. link[d] = "up" => Talk(toHss[d], toPeer[d], asking[d], Awaited(d))
    BY DEF OrderlyInv, Dialogue
  <2>3. link'[d] = "up" => Dialogue(d)'
    BY <2>1, <2>2, DialogueNext
  <2>4. QED
    BY <2>1, <2>3 DEF OrderlyInv
<1>9. QED
  BY <1>1, <1>6, <1>7, <1>8 DEF OrderlyInv

LEMMA NextOrderly == TypeInv /\ OrderlyInv /\ [Next]_vars => OrderlyInv'
<1> SUFFICES ASSUME TypeInv, OrderlyInv, [Next]_vars
             PROVE  OrderlyInv'
  OBVIOUS
<1>1. ASSUME UNCHANGED <<orderly, isdTable, updates, listener, link, toHss,
                         toPeer, asking>>,
             \A c \in Conn : Awaited(c) \subseteq Awaited(c)'
      PROVE  OrderlyInv'
  <2>1. ASSUME NEW c \in Conn, Dialogue(c)
        PROVE  Dialogue(c)'
    <3>1. Talk(toHss[c], toPeer[c], asking[c], Awaited(c)')
      BY <1>1, <2>1, WaitsOn DEF Dialogue
    <3>2. QED
      BY <1>1, <3>1, DialogueNext
  <2>2. QED
    BY <1>1, <2>1 DEF OrderlyInv
<1>2. CASE UNCHANGED vars
  <2>1. \A c \in Conn : Awaited(c) = Awaited(c)'
    BY <1>2 DEF vars, Awaited, Waiting
  <2>2. QED
    BY <1>1, <1>2, <2>1 DEF vars
<1>3. ASSUME NEW c \in Conn, UlrTimeout(c), UNCHANGED orderly
      PROVE  OrderlyInv'
  <2>1. ASSUME NEW d \in Conn
        PROVE  Awaited(d) \subseteq Awaited(d)'
    <3>1. /\ ulr'[d].imsi = ulr[d].imsi /\ ulr'[d].state = ulr[d].state
          /\ ulr[d].timedOut => ulr'[d].timedOut
      <4>1. /\ ulr \in [Conn -> Trx]
            /\ ulr' = [ulr EXCEPT ![c].timedOut = TRUE]
        BY <1>3 DEF UlrTimeout, TypeInv, TypeOK
      <4>2. QED
        BY <4>1 DEF Trx
    <3>2. UNCHANGED <<task, ulrTable>>
      BY <1>3 DEF UlrTimeout
    <3>3. QED
      BY <3>1, <3>2 DEF Awaited, Waiting
  <2>2. QED
    BY <1>1, <1>3, <2>1 DEF UlrTimeout, peerVars
<1>4. ASSUME NEW c \in Conn, IsdTimeout(c), UNCHANGED orderly
      PROVE  OrderlyInv'
  BY <1>4 DEF IsdTimeout, OrderlyInv
<1>5. ASSUME Listen, UNCHANGED orderly
      PROVE  OrderlyInv'
  BY <1>5 DEF Listen, TakeUpdate, SkipUpdate, BeginIsd, BegunIsd, OrderlyInv
<1>6. ASSUME NEW i \in IMSI, SendUpdate(i), UNCHANGED orderly
      PROVE  OrderlyInv'
  BY <1>6 DEF SendUpdate, OrderlyInv
<1>7. QED
  BY <1>2, <1>3, <1>4, <1>5, <1>6, ServeOrderly, PeerOrderly DEF Next

LEMMA AlwaysOrderly == Spec => [](TypeInv /\ OrderlyInv)
<1>1. Init => TypeInv /\ OrderlyInv
  BY InitTypes DEF Init, OrderlyInv
<1>2. QED
  BY <1>1, NextTypes, NextOrderly, PTL DEF Spec

\* Only an update that was confirmed is answered with success.
LEMMA OnlyConfirmed ==
  ASSUME TypeInv, [Next]_vars, NEW c \in Conn, Wrote(c, "ULR_RES")
  PROVE  /\ ContinueUlr(c) /\ Confirms(c) /\ link[c] = "up"
         /\ Written(c) = ulr[c].imsi
<1> DEFINE p == toPeer[c]
<1>1. p \in Seq(Msg) /\ toPeer \in [Conn -> Seq(Msg)]
  BY DEF TypeInv, TypeOK
<1>2. ASSUME NEW m \in Msg, toPeer'[c] = Append(p, m)
      PROVE  m.type = "ULR_RES" /\ Written(c) = m.imsi
  <2>1. /\ Len(toPeer'[c]) = Len(p) + 1
        /\ toPeer'[c][Len(p) + 1] = m
    BY <1>1, <1>2, Appended
  <2>2. QED
    BY <2>1 DEF Wrote, Written
<1>3. /\ toPeer'[c] # p /\ toPeer'[c] # << >>
      /\ p # << >> => toPeer'[c] # Tail(p)
  <2>1. /\ Len(p) \in Nat /\ Len(<< >>) = 0
        /\ p # << >> => Len(Tail(p)) < Len(p) /\ Len(Tail(p)) \in Nat
    BY <1>1, Taken, LenProperties, NoMessages
  <2>2. Len(toPeer'[c]) > Len(p)
    BY DEF Wrote
  <2>3. /\ toPeer'[c] = p => FALSE
        /\ toPeer'[c] = << >> => FALSE
        /\ p # << >> /\ toPeer'[c] = Tail(p) => FALSE
    <3> HIDE DEF p
    <3>1. toPeer'[c] = p => FALSE
      BY <2>1, <2>2
    <3>2. toPeer'[c] = << >> => FALSE
      BY <2>1, <2>2
    <3>3. p # << >> /\ toPeer'[c] = Tail(p) => FALSE
      BY <2>1, <2>2
    <3>4. QED
      BY <3>1, <3>2, <3>3
  <2>4. QED
    BY <2>3
<1>4. ASSUME NEW d \in Conn, Serve(d), d # c
      PROVE  FALSE
  BY <1>2, <1>3, <1>4, OthersServed
<1>5. ASSUME Serve(c)
      PROVE  /\ ContinueUlr(c) /\ Confirms(c) /\ link[c] = "up"
             /\ Written(c) = ulr[c].imsi
  <2>1. ASSUME NEW m \in Msg, Write(c, m)
        PROVE  m.type = "ULR_RES" /\ Written(c) = m.imsi /\ link[c] = "up"
    <3>1. toPeer'[c] = Append(p, m) /\ link[c] = "up"
      BY <1>1, <1>3, <2>1 DEF Write
    <3>2. QED
      BY <1>2, <3>1
  <2>2. ~HandleUlr(c) /\ ~RejectUlr(c) /\ ~HandlePur(c)
    <3>1. HandleUlr(c) \/ RejectUlr(c) \/ HandlePur(c) => Subject(c) \in IMSI
      BY ReadType DEF HandleUlr, RejectUlr, HandlePur, Reading, TypeInv
    <3>2. ASSUME Subject(c) \in IMSI
          PROVE  \A type \in {"ISD", "ULR_ERR", "PUR_RES", "PUR_ERR"} :
                   ~Write(c, M(type, Subject(c)))
      BY <2>1, <3>2, MsgType
    <3>3. QED
      BY <3>1, <3>2 DEF HandleUlr, RejectUlr, HandlePur
  <2>3. CASE ContinueUlr(c)
    <3>1. ulr[c].imsi \in IMSI
      BY <2>3 DEF ContinueUlr, ForUlr, CleanUlr, TypeInv, NamedInv
    <3>2. /\ M("ULR_RES", ulr[c].imsi) \in Msg
          /\ M("ULR_RES", ulr[c].imsi).imsi = ulr[c].imsi
          /\ M("ULR_ERR", ulr[c].imsi) \in Msg
          /\ M("ULR_ERR", ulr[c].imsi).type # "ULR_RES"
      BY <3>1, MsgType
    <3>3. QED
      BY <2>1, <2>3, <3>2 DEF ContinueUlr
  <2>4. ~BegunUlr(c) /\ ~CancelledUlr(c) /\ ~ContinueIsd(c)
    BY <1>3 DEF BegunUlr, CancelledUlr, ContinueIsd
  <2>5. ~RefuseAnswer(c) /\ ~FailUlr(c) /\ ~SeeLoss(c)
    BY <1>1, <1>3 DEF RefuseAnswer, FailUlr, SeeLoss, CloseLink
  <2>6. ~AnsweredUlr(c)
    <3>1. SUFFICES ASSUME AnsweredUlr(c)
                   PROVE  toPeer'[c] = p
      BY <1>3
    <3>2. CASE ToCancel(c)
      <4>1. ulr[c].old # c /\ Write(ulr[c].old, M("CANCEL", ulr[c].imsi))
        BY <3>1, <3>2 DEF AnsweredUlr, ToCancel
      <4>2. QED
        BY <1>1, <4>1 DEF Write
    <3>3. CASE ~ToCancel(c)
      BY <3>1, <3>3 DEF AnsweredUlr
    <3>4. QED
      BY <3>2, <3>3
  <2>7. QED
    BY <1>5, <2>2, <2>3, <2>4, <2>5, <2>6 DEF Serve
<1>6. ASSUME NEW d \in Conn, PeerStep(d)
      PROVE  FALSE
  <2>1. ASSUME NEW types, Receiving(d, types)
        PROVE  FALSE
    <3>1. CASE d = c
      BY <1>1, <1>3, <2>1, <3>1 DEF Receiving
    <3>2. CASE d # c
      BY <1>1, <1>3, <2>1, <3>2 DEF Receiving
    <3>3. QED
      BY <3>1, <3>2
  <2>2. ~TakeIsd(d) /\ ~TakeAnswer(d)
    BY <2>1 DEF TakeIsd, TakeAnswer
  <2>3. ~Disconnect(d)
    BY <1>1, <1>3 DEF Disconnect
  <2>4. UNCHANGED toPeer
    BY <1>6, <2>2, <2>3 DEF PeerStep, Connect, StartUlr, StartPur
  <2>5. QED
    BY <1>3, <2>4
<1>7. ASSUME NEW d \in Conn, BeginIsd(d)
      PROVE  FALSE
  <2>1. Head(listener).imsi \in IMSI
    <3>1. listener \in Seq(Work) /\ listener # << >>
      BY <1>7 DEF BeginIsd, TypeInv, TypeOK
    <3>2. Head(listener) \in Work
      BY <3>1, HeadTailProperties
    <3>3. QED
      BY <3>2 DEF Work
  <2>2. /\ M("ISD", Head(listener).imsi) \in Msg
        /\ M("ISD", Head(listener).imsi).type # "ULR_RES"
    BY <2>1, MsgType
  <2>3. Write(d, M("ISD", Head(listener).imsi))
    BY <1>7 DEF BeginIsd
  <2>4. QED
    BY <1>1, <1>2, <1>3, <2>2, <2>3 DEF Write
<1>8. ~UNCHANGED toPeer
  BY <1>3
<1>9. ~Listen
  BY <1>7, <1>8 DEF Listen, TakeUpdate, SkipUpdate, BegunIsd
<1>10. \A d \in Conn : ~UlrTimeout(d) /\ ~IsdTimeout(d)
  BY <1>8 DEF UlrTimeout, IsdTimeout
<1>11. \A i \in IMSI : ~SendUpdate(i)
  BY <1>8 DEF SendUpdate
<1>12. QED
  BY <1>4, <1>5, <1>6, <1>8, <1>9, <1>10, <1>11 DEF Next, vars

\* continue_invoke: with one dialogue per peer at a time, a peer that is told
\* of success is in the row of the subscriber that the message names.
THEOREM SuccessIsLocated == Spec => ResultLocated
<1>1. ASSUME TypeInv, OrderlyInv, [Next]_vars, NEW c \in Conn, orderly,
             Wrote(c, "ULR_RES")
      PROVE  serving'[Written(c)][RoleOf[c]] = IdOf[c]
  <2>1. /\ ContinueUlr(c) /\ Confirms(c) /\ link[c] = "up"
        /\ Written(c) = ulr[c].imsi
    BY <1>1, OnlyConfirmed
  <2>2. Subject(c) = ulr[c].imsi
    <3>1. /\ toHss[c] \in Seq(Msg) /\ toPeer[c] \in Seq(Msg)
          /\ toHss[c] # << >> /\ Head(toHss[c]).type = "ISR"
          /\ Talk(toHss[c], toPeer[c], asking[c], Awaited(c))
      BY <1>1, <2>1 DEF ContinueUlr, Confirms, ForUlr, Answering, Reading,
                        TypeInv, TypeOK, OrderlyInv, Dialogue
    <3>2. Head(toHss[c]).imsi \in Awaited(c)
      BY <3>1, HssReads DEF InsertData
    <3>3. QED
      BY <3>2 DEF Awaited, Waiting, Subject
  <2>3. Subject(c) \in IMSI
    BY <1>1, <2>1, ReadType
       DEF ContinueUlr, ForUlr, Answering, Reading, TypeInv
  <2>4. /\ serving \in [IMSI -> [Role -> Id \cup {NoId}]]
        /\ serving' = [serving EXCEPT ![Subject(c)][RoleOf[c]] = IdOf[c]]
        /\ RoleOf[c] \in Role
    BY <1>1, <2>1, GsupAssumption DEF ContinueUlr, Located, TypeInv, TypeOK
  <2>5. QED
    BY <2>1, <2>2, <2>3, <2>4
<1>2. TypeInv /\ OrderlyInv /\ [Next]_vars
        => [\A c \in Conn : orderly /\ Wrote(c, "ULR_RES")
              => serving'[Written(c)][RoleOf[c]] = IdOf[c]]_vars
  BY <1>1
<1>3. QED
  BY <1>2, AlwaysOrderly, PTL DEF Spec, ResultLocated

\* dispatch: with one dialogue per peer at a time and no subscriber updates,
\* the HSS closes a connection only when the transaction timed out or never
\* got as far as its request, when the old peer has gone, or when update_hlr
\* raises.
THEOREM ConformingPeersKept == Spec => ConformingKept
<1>1. ASSUME TypeInv, OrderlyInv, [Next]_vars, NEW c \in Conn, orderly,
             link[c] = "up", link'[c] = "closed"
      PROVE  \/ ulr[c].timedOut \/ ulr[c].state = "INITIAL"
             \/ task[c] = "cancel" /\ link[ulr[c].old] # "up"
             \/ FailUlr(c)
  <2>1. ASSUME NEW d \in Conn, Serve(d), d # c
        PROVE  FALSE
    BY <1>1, <2>1, OthersServed
  <2>2. ASSUME NEW d \in Conn, PeerStep(d)
        PROVE  FALSE
    BY <1>1, <2>2 DEF PeerStep, Connect, Disconnect, StartUlr, StartPur,
                      TakeIsd, TakeAnswer, TypeInv, TypeOK
  <2>3. ~UNCHANGED link
    BY <1>1
  <2>4. Serve(c)
    BY <1>1, <2>1, <2>2, <2>3
       DEF Next, vars, Listen, TakeUpdate, SkipUpdate, BeginIsd, BegunIsd,
           UlrTimeout, IsdTimeout, SendUpdate
  <2>5. RefuseAnswer(c) \/ FailUlr(c) \/ SeeLoss(c)
    BY <2>3, <2>4 DEF Serve, HandleUlr, RejectUlr, BegunUlr, ContinueUlr,
                      AnsweredUlr, CancelledUlr, ContinueIsd, HandlePur
  <2>6. CASE SeeLoss(c)
    BY <1>1, <2>6 DEF SeeLoss
  <2>7. CASE RefuseAnswer(c)
    <3>1. /\ toHss[c] \in Seq(Msg) /\ toPeer[c] \in Seq(Msg)
          /\ toHss[c] # << >> /\ Head(toHss[c]).type \in {"ISR", "ISE"}
          /\ Talk(toHss[c], toPeer[c], asking[c], Awaited(c))
      BY <1>1, <2>7 DEF RefuseAnswer, FailUlr, Answering, Reading, TypeInv,
                        TypeOK,
                        OrderlyInv, Dialogue
    <3>2. Head(toHss[c]).imsi \in Awaited(c)
      BY <3>1, HssReads DEF InsertData
    <3>3. \/ ulr[c].timedOut
          \/ c \in ulrTable /\ ulr[c].state \in {"INITIAL", "ISD_REQUEST_SENT"}
      BY <3>2 DEF Awaited, Waiting
    <3>4. CASE ulr[c].state = "ISD_REQUEST_SENT" /\ ~ulr[c].timedOut
      <4>1. c \in CleanUlr /\ CleanIsd = {}
        BY <1>1, <3>3, <3>4
           DEF CleanUlr, UlrFinished, OrderlyInv, CleanIsd
      <4>2. QED
        BY <2>7, <3>4, <4>1 DEF RefuseAnswer, FailUlr, ForIsd
    <3>5. QED
      BY <3>3, <3>4
  <2>8. QED
    BY <2>5, <2>6, <2>7
<1>2. TypeInv /\ OrderlyInv /\ [Next]_vars
        => [\A c \in Conn :
              orderly /\ link[c] = "up" /\ link'[c] = "closed"
                => \/ ulr[c].timedOut \/ ulr[c].state = "INITIAL"
                   \/ task[c] = "cancel" /\ link[ulr[c].old] # "up"
                   \/ FailUlr(c)]_vars
  BY <1>1
<1>3. QED
  BY <1>2, AlwaysOrderly, PTL DEF Spec, ConformingKept

-----------------------------------------------------------------------------
(***************************************************************************)
(* What a peer serves is what the row says, with one dialogue at a time.   *)
(***************************************************************************)

\* The peer's messages end with the one of the dialogue, if there is one.
EndsTurn(h) == \A j \in 1 .. Len(h) : h[j].type \in Tokens => j = Len(h)

\* What the peer has sent that its transaction waits for, on a lost link too.
Awaits(c) == \A m \in ToSet(toHss[c]) :
               m.type \in InsertData => m.imsi \in Awaited(c)

TurnInv == orderly => \A c \in Conn : EndsTurn(toHss[c]) /\ Awaits(c)

\* The peer serves subscriber i before any message (k = 0), or message k says
\* so; H is what it serves now.
Granted(p, H, i, k) == IF k = 0 THEN i \in H ELSE p[k] = M("ULR_RES", i)

\* Once it has read queue p it will serve i: no cancellation follows.
WillServe(p, H, i) ==
  \E k \in 0 .. Len(p) :
    /\ Granted(p, H, i, k)
    /\ \A j \in (k + 1) .. Len(p) : p[j] # M("CANCEL", i)

WillHold(d, i) == WillServe(toPeer[d], holds[d], i)

\* The task of e has yet to cancel what d serves, or to fail at it.
Cancelling(e, d, i) ==
  /\ ulr[e].imsi = i /\ ulr[e].old # NoConn /\ link[ulr[e].old] # "new"
  /\ \/ /\ task[e] = "result"
        /\ IdOf[ulr[e].old] = IdOf[d] /\ IdOf[d] # IdOf[e]
     \/ task[e] = "cancel" /\ link[ulr[e].old] # "up"

HeldAt(d, i) ==
  WillHold(d, i) /\ excuse[i] = {} =>
    \/ serving[i][RoleOf[d]] = IdOf[d]
    \/ \E e \in Conn : Cancelling(e, d, i)

\* A peer that has sent a purge will not serve the subscriber.
PurgedAt(d, i) == M("PUR", i) \in ToSet(toHss[d]) => ~WillHold(d, i)

StayInv ==
  orderly => \A d \in Conn :
    /\ link[d] = "new" => holds[d] = {}
    /\ link[d] = "up" => \A i \in IMSI : HeldAt(d, i) /\ PurgedAt(d, i)

HeldInv == TypeInv /\ OrderlyInv /\ TurnInv /\ StayInv

\* A peer has one connection at a time: it connects again only when the old
\* connection is lost, whether the HSS has noticed or not.
OneLink == \A c, d \in Conn :
  link[c] = "up" /\ link[d] = "up" /\ IdOf[c] = IdOf[d] => c = d

LEMMA MsgFields ==
  /\ \A type, i : M(type, i) = [type |-> type, imsi |-> i]
  /\ \A m \in Msg : m = M(m.type, m.imsi)
BY DEF M, Msg

LEMMA SameMessage ==
  ASSUME NEW t, NEW u, NEW i, NEW j, M(t, i) = M(u, j)
  PROVE  t = u /\ i = j
<1>1. M(t, i).type = t /\ M(t, i).imsi = i /\ M(u, j).type = u
      /\ M(u, j).imsi = j
  BY DEF M
<1>2. QED
  BY <1>1

\* A queue with one more message, or one less.
LEMMA TurnEnds ==
  ASSUME NEW h \in Seq(Msg), NEW m \in Msg, Silent(h)
  PROVE  EndsTurn(Append(h, m))
<1>1. /\ Len(Append(h, m)) = Len(h) + 1 /\ Len(h) \in Nat
      /\ \A j \in 1 .. Len(h) : Append(h, m)[j] = h[j]
  BY AppendProperties, LenProperties
<1>2. \A j \in 1 .. Len(h) : h[j].type \notin Tokens
  BY DEF Silent, ToSet
<1>3. QED
  BY <1>1, <1>2 DEF EndsTurn

LEMMA TurnGoesOn ==
  ASSUME NEW h \in Seq(Msg), h # << >>, EndsTurn(h)
  PROVE  /\ EndsTurn(Tail(h))
         /\ Head(h).type \in Tokens => Tail(h) = << >>
<1> DEFINE n == Len(h)
           rest == Tail(h)
<1>1. /\ n \in Nat \ {0} /\ rest \in Seq(Msg) /\ Len(rest) = n - 1
      /\ \A j \in 1 .. (n - 1) : rest[j] = h[j + 1]
      /\ Head(h) = h[1]
  BY HeadTailProperties, LenProperties, EmptySeq
<1>2. n = Len(h)
  OBVIOUS
<1> HIDE DEF n, rest
<1>3. EndsTurn(rest)
  BY <1>1, <1>2 DEF EndsTurn
<1>4. ASSUME Head(h).type \in Tokens
      PROVE  rest = << >>
  <2>1. n = 1
    BY <1>1, <1>2, <1>4 DEF EndsTurn
  <2>2. QED
    BY <1>1, <2>1, EmptySeq
<1>5. QED
  BY <1>3, <1>4 DEF rest

\* A peer is granted a subscriber by one message and gives it up at another.
LEMMA ServesMore ==
  ASSUME NEW p \in Seq(Msg), NEW m \in Msg, NEW H, NEW i,
         WillServe(Append(p, m), H, i)
  PROVE  \/ m = M("ULR_RES", i)
         \/ WillServe(p, H, i) /\ m # M("CANCEL", i)
<1> DEFINE n == Len(p)
           q == Append(p, m)
<1>1. /\ n \in Nat /\ Len(q) = n + 1 /\ q[n + 1] = m
      /\ \A j \in 1 .. n : q[j] = p[j]
  BY AppendProperties, LenProperties
<1>2. PICK k \in 0 .. Len(q) :
             /\ Granted(q, H, i, k)
             /\ \A j \in (k + 1) .. Len(q) : q[j] # M("CANCEL", i)
  BY DEF WillServe
<1>3. n = Len(p)
  OBVIOUS
<1> HIDE DEF n, q
<1>4. CASE k = n + 1
  BY <1>1, <1>2, <1>4 DEF Granted
<1>5. CASE k # n + 1
  <2>1. k \in 0 .. n /\ n + 1 \in (k + 1) .. (n + 1)
    BY <1>1, <1>2, <1>5
  <2>2. m # M("CANCEL", i)
    BY <1>1, <1>2, <2>1
  <2>3. Granted(p, H, i, k)
    BY <1>1, <1>2, <2>1 DEF Granted
  <2>4. \A j \in (k + 1) .. n : p[j] # M("CANCEL", i)
    BY <1>1, <1>2, <2>1
  <2>5. QED
    BY <1>3, <2>1, <2>2, <2>3, <2>4 DEF WillServe
<1>6. QED
  BY <1>4, <1>5

LEMMA ServesRead ==
  ASSUME NEW p \in Seq(Msg), p # << >>, NEW H, NEW G, NEW i,
         i \in G => \/ Head(p) = M("ULR_RES", i)
                    \/ i \in H /\ Head(p) # M("CANCEL", i),
         WillServe(Tail(p), G, i)
  PROVE  WillServe(p, H, i)
<1> DEFINE n == Len(p)
           q == Tail(p)
<1>1. /\ n \in Nat \ {0} /\ Len(q) = n - 1 /\ Head(p) = p[1]
      /\ \A j \in 1 .. (n - 1) : q[j] = p[j + 1]
  BY HeadTailProperties, LenProperties, EmptySeq
<1>2. PICK k \in 0 .. Len(q) :
             /\ Granted(q, G, i, k)
             /\ \A j \in (k + 1) .. Len(q) : q[j] # M("CANCEL", i)
  BY DEF WillServe
<1>3. n = Len(p)
  OBVIOUS
<1> HIDE DEF n, q
<1>4. \A j \in (k + 2) .. n : p[j] # M("CANCEL", i)
  <2>1. ASSUME NEW j \in (k + 2) .. n
        PROVE  p[j] # M("CANCEL", i)
    <3>1. j - 1 \in (k + 1) .. Len(q) /\ j - 1 \in 1 .. (n - 1)
          /\ (j - 1) + 1 = j
      BY <1>1, <1>2
    <3>2. q[j - 1] = p[j]
      BY <1>1, <3>1
    <3>3. QED
      BY <1>2, <3>1, <3>2
  <2>2. QED
    BY <2>1
<1>5. CASE k # 0
  <2>1. k + 1 \in 1 .. n /\ k \in 1 .. (n - 1)
    BY <1>1, <1>2, <1>5
  <2>2. p[k + 1] = M("ULR_RES", i)
    BY <1>1, <1>2, <1>5, <2>1 DEF Granted
  <2>3. Granted(p, H, i, k + 1) /\ k + 1 \in 0 .. n
    BY <2>1, <2>2 DEF Granted
  <2>4. \A j \in ((k + 1) + 1) .. n : p[j] # M("CANCEL", i)
    BY <1>4, <2>1
  <2>5. QED
    BY <1>3, <2>3, <2>4 DEF WillServe
<1>6. CASE k = 0 /\ Head(p) = M("ULR_RES", i)
  <2>1. Granted(p, H, i, 1) /\ 1 \in 0 .. n
    BY <1>1, <1>6 DEF Granted
  <2>2. \A j \in (1 + 1) .. n : p[j] # M("CANCEL", i)
    BY <1>4, <1>6
  <2>3. QED
    BY <1>3, <2>1, <2>2 DEF WillServe
<1>7. CASE k = 0 /\ Head(p) # M("ULR_RES", i)
  <2>1. i \in H /\ Head(p) # M("CANCEL", i)
    BY <1>2, <1>7 DEF Granted
  <2>2. Granted(p, H, i, 0) /\ 0 \in 0 .. n
    BY <1>1, <2>1 DEF Granted
  <2>3. \A j \in (0 + 1) .. n : p[j] # M("CANCEL", i)
    BY <1>1, <1>4, <1>7, <2>1
  <2>4. QED
    BY <1>3, <2>2, <2>3 DEF WillServe
<1>8. QED
  BY <1>5, <1>6, <1>7

LEMMA ServesNone ==
  ASSUME NEW H, NEW i
  PROVE  WillServe(<< >>, H, i) <=> i \in H
<1>1. Len(<< >>) = 0
  OBVIOUS
<1>2. 0 .. 0 = {0} /\ (0 + 1) .. 0 = {}
  OBVIOUS
<1>3. QED
  BY <1>1, <1>2 DEF WillServe, Granted

\* A peer that gives up a subscriber of its own accord.
LEMMA ServesLess ==
  ASSUME NEW p \in Seq(Msg), NEW H, NEW i, NEW j
  PROVE  /\ WillServe(p, H \ {j}, i) => WillServe(p, H, i)
         /\ Silent(p) => ~WillServe(p, H \ {i}, i)
<1>1. ASSUME NEW k \in 0 .. Len(p), Granted(p, H \ {j}, i, k)
      PROVE  Granted(p, H, i, k)
  BY <1>1 DEF Granted
<1>2. ASSUME NEW k \in 0 .. Len(p), Granted(p, H \ {i}, i, k), Silent(p)
      PROVE  FALSE
  <2>1. k # 0
    BY <1>2 DEF Granted
  <2>2. k \in 1 .. Len(p) /\ p[k] = M("ULR_RES", i)
    BY <1>2, <2>1, LenProperties DEF Granted
  <2>3. p[k] \in ToSet(p)
    BY <2>2 DEF ToSet
  <2>4. p[k].type = "ULR_RES"
    BY <2>2 DEF M
  <2>5. QED
    BY <1>2, <2>3, <2>4 DEF Silent, Tokens
<1>3. QED
  BY <1>1, <1>2 DEF WillServe

LEMMA ServedTurn ==
  ASSUME TypeInv, OrderlyInv, TurnInv, orderly, NEW c \in Conn, Serve(c)
  PROVE  EndsTurn(toHss'[c]) /\ Awaits(c)'
<1> DEFINE h == toHss[c]
<1>1. /\ h \in Seq(Msg) /\ EndsTurn(h) /\ Awaits(c) /\ isdTable = {}
      /\ ulr \in [Conn -> Trx] /\ DOMAIN task = Conn
  BY DEF TypeInv, TypeOK, TurnInv, OrderlyInv
<1>2. ASSUME toHss'[c] = << >>
      PROVE  EndsTurn(toHss'[c]) /\ Awaits(c)'
  <2>1. Len(<< >>) = 0
    OBVIOUS
  <2>2. EndsTurn(<< >>)
    BY <2>1 DEF EndsTurn
  <2>3. Awaits(c)'
    BY <1>2, NoMessages DEF Awaits
  <2>4. QED
    BY <1>2, <2>2, <2>3
<1>3. ASSUME EndsTurn(toHss'[c]), ToSet(toHss'[c]) \subseteq ToSet(h),
             Awaited(c) \subseteq Awaited(c)'
      PROVE  EndsTurn(toHss'[c]) /\ Awaits(c)'
  BY <1>1, <1>3 DEF Awaits
<1>4. ASSUME h # << >>, Consume(c)
      PROVE  /\ toHss'[c] = Tail(h) /\ EndsTurn(Tail(h))
             /\ ToSet(Tail(h)) \subseteq ToSet(h)
             /\ Head(h).type \in Tokens => Tail(h) = << >>
  <2>1. toHss'[c] = Tail(h)
    BY <1>4 DEF Consume, TypeInv, TypeOK
  <2>2. QED
    BY <1>1, <1>4, <2>1, Taken, TurnGoesOn
<1> HIDE DEF h
<1>5. CASE HandleUlr(c) \/ RejectUlr(c) \/ ContinueUlr(c)
  <2>1. /\ h # << >> /\ Consume(c)
        /\ Head(h).type \in {"ULR", "ISR", "ISE"}
    BY <1>5 DEF HandleUlr, RejectUlr, ContinueUlr, ForUlr, Answering, Reading,
                h
  <2>2. toHss'[c] = << >>
    BY <1>4, <2>1 DEF Tokens
  <2>3. QED
    BY <1>2, <2>2
<1>6. CASE BegunUlr(c)
  <2>1. /\ ulr'[c].imsi = ulr[c].imsi /\ ulr'[c].timedOut = ulr[c].timedOut
        /\ ulr'[c].state = "ISD_REQUEST_SENT"
        /\ task'[c] = "read" /\ ulrTable' = ulrTable
    BY <1>1, <1>6 DEF BegunUlr, Await, Trx
  <2>2. Awaited(c) \subseteq Awaited(c)'
    BY <2>1 DEF Awaited, Waiting
  <2>3. toHss'[c] = h
    BY <1>6 DEF BegunUlr, h
  <2>4. QED
    BY <1>1, <1>3, <2>2, <2>3
<1>7. CASE AnsweredUlr(c) \/ CancelledUlr(c)
  <2>1. Awaited(c) = {}
    BY <1>7 DEF AnsweredUlr, CancelledUlr, Awaited, Waiting
  <2>2. toHss'[c] = h
    BY <1>7 DEF AnsweredUlr, CancelledUlr, h
  <2>3. QED
    BY <1>1, <1>3, <2>1, <2>2
<1>8. CASE HandlePur(c)
  <2>1. h # << >> /\ Consume(c)
    BY <1>8 DEF HandlePur, Reading, h
  <2>2. Awaited(c) \subseteq Awaited(c)'
    BY <1>8, WaitKept DEF HandlePur
  <2>3. QED
    BY <1>3, <1>4, <2>1, <2>2
<1>9. CASE RefuseAnswer(c) \/ FailUlr(c) \/ SeeLoss(c)
  <2>1. toHss'[c] = << >>
    BY <1>9 DEF RefuseAnswer, FailUlr, SeeLoss, CloseLink, TypeInv, TypeOK
  <2>2. QED
    BY <1>2, <2>1
<1>10. ~ContinueIsd(c)
  BY <1>1 DEF ContinueIsd, ForIsd, CleanIsd
<1>11. QED
  BY <1>5, <1>6, <1>7, <1>8, <1>9, <1>10 DEF Serve

\* A peer says something of the dialogue when it is its turn.
LEMMA PeerTurn ==
  ASSUME TypeInv, OrderlyInv, TurnInv, orderly, NEW c \in Conn, PeerStep(c)
  PROVE  EndsTurn(toHss'[c]) /\ Awaits(c)'
<1> DEFINE h == toHss[c]
           p == toPeer[c]
<1>1. /\ h \in Seq(Msg) /\ p \in Seq(Msg) /\ EndsTurn(h) /\ Awaits(c)
      /\ toHss \in [Conn -> Seq(Msg)]
      /\ link[c] = "up" => Talk(h, p, asking[c], Awaited(c))
  BY DEF TypeInv, TypeOK, TurnInv, OrderlyInv, Dialogue
<1>2. Awaited(c)' = Awaited(c)
  <2>1. UNCHANGED <<ulr, ulrTable, task>>
    BY DEF PeerStep, Connect, Disconnect, StartUlr, StartPur, TakeIsd,
           TakeAnswer, hssVars
  <2>2. QED
    BY <2>1 DEF Awaited, Waiting
<1> HIDE DEF h, p
<1>3. ASSUME toHss' = toHss
      PROVE  EndsTurn(toHss'[c]) /\ Awaits(c)'
  BY <1>1, <1>2, <1>3 DEF Awaits, h
<1>4. ASSUME NEW m \in Msg, Send(c, m), Silent(h),
             m.type \in InsertData => m.imsi \in Awaited(c)
      PROVE  EndsTurn(toHss'[c]) /\ Awaits(c)'
  <2>1. toHss'[c] = Append(h, m)
    BY <1>1, <1>4 DEF Send, h
  <2>2. EndsTurn(Append(h, m)) /\ ToSet(Append(h, m)) = ToSet(h) \cup {m}
    BY <1>1, <1>4, TurnEnds, Appended
  <2>3. QED
    BY <1>1, <1>2, <1>4, <2>1, <2>2 DEF Awaits, h
<1>5. CASE Connect(c) \/ Disconnect(c) \/ TakeAnswer(c)
  BY <1>3, <1>5 DEF Connect, Disconnect, TakeAnswer
<1>6. ASSUME NEW i \in IMSI, StartUlr(c, i) \/ StartPur(c, i)
      PROVE  EndsTurn(toHss'[c]) /\ Awaits(c)'
  <2>1. link[c] = "up" /\ asking[c] = {}
    BY <1>6 DEF StartUlr, StartPur
  <2>2. Silent(h)
    BY <1>1, <2>1 DEF Talk, Silent
  <2>3. \A type \in {"ULR", "PUR"} :
          M(type, i) \in Msg /\ M(type, i).type \notin InsertData
    BY MsgType DEF InsertData
  <2>4. QED
    BY <1>4, <1>6, <2>2, <2>3 DEF StartUlr, StartPur
<1>7. CASE TakeIsd(c)
  <2>1. p # << >> /\ Head(p).type = "ISD" /\ link[c] = "up"
    BY <1>7 DEF TakeIsd, Receiving, p
  <2>2. /\ Silent(h) /\ Head(p).imsi \in Awaited(c)
    BY <1>1, <2>1, PeerReads DEF Tokens, InsertData
  <2>3. Head(p).imsi \in IMSI
    BY <2>2 DEF Awaited
  <2>4. \A type \in {"ISR", "ISE"} :
          /\ M(type, Head(p).imsi) \in Msg
          /\ M(type, Head(p).imsi).imsi = Head(p).imsi
    BY <2>3, MsgType
  <2>5. \/ toHss' = toHss
        \/ \E type \in {"ISR", "ISE"} : Send(c, M(type, Head(p).imsi))
    BY <1>7 DEF TakeIsd, p
  <2>6. QED
    BY <1>3, <1>4, <2>2, <2>4, <2>5
<1>8. QED
  BY <1>5, <1>6, <1>7 DEF PeerStep

LEMMA NextTurn ==
  TypeInv /\ OrderlyInv /\ TurnInv /\ [Next]_vars => TurnInv'
<1> SUFFICES ASSUME TypeInv, OrderlyInv, TurnInv, [Next]_vars, orderly,
                    NEW d \in Conn
             PROVE  EndsTurn(toHss'[d]) /\ Awaits(d)'
  BY DEF TurnInv, Next, vars
<1>1. ASSUME toHss'[d] = toHss[d], Awaited(d) \subseteq Awaited(d)'
      PROVE  EndsTurn(toHss'[d]) /\ Awaits(d)'
  BY <1>1 DEF TurnInv, Awaits
<1>2. ASSUME UNCHANGED <<toHss, ulr, ulrTable, task>>
      PROVE  EndsTurn(toHss'[d]) /\ Awaits(d)'
  BY <1>1, <1>2 DEF Awaited, Waiting
<1>3. ASSUME NEW c \in Conn, Serve(c)
      PROVE  EndsTurn(toHss'[d]) /\ Awaits(d)'
  <2>1. CASE d = c
    BY <1>3, <2>1, ServedTurn
  <2>2. CASE d # c
    BY <1>1, <1>3, <2>2, OthersServed
  <2>3. QED
    BY <2>1, <2>2
<1>4. ASSUME NEW c \in Conn, PeerStep(c)
      PROVE  EndsTurn(toHss'[d]) /\ Awaits(d)'
  <2>1. CASE d = c
    BY <1>4, <2>1, PeerTurn
  <2>2. CASE d # c
    <3>1. UNCHANGED <<ulr, ulrTable, task>>
      BY <1>4 DEF PeerStep, Connect, Disconnect, StartUlr, StartPur, TakeIsd,
                  TakeAnswer, hssVars
    <3>2. toHss'[d] = toHss[d]
      BY <1>4, <2>2, PeerSends
    <3>3. Awaited(d) \subseteq Awaited(d)'
      BY <3>1 DEF Awaited, Waiting
    <3>4. QED
      BY <1>1, <3>2, <3>3
  <2>3. QED
    BY <2>1, <2>2
<1>5. ASSUME NEW c \in Conn, UlrTimeout(c)
      PROVE  EndsTurn(toHss'[d]) /\ Awaits(d)'
  <2>1. /\ ulr'[d].imsi = ulr[d].imsi /\ ulr'[d].state = ulr[d].state
        /\ ulr[d].timedOut => ulr'[d].timedOut
    <3>1. /\ ulr \in [Conn -> Trx]
          /\ ulr' = [ulr EXCEPT ![c].timedOut = TRUE]
      BY <1>5 DEF UlrTimeout, TypeInv, TypeOK
    <3>2. QED
      BY <3>1 DEF Trx
  <2>2. UNCHANGED <<task, ulrTable, toHss>>
    BY <1>5 DEF UlrTimeout
  <2>3. Awaited(d) \subseteq Awaited(d)'
    BY <2>1, <2>2 DEF Awaited, Waiting
  <2>4. QED
    BY <1>1, <2>2, <2>3
<1>6. ASSUME NEW c \in Conn, IsdTimeout(c)
      PROVE  EndsTurn(toHss'[d]) /\ Awaits(d)'
  BY <1>2, <1>6 DEF IsdTimeout
<1>7. CASE Listen
  BY <1>7 DEF Listen, TakeUpdate, SkipUpdate, BeginIsd, BegunIsd, OrderlyInv
<1>8. ASSUME NEW i \in IMSI, SendUpdate(i)
      PROVE  EndsTurn(toHss'[d]) /\ Awaits(d)'
  BY <1>8 DEF SendUpdate
<1>9. CASE UNCHANGED vars
  BY <1>2, <1>9 DEF vars
<1>10. QED
  BY <1>3, <1>4, <1>5, <1>6, <1>7, <1>8, <1>9 DEF Next

LEMMA HoldNext ==
  ASSUME NEW d, NEW i
  PROVE  WillHold(d, i)' <=> WillServe(toPeer'[d], holds'[d], i)
BY DEF WillHold, WillServe, Granted, M

\* What is answered is about the subscriber the transaction is about, also
\* on a link that is lost.
LEMMA AboutAwaited ==
  ASSUME TypeInv, TurnInv, orderly, NEW c \in Conn, ContinueUlr(c)
  PROVE  /\ Subject(c) = ulr[c].imsi /\ Subject(c) \in IMSI
         /\ toHss'[c] = << >> /\ task[c] = "read"
<1>1. /\ toHss[c] \in Seq(Msg) /\ toHss[c] # << >> /\ task[c] = "read"
      /\ Head(toHss[c]).type \in {"ISR", "ISE"}
      /\ EndsTurn(toHss[c]) /\ Awaits(c) /\ Consume(c)
  BY DEF ContinueUlr, ForUlr, Answering, Reading, TypeInv, TypeOK, TurnInv
<1>2. Head(toHss[c]) \in ToSet(toHss[c])
  BY <1>1, Taken
<1>3. Subject(c) \in Awaited(c)
  BY <1>1, <1>2 DEF Awaits, InsertData, Subject
<1>4. Tail(toHss[c]) = << >>
  BY <1>1, TurnGoesOn DEF Tokens
<1>5. toHss'[c] = << >>
  BY <1>1, <1>4 DEF Consume, TypeInv, TypeOK
<1>6. QED
  BY <1>1, <1>3, <1>5 DEF Awaited, Waiting

LEMMA ServedLinks ==
  ASSUME TypeInv, NEW c \in Conn, Serve(c)
  PROVE  /\ UNCHANGED holds
         /\ \A d \in Conn : link'[d] # link[d] => link'[d] = "closed"
<1>1. CASE CloseLink(c) /\ (RefuseAnswer(c) \/ FailUlr(c) \/ SeeLoss(c))
  BY <1>1 DEF CloseLink, RefuseAnswer, FailUlr, SeeLoss, TypeInv, TypeOK
<1>2. CASE ~(RefuseAnswer(c) \/ FailUlr(c) \/ SeeLoss(c))
  BY <1>2 DEF Serve, HandleUlr, RejectUlr, BegunUlr, ContinueUlr, AnsweredUlr,
              CancelledUlr, ContinueIsd, HandlePur, peerVars
<1>3. QED
  BY <1>1, <1>2 DEF RefuseAnswer, FailUlr, SeeLoss

\* The HSS makes a peer serve a subscriber only by the result of an update.
LEMMA ServedHolds ==
  ASSUME TypeInv, TurnInv, orderly, NEW c \in Conn, Serve(c),
         NEW d \in Conn, NEW i \in IMSI, link'[d] = "up", WillHold(d, i)'
  PROVE  /\ link[d] = "up"
         /\ \/ WillHold(d, i)
            \/ /\ d = c /\ ContinueUlr(c) /\ Confirms(c)
               /\ i = Subject(c)
<1> DEFINE p == toPeer[d]
<1>1. /\ p \in Seq(Msg) /\ holds' = holds /\ link[d] = "up"
      /\ toPeer \in [Conn -> Seq(Msg)]
  BY ServedLinks DEF TypeInv, TypeOK
<1>2. ASSUME toPeer'[d] = p
      PROVE  WillHold(d, i)
  BY <1>1, <1>2, HoldNext DEF WillHold
<1>3. ASSUME NEW m \in Msg, toPeer'[d] = Append(p, m), m # M("ULR_RES", i)
      PROVE  WillHold(d, i)
  <2>1. WillServe(Append(p, m), holds[d], i)
    BY <1>1, <1>3, HoldNext
  <2>2. QED
    BY <1>1, <1>3, <2>1, ServesMore DEF WillHold
<1>4. ASSUME NEW type, NEW j \in IMSI, toPeer'[d] = Append(p, M(type, j)),
             type \in {"ISD", "ULR_ERR", "PUR_RES", "PUR_ERR"}
      PROVE  WillHold(d, i)
  <2>1. M(type, j) \in Msg
    BY <1>4, MsgType
  <2>2. M(type, j) # M("ULR_RES", i)
    BY <1>4, SameMessage
  <2>3. QED
    BY <1>3, <1>4, <2>1, <2>2
<1>5. CASE d # c
  <2>1. \/ toPeer'[d] = p
        \/ \E m \in Msg : m.type = "CANCEL" /\ toPeer'[d] = Append(p, m)
    BY <1>5, OthersServed
  <2>2. ASSUME NEW m \in Msg, m.type = "CANCEL"
        PROVE  m # M("ULR_RES", i)
    BY <2>2 DEF M
  <2>3. QED
    BY <1>1, <1>2, <1>3, <2>1, <2>2
<1>6. CASE d = c
  <2>1. ASSUME NEW m, Write(c, m)
        PROVE  toPeer'[d] = Append(p, m)
    BY <1>1, <1>6, <2>1 DEF Write
  <2>2. CASE HandleUlr(c) \/ RejectUlr(c) \/ HandlePur(c)
    <3>1. Subject(c) \in IMSI
      BY <2>2, ReadType DEF HandleUlr, RejectUlr, HandlePur, Reading, TypeInv
    <3>2. \E type \in {"ISD", "ULR_ERR", "PUR_RES", "PUR_ERR"} :
            Write(c, M(type, Subject(c)))
      BY <2>2 DEF HandleUlr, RejectUlr, HandlePur
    <3>3. QED
      BY <1>1, <1>4, <2>1, <3>1, <3>2
  <2>3. CASE ContinueUlr(c)
    <3>1. Subject(c) = ulr[c].imsi /\ Subject(c) \in IMSI
      BY <2>3, AboutAwaited
    <3>2. CASE Confirms(c)
      <4>1. /\ toPeer'[d] = Append(p, M("ULR_RES", Subject(c)))
            /\ M("ULR_RES", Subject(c)) \in Msg
        BY <2>1, <2>3, <3>1, <3>2, MsgType DEF ContinueUlr
      <4>2. CASE i = Subject(c)
        BY <1>1, <1>6, <2>3, <3>2, <4>2
      <4>3. CASE i # Subject(c)
        <5>1. M("ULR_RES", Subject(c)) # M("ULR_RES", i)
          BY <4>3, SameMessage
        <5>2. QED
          BY <1>1, <1>3, <4>1, <5>1
      <4>4. QED
        BY <4>2, <4>3
    <3>3. CASE ~Confirms(c)
      BY <1>1, <1>4, <2>1, <2>3, <3>1, <3>3 DEF ContinueUlr
    <3>4. QED
      BY <3>2, <3>3
  <2>4. CASE AnsweredUlr(c)
    <3>1. CASE toPeer' = toPeer
      BY <1>1, <1>2, <3>1
    <3>2. CASE toPeer' # toPeer
      <4>1. ulr[c].old # c /\ Write(ulr[c].old, M("CANCEL", ulr[c].imsi))
        BY <2>4, <3>2 DEF AnsweredUlr, ToCancel
      <4>2. toPeer'[d] = p
        BY <1>1, <1>6, <4>1 DEF Write
      <4>3. QED
        BY <1>1, <1>2, <4>2
    <3>3. QED
      BY <3>1, <3>2
  <2>5. CASE BegunUlr(c) \/ CancelledUlr(c) \/ ContinueIsd(c)
    BY <1>1, <1>2, <2>5 DEF BegunUlr, CancelledUlr, ContinueIsd
  <2>6. CASE RefuseAnswer(c) \/ FailUlr(c) \/ SeeLoss(c)
    BY <1>6, <2>6 DEF RefuseAnswer, FailUlr, SeeLoss, CloseLink, TypeInv,
                      TypeOK
  <2>7. QED
    BY <2>2, <2>3, <2>4, <2>5, <2>6 DEF Serve
<1>7. QED
  BY <1>5, <1>6

\* A cancellation that is due stays so while others are at work, ...
LEMMA OthersCancel ==
  ASSUME TypeInv, NEW c \in Conn, Serve(c), NEW e \in Conn, e # c,
         NEW d \in Conn, NEW i, Cancelling(e, d, i)
  PROVE  Cancelling(e, d, i)'
<1>1. ulr'[e] = ulr[e] /\ task'[e] = task[e]
  BY DEF TypeInv, TypeOK, Serve, HandleUlr, RejectUlr, BegunUlr, ContinueUlr,
         AnsweredUlr, CancelledUlr, ContinueIsd, RefuseAnswer, FailUlr,
         HandlePur,
         SeeLoss, CloseLink, Await, hssVars
<1>2. /\ ulr[e].old \in Conn
      /\ link'[ulr[e].old] \in {link[ulr[e].old], "closed"}
  <2>1. ulr[e] \in Trx
    BY DEF TypeInv, TypeOK
  <2>2. ulr[e].old \in Conn
    BY <2>1 DEF Trx, Cancelling
  <2>3. QED
    BY <2>2, ServedLinks
<1>3. QED
  BY <1>1, <1>2 DEF Cancelling

\* ... and its own task carries it out, or breaks off.
LEMMA OwnCancel ==
  ASSUME TypeInv, OrderlyInv, TurnInv, orderly, OneLink, NEW c \in Conn,
         Serve(c), NEW d \in Conn, NEW i \in IMSI, Cancelling(c, d, i),
         link[d] = "up", link'[d] = "up", WillHold(d, i)'
  PROVE  excuse'[i] # {} \/ Cancelling(c, d, i)'
<1>1. /\ ulr[c] \in Trx /\ ulr[c].old \in Conn /\ ulr[c].imsi = i
      /\ task[c] \in {"result", "cancel"}
  <2>1. ulr[c] \in Trx
    BY DEF TypeInv, TypeOK
  <2>2. QED
    BY <2>1 DEF Trx, Cancelling
<1>2. AnsweredUlr(c) \/ CancelledUlr(c) \/ SeeLoss(c)
  BY <1>1 DEF Serve, HandleUlr, RejectUlr, BegunUlr, ContinueUlr, ContinueIsd,
              RefuseAnswer, FailUlr, HandlePur, ForUlr, ForIsd, Answering,
              Reading
<1>3. CASE SeeLoss(c)
  <2>1. excuse' = [excuse EXCEPT ![i] = @ \cup {"broken off"}]
    BY <1>1, <1>3 DEF SeeLoss
  <2>2. QED
    BY <2>1 DEF TypeInv, TypeOK
<1>4. ~CancelledUlr(c)
  BY DEF CancelledUlr, Cancelling
<1>5. CASE AnsweredUlr(c)
  <2>1. /\ task[c] = "result" /\ IdOf[ulr[c].old] = IdOf[d]
        /\ IdOf[d] # IdOf[c] /\ ToCancel(c)
    BY <1>5 DEF AnsweredUlr, Cancelling, ToCancel
  <2>2. /\ task'[c] = "cancel" /\ UNCHANGED link
        /\ Write(ulr[c].old, M("CANCEL", i))
        /\ ulr'[c].imsi = i /\ ulr'[c].old = ulr[c].old
    <3>1. ulr' = [ulr EXCEPT ![c].state = "ULR_SENT"]
      BY <1>5 DEF AnsweredUlr
    <3>2. ulr'[c].imsi = i /\ ulr'[c].old = ulr[c].old
      BY <1>1, <3>1 DEF Trx, TypeInv, TypeOK
    <3>3. task'[c] = "cancel"
      BY <1>5, <2>1 DEF AnsweredUlr, Await, TypeInv, TypeOK
    <3>4. QED
      BY <1>1, <1>5, <2>1, <3>2, <3>3 DEF AnsweredUlr
  <2>3. CASE link[ulr[c].old] = "up"
    <3>1. ulr[c].old = d
      BY <1>1, <2>1, <2>3 DEF OneLink
    <3>2. /\ toPeer'[d] = Append(toPeer[d], M("CANCEL", i))
          /\ toPeer[d] \in Seq(Msg) /\ M("CANCEL", i) \in Msg
      BY <2>2, <2>3, <3>1, MsgType DEF Write, TypeInv, TypeOK
    <3>3. WillServe(Append(toPeer[d], M("CANCEL", i)), holds'[d], i)
      BY <3>2, HoldNext
    <3>4. M("CANCEL", i) = M("ULR_RES", i)
      BY <3>2, <3>3, ServesMore
    <3>5. QED
      BY <3>4, SameMessage
  <2>4. CASE link[ulr[c].old] # "up"
    BY <1>1, <2>2, <2>4 DEF Cancelling
  <2>5. QED
    BY <2>3, <2>4
<1>6. QED
  BY <1>2, <1>3, <1>4, <1>5

\* A row that names the peer goes on naming it, or the peer is to be
\* cancelled, or there is an excuse.
LEMMA RowStays ==
  ASSUME TypeInv, TurnInv, orderly, NEW c \in Conn, Serve(c), NEW d \in Conn,
         NEW i \in IMSI, link[d] = "up", WillHold(d, i), PurgedAt(d, i),
         serving[i][RoleOf[d]] = IdOf[d]
  PROVE  \/ excuse'[i] # {}
         \/ serving'[i][RoleOf[d]] = IdOf[d]
         \/ Cancelling(c, d, i)'
<1>1. /\ serving \in [IMSI -> [Role -> Id \cup {NoId}]]
      /\ RoleOf[c] \in Role /\ RoleOf[d] \in Role
      /\ ulr \in [Conn -> Trx] /\ excuse \in [IMSI -> SUBSET Excuse]
  BY GsupAssumption DEF TypeInv, TypeOK
<1>2. CASE HandlePur(c)
  <2> DEFINE j == Subject(c)
  <2>1. /\ j \in IMSI /\ toHss[c] \in Seq(Msg) /\ toHss[c] # << >>
        /\ Head(toHss[c]).type = "PUR"
    BY <1>2, ReadType DEF HandlePur, Reading, TypeInv, TypeOK
  <2>2. \/ UNCHANGED serving
        \/ serving' = [serving EXCEPT ![j][RoleOf[c]] = NoId]
    BY <1>2 DEF HandlePur
  <2>3. CASE j = i /\ RoleOf[c] = RoleOf[d] /\ ~UNCHANGED serving
    <3>1. excuse' = IF /\ serving[i][RoleOf[c]] = IdOf[c]
                       /\ ~\E e \in Conn \ {c} :
                            link[e] # "new" /\ IdOf[e] = IdOf[c]
                    THEN excuse
                    ELSE [excuse EXCEPT ![i] = @ \cup {"stray purge"}]
      BY <1>2, <2>3 DEF HandlePur
    <3>2. CASE d = c
      <4>1. Head(toHss[c]) \in ToSet(toHss[c]) /\ Head(toHss[c]) \in Msg
        BY <2>1, Taken
      <4>2. Head(toHss[c]) = M("PUR", i)
        BY <2>1, <2>3, <4>1, MsgFields DEF Subject
      <4>3. QED
        BY <3>2, <4>1, <4>2 DEF PurgedAt
    <3>3. CASE d # c
      <4>1. IdOf[d] = IdOf[c] =>
              \E e \in Conn \ {c} : link[e] # "new" /\ IdOf[e] = IdOf[c]
        BY <3>3
      <4>2. excuse' = [excuse EXCEPT ![i] = @ \cup {"stray purge"}]
        BY <2>3, <3>1, <4>1
      <4>3. QED
        BY <1>1, <4>2
    <3>4. QED
      BY <3>2, <3>3
  <2>4. CASE ~(j = i /\ RoleOf[c] = RoleOf[d] /\ ~UNCHANGED serving)
    BY <1>1, <2>1, <2>2, <2>4
  <2>5. QED
    BY <2>3, <2>4
<1>3. CASE ContinueUlr(c) /\ Confirms(c)
  <2> DEFINE j == Subject(c)
  <2>1. j = ulr[c].imsi /\ j \in IMSI
    BY <1>3, AboutAwaited
  <2>2. /\ serving' = [serving EXCEPT ![j][RoleOf[c]] = IdOf[c]]
        /\ \E old \in OldPeers(j, c) : ulr' = [ulr EXCEPT ![c].old = old]
        /\ UNCHANGED link /\ Await(c, "result")
    BY <1>3 DEF ContinueUlr, Located
  <2> HIDE DEF j
  <2>3. CASE j = i /\ RoleOf[c] = RoleOf[d] /\ IdOf[c] # IdOf[d]
    <3>1. d \in Active
      BY DEF Active
    <3>2. PICK old \in OldPeers(i, c) : ulr' = [ulr EXCEPT ![c].old = old]
      BY <2>2, <2>3
    <3>3. old \in Active /\ IdOf[old] = IdOf[d]
      BY <2>3, <3>1, <3>2 DEF OldPeers
    <3>4. old \in Conn /\ link[old] # "new"
      BY <3>3 DEF Active
    <3>5. ulr'[c].old = old /\ ulr'[c].imsi = ulr[c].imsi
      <4>1. ulr[c] \in Trx
        BY <1>1
      <4>2. QED
        BY <1>1, <3>2, <4>1 DEF Trx
    <3>6. task'[c] = "result"
      BY <2>2 DEF Await, TypeInv, TypeOK
    <3>7. QED
      BY <2>1, <2>2, <2>3, <3>3, <3>4, <3>5, <3>6, GsupAssumption
         DEF Cancelling
  <2>4. CASE ~(j = i /\ RoleOf[c] = RoleOf[d] /\ IdOf[c] # IdOf[d])
    BY <1>1, <2>1, <2>2, <2>4
  <2>5. QED
    BY <2>3, <2>4
<1>4. CASE FailUlr(c)
  <2>1. \/ UNCHANGED serving
        \/ /\ serving' = [serving EXCEPT ![Subject(c)][RoleOf[c]] = IdOf[c]]
           /\ excuse' = [excuse EXCEPT ![Subject(c)] = @ \cup {"broken off"}]
    BY <1>4 DEF FailUlr, Located
  <2>2. QED
    BY <1>1, <2>1
<1>5. CASE ~HandlePur(c) /\ ~FailUlr(c) /\ ~(ContinueUlr(c) /\ Confirms(c))
  <2>1. UNCHANGED serving
    BY <1>5 DEF Serve, HandleUlr, RejectUlr, BegunUlr, ContinueUlr,
                AnsweredUlr, CancelledUlr, ContinueIsd, RefuseAnswer, FailUlr,
                SeeLoss,
                hssVars
  <2>2. QED
    BY <2>1
<1>6. QED
  BY <1>2, <1>3, <1>4, <1>5

LEMMA ServedExcuse ==
  ASSUME TypeInv, NEW c \in Conn, Serve(c), NEW i \in IMSI, excuse[i] # {}
  PROVE  excuse'[i] # {}
<1>1. \/ UNCHANGED excuse
      \/ \E j, why : excuse' = [excuse EXCEPT ![j] = @ \cup {why}]
  BY DEF Serve, HandleUlr, RejectUlr, BegunUlr, ContinueUlr, AnsweredUlr,
         CancelledUlr, ContinueIsd, RefuseAnswer, FailUlr, HandlePur, SeeLoss,
         peerVars
<1>2. QED
  BY <1>1 DEF TypeInv, TypeOK

LEMMA ServedStay ==
  ASSUME HeldInv, orderly, OneLink, NEW c \in Conn, Serve(c), NEW d \in Conn
  PROVE  /\ link'[d] = "new" => holds'[d] = {}
         /\ link'[d] = "up" =>
              \A i \in IMSI : HeldAt(d, i)' /\ PurgedAt(d, i)'
<1> USE DEF HeldInv
<1>1. link'[d] = "new" => holds'[d] = {}
  BY ServedLinks DEF StayInv
<1>2. ASSUME link'[d] = "up", NEW i \in IMSI, WillHold(d, i)'
      PROVE  M("PUR", i) \notin ToSet(toHss'[d])
  <2>1. /\ link[d] = "up"
        /\ WillHold(d, i) \/ (d = c /\ ContinueUlr(c))
    BY <1>2, ServedHolds
  <2>2. CASE WillHold(d, i)
    <3>1. M("PUR", i) \notin ToSet(toHss[d])
      BY <2>1, <2>2 DEF StayInv, PurgedAt
    <3>2. ToSet(toHss'[d]) \subseteq ToSet(toHss[d])
      BY OnlyReads DEF TypeInv
    <3>3. QED
      BY <3>1, <3>2
  <2>3. CASE d = c /\ ContinueUlr(c)
    BY <2>3, AboutAwaited, NoMessages
  <2>4. QED
    BY <2>1, <2>2, <2>3
<1>3. ASSUME link'[d] = "up", NEW i \in IMSI, WillHold(d, i)',
             excuse'[i] = {}
      PROVE  \/ serving'[i][RoleOf[d]] = IdOf[d]
             \/ \E e \in Conn : Cancelling(e, d, i)'
  <2>1. /\ link[d] = "up"
        /\ \/ WillHold(d, i)
           \/ /\ d = c /\ ContinueUlr(c) /\ Confirms(c)
              /\ i = Subject(c)
    BY <1>3, ServedHolds
  <2>2. CASE d = c /\ ContinueUlr(c) /\ Confirms(c) /\ i = Subject(c)
    <3>1. serving' = [serving EXCEPT ![i][RoleOf[d]] = IdOf[d]]
      BY <2>2 DEF ContinueUlr, Located
    <3>2. /\ serving \in [IMSI -> [Role -> Id \cup {NoId}]]
          /\ RoleOf[d] \in Role
      BY GsupAssumption DEF TypeInv, TypeOK
    <3>3. QED
      BY <3>1, <3>2
  <2>3. CASE WillHold(d, i)
    <3>1. excuse[i] = {} /\ PurgedAt(d, i)
      BY <1>3, <2>1, ServedExcuse DEF StayInv
    <3>2. \/ serving[i][RoleOf[d]] = IdOf[d]
          \/ \E e \in Conn : Cancelling(e, d, i)
      BY <2>1, <2>3, <3>1 DEF StayInv, HeldAt
    <3>3. CASE serving[i][RoleOf[d]] = IdOf[d]
      BY <1>3, <2>1, <2>3, <3>1, <3>3, RowStays
    <3>4. ASSUME NEW e \in Conn, Cancelling(e, d, i)
          PROVE  Cancelling(e, d, i)'
      <4>1. CASE e = c
        BY <1>3, <2>1, <3>4, <4>1, OwnCancel
      <4>2. CASE e # c
        BY <3>4, <4>2, OthersCancel
      <4>3. QED
        BY <4>1, <4>2
    <3>5. QED
      BY <3>2, <3>3, <3>4
  <2>4. QED
    BY <2>1, <2>2, <2>3
<1>4. ASSUME link'[d] = "up", NEW i \in IMSI
      PROVE  HeldAt(d, i)' /\ PurgedAt(d, i)'
  <2>1. HeldAt(d, i)'
    BY <1>3, <1>4 DEF HeldAt
  <2>2. M("PUR", i)' = M("PUR", i)
    BY DEF M
  <2>3. PurgedAt(d, i)'
    BY <1>2, <1>4, <2>2 DEF PurgedAt
  <2>4. QED
    BY <2>1, <2>3
<1>5. QED
  BY <1>1, <1>4

\* Nothing a peer does makes it serve a subscriber it was not about to serve,
\* and it purges one only to give it up.
LEMMA PeerHolds ==
  ASSUME TypeInv, OrderlyInv, StayInv, orderly, NEW c \in Conn, PeerStep(c),
         NEW i \in IMSI, link'[c] = "up", WillHold(c, i)'
  PROVE  /\ link[c] = "up" /\ WillHold(c, i)
         /\ M("PUR", i) \in ToSet(toHss'[c])
              => M("PUR", i) \in ToSet(toHss[c])
<1> DEFINE h == toHss[c]
           p == toPeer[c]
           H == holds[c]
<1>1. /\ h \in Seq(Msg) /\ p \in Seq(Msg)
      /\ toHss \in [Conn -> Seq(Msg)] /\ holds \in [Conn -> SUBSET IMSI]
      /\ toPeer \in [Conn -> Seq(Msg)]
      /\ link \in [Conn -> {"new", "up", "lost", "closed"}]
      /\ WillServe(toPeer'[c], holds'[c], i)
      /\ WillHold(c, i) <=> WillServe(p, H, i)
  BY HoldNext DEF TypeInv, TypeOK, WillHold
<1>2. ASSUME NEW m \in Msg, Send(c, m), m # M("PUR", i)
      PROVE  M("PUR", i) \in ToSet(toHss'[c]) => M("PUR", i) \in ToSet(h)
  <2>1. toHss'[c] = Append(h, m)
    BY <1>1, <1>2 DEF Send
  <2>2. QED
    BY <1>1, <1>2, <2>1, Appended
<1>3. ASSUME NEW types, Receiving(c, types)
      PROVE  /\ link[c] = "up" /\ p # << >> /\ Head(p).type \in types
             /\ toPeer'[c] = Tail(p) /\ Head(p) \in Msg
             /\ Head(p).imsi \in IMSI
             /\ Head(p) = M(Head(p).type, Head(p).imsi)
  <2>1. link[c] = "up" /\ p # << >> /\ Head(p).type \in types
    BY <1>3 DEF Receiving
  <2>2. Head(p) \in Msg
    BY <1>1, <2>1, Taken
  <2>3. QED
    BY <1>1, <1>3, <2>1, <2>2, MsgFields DEF Receiving, Msg
<1> HIDE DEF h, p, H
<1>4. CASE Connect(c)
  <2>1. toPeer'[c] = << >> /\ holds'[c] = {}
    BY <1>4 DEF Connect, OrderlyInv, StayInv, peerVars
  <2>2. QED
    BY <1>1, <2>1, ServesNone
<1>5. CASE Disconnect(c)
  BY <1>1, <1>5 DEF Disconnect
<1>6. ASSUME NEW j \in IMSI, StartUlr(c, j)
      PROVE  /\ link[c] = "up" /\ WillHold(c, i)
             /\ M("PUR", i) \in ToSet(toHss'[c]) => M("PUR", i) \in ToSet(h)
  <2>1. /\ link[c] = "up" /\ toPeer'[c] = p /\ holds'[c] = H
        /\ Send(c, M("ULR", j))
    BY <1>6 DEF StartUlr, p, H
  <2>2. M("ULR", j) \in Msg /\ M("ULR", j) # M("PUR", i)
    BY MsgType, SameMessage
  <2>3. QED
    BY <1>1, <1>2, <2>1, <2>2
<1>7. ASSUME NEW j \in IMSI, StartPur(c, j)
      PROVE  /\ link[c] = "up" /\ WillHold(c, i)
             /\ M("PUR", i) \in ToSet(toHss'[c]) => M("PUR", i) \in ToSet(h)
  <2>1. /\ link[c] = "up" /\ toPeer'[c] = p /\ holds'[c] = H \ {j}
        /\ Send(c, M("PUR", j)) /\ asking[c] = {}
    BY <1>1, <1>7 DEF StartPur, p, H
  <2>2. Silent(p)
    BY <2>1 DEF OrderlyInv, Dialogue, Talk, Silent, p
  <2>3. WillServe(p, H, i) /\ i # j
    <3>1. WillServe(p, H \ {j}, i)
      BY <1>1, <2>1
    <3>2. WillServe(p, H, i)
      BY <1>1, <3>1, ServesLess
    <3>3. i = j => FALSE
      BY <1>1, <2>2, <3>1, ServesLess
    <3>4. QED
      BY <3>2, <3>3
  <2>4. M("PUR", j) \in Msg /\ M("PUR", j) # M("PUR", i)
    BY <2>3, MsgType, SameMessage
  <2>5. QED
    BY <1>1, <1>2, <2>1, <2>3, <2>4
<1>8. CASE TakeIsd(c)
  <2>1. /\ link[c] = "up" /\ p # << >> /\ toPeer'[c] = Tail(p)
        /\ Head(p).imsi \in IMSI /\ Head(p).type = "ISD"
    BY <1>3, <1>8 DEF TakeIsd
  <2>2. holds'[c] = H
    BY <1>8 DEF TakeIsd, H
  <2>3. Head(p) # M("CANCEL", i)
    BY <2>1 DEF M
  <2>4. WillServe(p, H, i)
    <3>1. WillServe(Tail(p), H, i)
      BY <1>1, <2>1, <2>2
    <3>2. QED
      BY <1>1, <2>1, <2>3, <3>1, ServesRead
  <2>5. \/ toHss' = toHss
        \/ \E type \in {"ISR", "ISE"} : Send(c, M(type, Head(p).imsi))
    BY <1>8 DEF TakeIsd, p
  <2>6. \A type \in {"ISR", "ISE"} :
          /\ M(type, Head(p).imsi) \in Msg
          /\ M(type, Head(p).imsi) # M("PUR", i)
    BY <2>1, MsgType, SameMessage
  <2>7. QED
    BY <1>1, <1>2, <2>1, <2>4, <2>5, <2>6 DEF h
<1>9. CASE TakeAnswer(c)
  <2>1. /\ link[c] = "up" /\ p # << >> /\ toPeer'[c] = Tail(p)
        /\ Head(p) = M(Head(p).type, Head(p).imsi)
    BY <1>3, <1>9 DEF TakeAnswer
  <2>2. holds'[c] = CASE Head(p).type = "ULR_RES" -> H \cup {Head(p).imsi}
                      [] Head(p).type = "CANCEL"  -> H \ {Head(p).imsi}
                      [] OTHER                    -> H
    BY <1>1, <1>9 DEF TakeAnswer, p, H
  <2>3. i \in holds'[c] => \/ Head(p) = M("ULR_RES", i)
                           \/ i \in H /\ Head(p) # M("CANCEL", i)
    <3>1. CASE Head(p).type = "ULR_RES"
      <4>1. Head(p) # M("CANCEL", i)
        BY <3>1 DEF M
      <4>2. holds'[c] = H \cup {Head(p).imsi}
        BY <2>2, <3>1
      <4>3. QED
        BY <2>1, <3>1, <4>1, <4>2
    <3>2. CASE Head(p).type = "CANCEL"
      <4>1. holds'[c] = H \ {Head(p).imsi}
        BY <2>2, <3>2
      <4>2. Head(p) = M("CANCEL", i) => Head(p).imsi = i
        BY DEF M
      <4>3. QED
        BY <4>1, <4>2
    <3>3. CASE Head(p).type \notin {"ULR_RES", "CANCEL"}
      <4>1. holds'[c] = H
        BY <2>2, <3>3
      <4>2. Head(p) # M("CANCEL", i)
        BY <3>3 DEF M
      <4>3. QED
        BY <4>1, <4>2
    <3>4. QED
      BY <3>1, <3>2, <3>3
  <2>4. WillServe(p, H, i)
    BY <1>1, <2>1, <2>3, ServesRead
  <2>5. toHss' = toHss
    BY <1>9 DEF TakeAnswer
  <2>6. QED
    BY <1>1, <2>1, <2>4, <2>5
<1>10. QED
  BY <1>4, <1>5, <1>6, <1>7, <1>8, <1>9 DEF PeerStep, h

LEMMA PeerStay ==
  ASSUME HeldInv, orderly, NEW c \in Conn, PeerStep(c), NEW d \in Conn
  PROVE  /\ link'[d] = "new" => holds'[d] = {}
         /\ link'[d] = "up" =>
              \A i \in IMSI : HeldAt(d, i)' /\ PurgedAt(d, i)'
<1> USE DEF HeldInv
<1>1. UNCHANGED <<serving, excuse, task, ulr>>
  BY DEF PeerStep, Connect, Disconnect, StartUlr, StartPur, TakeIsd,
         TakeAnswer, hssVars, peerVars
<1>2. /\ \A e \in Conn : link[e] # "new" => link'[e] # "new"
      /\ \A e \in Conn : link[e] \notin {"new", "up"} => link'[e] = link[e]
      /\ link'[c] # "new"
      /\ d # c => /\ link'[d] = link[d] /\ toHss'[d] = toHss[d]
                  /\ toPeer'[d] = toPeer[d] /\ holds'[d] = holds[d]
  BY DEF PeerStep, Connect, Disconnect, StartUlr, StartPur, TakeIsd,
         TakeAnswer, Receiving, Send, peerVars, TypeInv, TypeOK
<1>3. link'[d] = "new" => holds'[d] = {}
  BY <1>2 DEF StayInv
<1>4. ASSUME link'[d] = "up", NEW i \in IMSI, WillHold(d, i)'
      PROVE  /\ link[d] = "up" /\ WillHold(d, i)
             /\ M("PUR", i) \in ToSet(toHss'[d])
                  => M("PUR", i) \in ToSet(toHss[d])
  <2>1. CASE d = c
    BY <1>4, <2>1, PeerHolds
  <2>2. CASE d # c
    BY <1>2, <1>4, <2>2, HoldNext DEF WillHold
  <2>3. QED
    BY <2>1, <2>2
<1>5. ASSUME NEW e \in Conn, NEW i \in IMSI, Cancelling(e, d, i)
      PROVE  Cancelling(e, d, i)'
  <2>1. ulr[e].old \in Conn
    <3>1. ulr[e] \in Trx
      BY DEF TypeInv, TypeOK
    <3>2. QED
      BY <1>5, <3>1 DEF Trx, Cancelling
  <2>2. QED
    BY <1>1, <1>2, <1>5, <2>1 DEF Cancelling
<1>6. ASSUME link'[d] = "up", NEW i \in IMSI
      PROVE  HeldAt(d, i)' /\ PurgedAt(d, i)'
  <2>1. ASSUME WillHold(d, i)', excuse'[i] = {}
        PROVE  \/ serving'[i][RoleOf[d]] = IdOf[d]
               \/ \E e \in Conn : Cancelling(e, d, i)'
    <3>1. /\ link[d] = "up" /\ WillHold(d, i) /\ excuse[i] = {}
      BY <1>1, <1>4, <1>6, <2>1
    <3>2. \/ serving[i][RoleOf[d]] = IdOf[d]
          \/ \E e \in Conn : Cancelling(e, d, i)
      BY <3>1 DEF StayInv, HeldAt
    <3>3. QED
      BY <1>1, <1>5, <3>2
  <2>2. HeldAt(d, i)'
    BY <2>1 DEF HeldAt
  <2>3. ASSUME WillHold(d, i)'
        PROVE  M("PUR", i) \notin ToSet(toHss'[d])
    BY <1>4, <1>6, <2>3 DEF StayInv, PurgedAt
  <2>4. M("PUR", i)' = M("PUR", i)
    BY DEF M
  <2>5. PurgedAt(d, i)'
    BY <2>3, <2>4 DEF PurgedAt
  <2>6. QED
    BY <2>2, <2>5
<1>7. QED
  BY <1>3, <1>6

LEMMA NextHeld == HeldInv /\ OneLink /\ [Next]_vars => HeldInv'
<1> SUFFICES ASSUME HeldInv, OneLink, [Next]_vars
             PROVE  HeldInv'
  OBVIOUS
<1>1. TypeInv' /\ OrderlyInv' /\ TurnInv'
  BY NextTypes, NextOrderly, NextTurn DEF HeldInv
<1>2. SUFFICES ASSUME orderly, NEW d \in Conn
               PROVE  /\ link'[d] = "new" => holds'[d] = {}
                      /\ link'[d] = "up" =>
                           \A i \in IMSI : HeldAt(d, i)' /\ PurgedAt(d, i)'
  BY <1>1 DEF HeldInv, StayInv, Next, vars
<1>3. ASSUME UNCHANGED <<link, task, toHss, toPeer, serving, holds, excuse>>,
             \A e \in Conn : ulr'[e].imsi = ulr[e].imsi
                             /\ ulr'[e].old = ulr[e].old
      PROVE  /\ link'[d] = "new" => holds'[d] = {}
             /\ link'[d] = "up" =>
                  \A i \in IMSI : HeldAt(d, i)' /\ PurgedAt(d, i)'
  <2>1. \A i \in IMSI :
          /\ WillHold(d, i)' <=> WillHold(d, i)
          /\ M("PUR", i)' = M("PUR", i)
    BY <1>3, HoldNext DEF WillHold, M
  <2>2. \A i \in IMSI : \A e \in Conn :
          Cancelling(e, d, i) => Cancelling(e, d, i)'
    BY <1>3 DEF Cancelling
  <2>3. ASSUME link'[d] = "up", NEW i \in IMSI
        PROVE  HeldAt(d, i)' /\ PurgedAt(d, i)'
    <3>1. HeldAt(d, i) /\ PurgedAt(d, i)
      BY <1>2, <1>3, <2>3 DEF HeldInv, StayInv
    <3>2. HeldAt(d, i)'
      BY <1>3, <2>1, <2>2, <3>1 DEF HeldAt
    <3>3. PurgedAt(d, i)'
      BY <1>3, <2>1, <3>1 DEF PurgedAt
    <3>4. QED
      BY <3>2, <3>3
  <2>4. QED
    BY <1>2, <1>3, <2>3 DEF HeldInv, StayInv
<1>4. ASSUME NEW c \in Conn, UlrTimeout(c)
      PROVE  /\ link'[d] = "new" => holds'[d] = {}
             /\ link'[d] = "up" =>
                  \A i \in IMSI : HeldAt(d, i)' /\ PurgedAt(d, i)'
  <2>1. ulr \in [Conn -> Trx] /\ ulr' = [ulr EXCEPT ![c].timedOut = TRUE]
    BY <1>4 DEF UlrTimeout, HeldInv, TypeInv, TypeOK
  <2>2. \A e \in Conn : ulr'[e].imsi = ulr[e].imsi /\ ulr'[e].old = ulr[e].old
    BY <2>1 DEF Trx
  <2>3. QED
    BY <1>3, <1>4, <2>2 DEF UlrTimeout, peerVars
<1>5. ASSUME NEW c \in Conn, IsdTimeout(c)
      PROVE  /\ link'[d] = "new" => holds'[d] = {}
             /\ link'[d] = "up" =>
                  \A i \in IMSI : HeldAt(d, i)' /\ PurgedAt(d, i)'
  BY <1>3, <1>5 DEF IsdTimeout, peerVars
<1>6. ~Listen /\ \A i \in IMSI : ~SendUpdate(i)
  BY <1>2 DEF Listen, TakeUpdate, SkipUpdate, BeginIsd, BegunIsd, SendUpdate,
              HeldInv, OrderlyInv
<1>7. CASE UNCHANGED vars
  BY <1>3, <1>7 DEF vars
<1>8. QED
  BY <1>2, <1>4, <1>5, <1>6, <1>7, ServedStay, PeerStay DEF Next

\* AnsweredUlr, PURController: with one dialogue and one connection per peer
\* at a time, a connected peer serves only subscribers whose row names it
\* once every message has been handled, unless a stray purge cleared the row
\* or an update broke off before it cancelled the old peer.
THEOREM ServedIsLocated == Spec /\ []OneLink => []HeldIsLocated
<1>1. Init => HeldInv
  <2>1. ASSUME Init, orderly, NEW c \in Conn
        PROVE  /\ EndsTurn(toHss[c]) /\ Awaits(c)
               /\ holds[c] = {} /\ link[c] = "new"
    <3>1. Len(<< >>) = 0
      OBVIOUS
    <3>2. EndsTurn(<< >>)
      BY <3>1 DEF EndsTurn
    <3>3. toHss[c] = << >> /\ holds[c] = {} /\ link[c] = "new"
      BY <2>1 DEF Init
    <3>4. QED
      BY <3>2, <3>3, NoMessages DEF Awaits
  <2>2. ASSUME Init
        PROVE  TypeInv /\ OrderlyInv
    BY <2>2, InitTypes DEF Init, OrderlyInv
  <2>3. QED
    BY <2>1, <2>2 DEF HeldInv, TurnInv, StayInv
<1>2. HeldInv => HeldIsLocated
  <2>1. SUFFICES ASSUME HeldInv, orderly, Settled, NEW c \in Conn,
                        link[c] = "up", NEW i \in holds[c]
                 PROVE  \/ serving[i][RoleOf[c]] = IdOf[c]
                        \/ excuse[i] # {}
    BY DEF HeldIsLocated
  <2>2. toPeer[c] = << >> /\ \A e \in Conn : task[e] = "read"
    BY <2>1 DEF Settled
  <2>3. i \in IMSI
    BY <2>1 DEF HeldInv, TypeInv, TypeOK
  <2>4. WillHold(c, i)
    BY <2>1, <2>2, ServesNone DEF WillHold
  <2>5. \A e \in Conn : ~Cancelling(e, c, i)
    BY <2>2 DEF Cancelling
  <2>6. HeldAt(c, i)
    BY <2>1, <2>3 DEF HeldInv, StayInv
  <2>7. QED
    BY <2>4, <2>5, <2>6 DEF HeldAt
<1>3. QED
  BY <1>1, <1>2, NextHeld, PTL DEF Spec

-----------------------------------------------------------------------------
(***************************************************************************)
(* The connection layer.                                                   *)
(***************************************************************************)

\* What the tables and the writes of a connection are at each place of its
\* task: the inductive invariant.
Unwritten(p) == written[p].idAck = 0 /\ written[p].pong = 0

AwaitsAck(p) == p \in pendingActivation /\ Unwritten(p)

Acked(p) ==
  /\ p \in active \ pendingActivation
  /\ written[p].idAck = 1
  /\ pendingPings[p] = 0

PlaceInv ==
  \A p \in Peer :
    /\ place[p] = "off" => /\ p \notin active \cup pendingActivation
                          /\ Unwritten(p)
                          /\ pings[p] = 0
                          /\ pendingPings[p] = 0
    /\ place[p] = "read" => (AwaitsAck(p) /\ p \notin active) \/ Acked(p)
    /\ place[p] = "identify" => AwaitsAck(p) /\ p \in active
    /\ place[p] = "stuck" => AwaitsAck(p)
    /\ place[p] = "closed" => /\ p \notin active \cup pendingActivation
                             /\ pendingPings[p] = 0

ConnInv == ConnTypeOK /\ PlaceInv /\ PingsAnswered /\ AckFirst

LEMMA ConnInitInv == ConnInit => ConnInv
  BY DEF ConnInit, ConnInv, ConnTypeOK, Task, PlaceInv, Unwritten,
         PingsAnswered, AckFirst

\* A step of one connection leaves the others alone.
LEMMA ConnNextInv == ConnInv /\ [ConnNext]_connVars => ConnInv'
<1> SUFFICES ASSUME ConnInv, [ConnNext]_connVars
             PROVE  ConnInv'
  OBVIOUS
<1> USE DEF ConnInv, ConnTypeOK, Task, PlaceInv, PingsAnswered, AckFirst,
            Unwritten, AwaitsAck, Acked
<1>1. ASSUME NEW p \in Peer, Accept(p)
      PROVE  ConnInv'
  BY <1>1 DEF Accept
<1>2. ASSUME NEW p \in Peer, Ping(p)
      PROVE  ConnInv'
  <2>1. CASE p \in pendingActivation
    BY <1>2, <2>1 DEF Ping, AnswerPing, Reads
  <2>2. CASE p \notin pendingActivation
    <3>1. /\ written' = [written EXCEPT ![p].pong = @ + 1]
          /\ pings' = [pings EXCEPT ![p] = @ + 1]
          /\ UNCHANGED <<place, active, pendingActivation, pendingPings,
                         silent>>
          /\ place[p] = "read"
      BY <1>2, <2>2 DEF Ping, AnswerPing, Reads
    <3>2. ConnTypeOK'
      BY <3>1
    <3>3. /\ written'[p].pong = written[p].pong + 1
          /\ written'[p].idAck = written[p].idAck
          /\ \A q \in Peer \ {p} : written'[q] = written[q]
      BY <3>1
    <3>4. QED
      BY <2>2, <3>1, <3>2, <3>3
  <2>3. QED
    BY <2>1, <2>2
<1>3. ASSUME NEW p \in Peer, Identify(p)
      PROVE  ConnInv'
  BY <1>3 DEF Identify, Reads
<1>4. ASSUME NEW p \in Peer, Acknowledge(p)
      PROVE  ConnInv'
  <2>1. ConnTypeOK'
    BY <1>4 DEF Acknowledge
  <2>2. /\ written'[p].idAck = written[p].idAck + 1
        /\ written'[p].pong = written[p].pong + pendingPings[p]
        /\ \A q \in Peer \ {p} : written'[q] = written[q]
    BY <1>4 DEF Acknowledge
  <2>3. place[p] = "identify" /\ p \in active
    BY <1>4 DEF Acknowledge
  <2>4. PlaceInv' /\ PingsAnswered'
    <3>1. /\ place' = [place EXCEPT ![p] = "read"]
          /\ pendingActivation' = pendingActivation \ {p}
          /\ pendingPings' = [pendingPings EXCEPT ![p] = 0]
          /\ UNCHANGED <<active, pings>>
      BY <1>4 DEF Acknowledge
    <3>2. /\ AwaitsAck(p)
          /\ pendingPings[p] = pings[p]
          /\ pendingPings[p] \in Nat
      BY <2>3
    <3>3. QED
      BY <2>2, <2>3, <3>1, <3>2
  <2>5. AckFirst'
    BY <2>2, <2>3
  <2>6. QED
    BY <2>1, <2>4, <2>5
<1>5. ASSUME NEW p \in Peer, Garble(p)
      PROVE  ConnInv'
  BY <1>5 DEF Garble, Reads
<1>6. ASSUME NEW p \in Peer, End(p) \/ EndIdentify(p) \/ TimeOut(p)
      PROVE  ConnInv'
  <2>1. Close(p) /\ UNCHANGED <<written, pings, silent>>
    BY <1>6 DEF End, EndIdentify, TimeOut
  <2>2. ConnTypeOK'
    BY <2>1 DEF Close
  <2>3. PlaceInv'
    BY <2>1 DEF Close
  <2>4. PingsAnswered' /\ AckFirst'
    BY <2>1 DEF Close
  <2>5. QED
    BY <2>2, <2>3, <2>4
<1>7. CASE UNCHANGED connVars
  BY <1>7 DEF connVars
<1>8. ASSUME NEW p \in Peer, FallSilent(p)
      PROVE  ConnInv'
  BY <1>8 DEF FallSilent
<1>9. QED
  BY <1>1, <1>2, <1>3, <1>4, <1>5, <1>6, <1>7, <1>8 DEF ConnNext

LEMMA ConnInvariant == ConnSpec => []ConnInv
  BY ConnInitInv, ConnNextInv, PTL DEF ConnSpec

\* __handle_ccm: on an open connection every PING read has had its PONG or is
\* counted in connections_pending_pings.
THEOREM NoPingForgotten == ConnSpec => []PingsAnswered
<1>1. ConnInv => PingsAnswered
  BY DEF ConnInv
<1>2. QED
  BY <1>1, ConnInvariant, PTL

\* __handle_ccm_identity_response: the ID_ACK is written once, before any PONG.
THEOREM AckBeforePongs == ConnSpec => []AckFirst
<1>1. ConnInv => AckFirst
  BY DEF ConnInv
<1>2. QED
  BY <1>1, ConnInvariant, PTL

\* __handle_connection: a connection that has ended has left every table, and
\* an open one is in one of them.
THEOREM TablesCleared == ConnSpec => []TablesClean
<1>1. ConnInv => TablesClean
  BY DEF ConnInv, PlaceInv, AwaitsAck, Acked, TablesClean
<1>2. QED
  BY <1>1, ConnInvariant, PTL

\* The variables keep their types: no count goes below zero.
THEOREM TypesKept == ConnSpec => []ConnTypeOK
<1>1. ConnInv => ConnTypeOK
  BY DEF ConnInv
<1>2. QED
  BY <1>1, ConnInvariant, PTL

=============================================================================
