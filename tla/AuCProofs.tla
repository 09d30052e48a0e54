----------------------------- MODULE AuCProofs ------------------------------
(***************************************************************************)
(* Theorems about AuC, for any sites, clients, requests and SQN step.      *)
(***************************************************************************)
EXTENDS AuC, SequenceTheorems, TLAPS

\* An open request has a vector left to make, and resynchronises before it
\* reads the row; no update is sent to the site it comes from.
HandlerInv ==
  /\ \A c \in Client :
       /\ Open(c) => call[c].left >= 1 /\ call[c].copies >= 1
       /\ call[c].resync => call[c].at = "write"
  /\ \A s \in Site : mail[s][s] = << >>

TypeInv == TypeOK /\ HandlerInv

\* Without overlap one request is open at a time, no copy is on its way to
\* its site, and what it has read of the row is there still.
AloneInv ==
  "overlap" \notin cause =>
    /\ \A c, d \in Client : Open(c) /\ Open(d) => c = d
    /\ \A c \in Client : \A s \in Site \ {SiteOf[c]} :
         Open(c) => ~Sending(s)
    /\ \A c \in Client :
         call[c].at = "write" /\ ~call[c].resync
           => call[c].sqn = row[SiteOf[c]]

\* What the row of site t holds once all that s has sent it is stored.
Settled(s, t) ==
  IF mail[s][t] = << >> THEN row[t] ELSE mail[s][t][Len(mail[s][t])]

\* The site of the last update: the only one that sends, whose SQN the others
\* will have, beyond all that was issued.
Leads(s) ==
  /\ \A r \in Site \ {s} : ~Sending(r)
  /\ \A c \in Client : Open(c) => SiteOf[c] = s
  /\ \A t \in Site : Settled(s, t) = row[s]
  /\ cause = {} => \A i \in issued : i < row[s]

LeadInv ==
  cause \cap {"overlap", "lost"} = {} => \E s \in Site : Leads(s)

\* The vectors that follow a resynchronisation are all beyond the USIM's SQN.
ResyncInv ==
  "overlap" \notin cause =>
    \A c \in synced :
      /\ \A i \in 1 .. Len(stock[c]) : stock[c][i] > usim
      /\ Open(c) \/ stock[c] # << >>
      /\ Open(c) /\ call[c].resync => call[c].auts = usim
      /\ Open(c) /\ ~call[c].resync => row[SiteOf[c]] > usim

-----------------------------------------------------------------------------
LEMMA IdleIsCall == Idle \in Call
BY DEF Idle, Call

LEMMA NextSqnType ==
  ASSUME TypeInv, NEW c \in Client
  PROVE  NewSqn(c) \in Nat
BY AucAssumption DEF TypeInv, TypeOK, Call, NewSqn

LEMMA RequestIsCall ==
  ASSUME NEW c \in Client, NEW n \in 1 .. MaxVectors
  PROVE  /\ Vectors(c, n) \in Call
         /\ Vectors(c, n).at = "read"
         /\ ~Vectors(c, n).resync
         /\ Vectors(c, n).left >= 1
         /\ Vectors(c, n).copies >= 1
<1>1. n \in Nat /\ n >= 1
  BY AucAssumption
<1>2. CASE c \in Batches
  <2>1. Vectors(c, n) = [at |-> "read", resync |-> FALSE, auts |-> 0,
                         left |-> 1, copies |-> n, sqn |-> 0]
    BY <1>2 DEF Vectors, Idle
  <2>2. QED
    BY <1>1, <2>1 DEF Call
<1>3. CASE c \notin Batches
  <2>1. Vectors(c, n) = [at |-> "read", resync |-> FALSE, auts |-> 0,
                         left |-> n, copies |-> 1, sqn |-> 0]
    BY <1>3 DEF Vectors, Idle
  <2>2. QED
    BY <1>1, <2>1 DEF Call
<1>4. QED
  BY <1>2, <1>3

\* Send and SendFails: a copy at the end of each queue to another site, or
\* nothing at all.
LEMMA SendType ==
  ASSUME TypeInv, NEW c \in Client, Send(c) \/ SendFails
  PROVE  /\ mail' \in [Site -> [Site -> Seq(Nat)]]
         /\ \A s \in Site : mail'[s][s] = << >>
<1>1. NewSqn(c) \in Nat /\ SiteOf[c] \in Site
  BY NextSqnType, AucAssumption
<1>2. CASE Send(c)
  <2>1. ASSUME NEW t \in Site
        PROVE  Append(mail[SiteOf[c]][t], NewSqn(c)) \in Seq(Nat)
    BY <1>1 DEF TypeInv, TypeOK
  <2>2. [t \in Site |-> IF t = SiteOf[c] THEN << >>
                        ELSE Append(mail[SiteOf[c]][t], NewSqn(c))]
          \in [Site -> Seq(Nat)]
    BY <2>1
  <2>3. QED
    BY <1>1, <1>2, <2>2 DEF Send, TypeInv, TypeOK, HandlerInv
<1>3. CASE SendFails
  BY <1>3 DEF SendFails, TypeInv, TypeOK, HandlerInv
<1>4. QED
  BY <1>2, <1>3

LEMMA PopType ==
  ASSUME TypeInv, NEW s \in Site, NEW t \in Site, mail[s][t] # << >>,
         Pop(s, t) \/ UNCHANGED mail
  PROVE  /\ mail' \in [Site -> [Site -> Seq(Nat)]]
         /\ \A r \in Site : mail'[r][r] = << >>
         /\ Head(mail[s][t]) \in Nat
<1>1. mail[s][t] \in Seq(Nat)
  BY DEF TypeInv, TypeOK
<1>2. Tail(mail[s][t]) \in Seq(Nat) /\ Head(mail[s][t]) \in Nat
  BY <1>1
<1>3. s # t
  BY DEF TypeInv, HandlerInv
<1>4. CASE Pop(s, t)
  <2>1. mail' = [mail EXCEPT ![s] = [mail[s] EXCEPT ![t] = Tail(mail[s][t])]]
    BY <1>4 DEF Pop, TypeInv, TypeOK
  <2>2. [mail[s] EXCEPT ![t] = Tail(mail[s][t])] \in [Site -> Seq(Nat)]
    BY <1>2 DEF TypeInv, TypeOK
  <2>3. QED
    BY <1>2, <1>3, <2>1, <2>2 DEF TypeInv, TypeOK, HandlerInv
<1>5. CASE UNCHANGED mail
  BY <1>2, <1>5 DEF TypeInv, TypeOK, HandlerInv
<1>6. QED
  BY <1>4, <1>5

\* The same SQN n times over.
LEMMA CopiesType ==
  ASSUME NEW n \in Nat, NEW q \in Nat
  PROVE  /\ [i \in 1 .. n |-> q] \in Seq(Nat)
         /\ Len([i \in 1 .. n |-> q]) = n
<1> DEFINE made == [i \in 1 .. n |-> q]
<1>1. made \in [1 .. n -> Nat]
  OBVIOUS
<1>2. made \in Seq(Nat)
  BY <1>1, SeqDef
<1>3. QED
  BY <1>2, LenProperties

LEMMA InitTypeInv == Init => TypeInv
<1> SUFFICES ASSUME Init PROVE TypeInv
  OBVIOUS
<1>1. << >> \in Seq(Nat)
  OBVIOUS
<1>2. QED
  BY <1>1, IdleIsCall, AucAssumption
  DEF Init, TypeInv, TypeOK, HandlerInv, Open, Idle, Cause

LEMMA NextTypeInv == TypeInv /\ [Next]_vars => TypeInv'
<1> SUFFICES ASSUME TypeInv, [Next]_vars PROVE TypeInv'
  OBVIOUS
<1> USE DEF TypeInv, TypeOK, HandlerInv, Cause, Open
<1>0. \A c \in Client : /\ call[c] \in Call
                        /\ SiteOf[c] \in Site
                        /\ NewSqn(c) \in Nat
  BY NextSqnType, AucAssumption
<1>1. ASSUME NEW c \in Client, Ask(c)
      PROVE  TypeInv'
  <2>1. PICK n \in 1 .. MaxVectors : Begin(c, Vectors(c, n))
    BY <1>1 DEF Ask
  <2>2. QED
    BY <1>1, <2>1, RequestIsCall DEF Ask, Begin
<1>2. ASSUME NEW c \in Client, Read(c)
      PROVE  TypeInv'
  <2> DEFINE next == [call[c] EXCEPT !.at = "write",
                                     !.sqn = row[SiteOf[c]]]
  <2>1. next \in Call /\ next.left = call[c].left
        /\ next.copies = call[c].copies /\ next.at = "write"
    BY <1>0 DEF Call
  <2>2. call' = [call EXCEPT ![c] = next] /\ call[c].at = "read"
    BY <1>2 DEF Read
  <2> HIDE DEF next
  <2>3. QED
    BY <1>2, <2>1, <2>2 DEF Read
<1>3. ASSUME NEW c \in Client, Resync(c)
      PROVE  TypeInv'
  <2>1. Send(c) \/ SendFails
    BY <1>3 DEF Resync, Sent
  <2>2. /\ mail' \in [Site -> [Site -> Seq(Nat)]]
        /\ \A s \in Site : mail'[s][s] = << >>
    BY <2>1, SendType
  <2> DEFINE next == [call[c] EXCEPT !.resync = FALSE, !.at = "read"]
  <2>3. next \in Call /\ next.left = call[c].left /\ ~next.resync
        /\ next.copies = call[c].copies /\ next.at = "read"
    BY <1>0 DEF Call
  <2>4. call' = [call EXCEPT ![c] = next] /\ call[c].at = "write"
    BY <1>3 DEF Resync, Commit
  <2> HIDE DEF next
  <2>5. cause' \subseteq Cause
    BY <1>3 DEF Resync, Sent
  <2>6. row' \in [Site -> Nat]
    BY <1>0, <1>3 DEF Resync, Commit
  <2>7. call' \in [Client -> Call]
        /\ \A d \in Client :
             /\ call'[d].at # "idle" => call'[d].left >= 1
                                        /\ call'[d].copies >= 1
             /\ call'[d].resync => call'[d].at = "write"
    BY <2>3, <2>4
  <2>8. UNCHANGED <<stock, usim, synced, issued, twice, calls>>
    BY <1>3 DEF Resync
  <2>9. QED
    BY <2>2, <2>5, <2>6, <2>7, <2>8
<1>4. ASSUME NEW c \in Client, Vector(c)
      PROVE  TypeInv'
  <2>1. Send(c) \/ SendFails
    BY <1>4 DEF Vector, Sent
  <2>2. /\ mail' \in [Site -> [Site -> Seq(Nat)]]
        /\ \A s \in Site : mail'[s][s] = << >>
    BY <2>1, SendType
  <2>3. call[c].copies \in Nat /\ call[c].sqn \in Nat /\ call[c].left \in Nat
        /\ call[c].left >= 1
    BY <1>0, <1>4 DEF Call, Vector, Commit
  <2>4. call' \in [Client -> Call]
        /\ \A d \in Client :
             /\ call'[d].at # "idle" => call'[d].left >= 1
                                        /\ call'[d].copies >= 1
             /\ call'[d].resync => call'[d].at = "write"
    <3>1. CASE call[c].left = 1
      BY <3>1, <1>4, IdleIsCall DEF Vector, Idle
    <3>2. CASE call[c].left # 1
      <4> DEFINE next == [call[c] EXCEPT !.at = "read",
                                         !.left = call[c].left - 1]
      <4>1. /\ next \in Call
            /\ next.left >= 1
            /\ next.copies = call[c].copies
            /\ ~next.resync
        <5>1. call[c] \in Call /\ ~call[c].resync /\ call[c].left - 1 \in Nat
          BY <1>0, <1>4, <2>3, <3>2 DEF Vector
        <5>2. QED
          <6>1. next \in Call
            BY <5>1 DEF Call
          <6>2. next.left >= 1 /\ next.copies = call[c].copies
            BY <2>3, <3>2, <5>1 DEF Call
          <6>3. next.resync = call[c].resync
            BY <5>1 DEF Call
          <6>4. QED
            BY <5>1, <6>1, <6>2, <6>3
      <4>2. call' = [call EXCEPT ![c] = next]
        <5>1. call' = [call EXCEPT ![c] =
                         IF call[c].left = 1 THEN Idle ELSE next]
          BY ONLY <1>4 DEF Vector, next
        <5>2. QED
          BY ONLY <3>2, <5>1
      <4> HIDE DEF next
      <4>3. QED
        BY <1>4, <2>3, <4>1, <4>2 DEF Vector, Commit
    <3>3. QED
      BY <3>1, <3>2
  <2>5. stock' \in [Client -> Seq(Nat)]
    <3> DEFINE made == [i \in 1 .. call[c].copies |-> call[c].sqn]
    <3>1. made \in Seq(Nat)
      BY <2>3, CopiesType
    <3>2. stock' = [stock EXCEPT ![c] = stock[c] \o made]
      BY <1>4 DEF Vector
    <3> HIDE DEF made
    <3>3. stock[c] \o made \in Seq(Nat)
      BY <3>1, ConcatProperties
    <3>4. QED
      BY <3>2, <3>3
  <2>6. issued' \subseteq Nat /\ twice' \subseteq issued'
    BY <1>4, <2>3 DEF Vector
  <2>7. cause' \subseteq Cause
    BY <1>4 DEF Vector, Sent
  <2>8. QED
    BY <1>0, <1>4, <2>2, <2>4, <2>5, <2>6, <2>7 DEF Vector, Commit
<1>5. ASSUME NEW c \in Client, Fail(c)
      PROVE  TypeInv'
  BY <1>5, IdleIsCall DEF Fail, Idle
<1>6. ASSUME NEW c \in Client, Accept(c)
      PROVE  TypeInv'
  <2>1. Head(stock[c]) \in Nat /\ Tail(stock[c]) \in Seq(Nat)
    BY <1>6 DEF Accept, Challenge
  <2>2. QED
    BY <1>6, <2>1 DEF Accept
<1>7. ASSUME NEW c \in Client, OutOfSync(c)
      PROVE  TypeInv'
  <2>1. PICK n \in 1 .. MaxVectors :
          Begin(c, [Vectors(c, n) EXCEPT !.at = "write", !.resync = TRUE,
                                         !.auts = usim])
    BY <1>7 DEF OutOfSync
  <2> DEFINE request == [Vectors(c, n) EXCEPT !.at = "write",
                                              !.resync = TRUE,
                                              !.auts = usim]
  <2>2. request \in Call /\ request.left >= 1 /\ request.copies >= 1
        /\ request.at = "write"
    BY RequestIsCall DEF Call
  <2>3. Begin(c, request)
    BY <2>1
  <2> HIDE DEF request
  <2>4. /\ call' = [call EXCEPT ![c] = request]
        /\ cause' \subseteq Cause
        /\ calls' \in Nat
    BY <2>3 DEF Begin
  <2>5. QED
    BY <1>7, <2>2, <2>4 DEF OutOfSync
<1>8. ASSUME NEW c \in Client, Discard(c)
      PROVE  TypeInv'
  BY <1>8 DEF Discard
<1>9. ASSUME NEW s \in Site, NEW t \in Site, Deliver(s, t)
      PROVE  TypeInv'
  BY <1>9, PopType DEF Deliver, Store
<1>10. ASSUME NEW s \in Site, NEW t \in Site, Lose(s, t)
       PROVE  TypeInv'
  BY <1>10, PopType DEF Lose
<1>11. CASE UNCHANGED vars
  BY <1>11 DEF vars
<1>12. QED
  BY <1>1, <1>2, <1>3, <1>4, <1>5, <1>6, <1>7, <1>8, <1>9, <1>10, <1>11
  DEF Next

-----------------------------------------------------------------------------
(***************************************************************************)
(* What the steps do to the requests, the rows and the queues.             *)
(***************************************************************************)

\* Ask and OutOfSync.
LEMMA BeginStep ==
  ASSUME TypeInv, NEW c \in Client, Ask(c) \/ OutOfSync(c)
  PROVE  /\ ~Open(c)
         /\ \A d \in Client \ {c} : call'[d] = call[d]
         /\ call'[c].at # "idle"
         /\ call'[c].at = "write" => call'[c].resync
         /\ call'[c].resync => call'[c].auts = usim /\ OutOfSync(c)
         /\ UNCHANGED <<row, mail, usim, issued, twice>>
         /\ cause \subseteq cause'
         /\ "overlap" \notin cause' =>
              /\ ~Overlaps(c)
              /\ cause' = cause
<1>1. ASSUME NEW request, Begin(c, request)
      PROVE  /\ ~Open(c)
             /\ \A d \in Client \ {c} : call'[d] = call[d]
             /\ call'[c] = request
             /\ cause \subseteq cause'
             /\ "overlap" \notin cause' =>
                  /\ ~Overlaps(c)
                  /\ cause' = cause
  BY <1>1 DEF Begin, TypeInv, TypeOK
<1>2. CASE Ask(c)
  <2>1. PICK n \in 1 .. MaxVectors : Begin(c, Vectors(c, n))
    BY <1>2 DEF Ask
  <2>2. Vectors(c, n).at = "read" /\ ~Vectors(c, n).resync
    BY RequestIsCall
  <2>3. QED
    BY <1>1, <1>2, <2>1, <2>2 DEF Ask
<1>3. CASE OutOfSync(c)
  <2>1. PICK n \in 1 .. MaxVectors :
          Begin(c, [Vectors(c, n) EXCEPT !.at = "write", !.resync = TRUE,
                                         !.auts = usim])
    BY <1>3 DEF OutOfSync
  <2> DEFINE request == [Vectors(c, n) EXCEPT !.at = "write",
                                              !.resync = TRUE,
                                              !.auts = usim]
  <2>2. request.at = "write" /\ request.resync /\ request.auts = usim
    BY RequestIsCall DEF Call
  <2>3. Begin(c, request)
    BY <2>1
  <2> HIDE DEF request
  <2>4. QED
    BY <1>1, <1>3, <2>2, <2>3 DEF OutOfSync
<1>4. QED
  BY <1>2, <1>3

\* Resync and Vector, when the copy is not lost.
LEMMA CommitStep ==
  ASSUME TypeInv, NEW c \in Client, Resync(c) \/ Vector(c)
  PROVE  /\ call[c].at = "write"
         /\ NewSqn(c) \in Nat
         /\ row' = [row EXCEPT ![SiteOf[c]] = NewSqn(c)]
         /\ \A d \in Client \ {c} : call'[d] = call[d]
         /\ call'[c].at # "write"
         /\ Send(c) \/ SendFails
         /\ Send(c) \/ "lost" \in cause'
         /\ cause \subseteq cause'
         /\ "overlap" \in cause' => "overlap" \in cause
<1>1. Send(c) \/ SendFails
  BY DEF Resync, Vector, Sent
<1>2. /\ Send(c) \/ "lost" \in cause'
      /\ cause \subseteq cause'
      /\ "overlap" \in cause' => "overlap" \in cause
  BY DEF Resync, Vector, Sent
<1>3. /\ call[c].at = "write"
      /\ row' = [row EXCEPT ![SiteOf[c]] = NewSqn(c)]
  BY DEF Resync, Vector, Commit
<1>4. /\ \A d \in Client \ {c} : call'[d] = call[d]
      /\ call'[c].at # "write"
  <2>1. CASE Resync(c)
    BY <2>1 DEF Resync, TypeInv, TypeOK, Call
  <2>2. CASE Vector(c)
    BY <2>2 DEF Vector, Idle, TypeInv, TypeOK, Call
  <2>3. QED
    BY <2>1, <2>2
<1>5. QED
  BY <1>1, <1>2, <1>3, <1>4, NextSqnType

\* The queues after a copy: one more SQN, at the end of each.
LEMMA SendStep ==
  ASSUME TypeInv, NEW c \in Client, Send(c)
  PROVE  LET s == SiteOf[c] IN
         /\ \A r \in Site \ {s} : mail'[r] = mail[r]
         /\ mail'[s][s] = << >>
         /\ \A t \in Site \ {s} :
              /\ mail'[s][t] # << >>
              /\ mail'[s][t][Len(mail'[s][t])] = NewSqn(c)
<1> DEFINE s == SiteOf[c]
<1>1. s \in Site /\ NewSqn(c) \in Nat
  BY AucAssumption, NextSqnType
<1>2. ASSUME NEW t \in Site \ {s}
      PROVE  /\ mail'[s][t] # << >>
             /\ mail'[s][t][Len(mail'[s][t])] = NewSqn(c)
  <2>1. mail[s][t] \in Seq(Nat)
    BY <1>1 DEF TypeInv, TypeOK
  <2>2. mail'[s][t] = Append(mail[s][t], NewSqn(c))
    BY <1>1 DEF Send, TypeInv, TypeOK
  <2>3. QED
    BY <1>1, <2>1, <2>2
<1>3. /\ \A r \in Site \ {s} : mail'[r] = mail[r]
      /\ mail'[s][s] = << >>
  BY <1>1 DEF Send, TypeInv, TypeOK
<1>4. QED
  BY <1>2, <1>3

\* Deliver and Lose.
LEMMA PopStep ==
  ASSUME TypeInv, NEW s \in Site, NEW t \in Site, Deliver(s, t) \/ Lose(s, t)
  PROVE  /\ s # t
         /\ mail[s][t] # << >>
         /\ Pop(s, t) \/ UNCHANGED mail
         /\ \A r, q \in Site : r # s \/ q # t => mail'[r][q] = mail[r][q]
         /\ \A r \in Site \ {t} : row'[r] = row[r]
         /\ UNCHANGED <<call, stock, usim, synced, issued, twice>>
         /\ Deliver(s, t) => UNCHANGED cause /\ row'[t] = Head(mail[s][t])
         /\ Lose(s, t) => UNCHANGED row /\ cause' = cause \cup {"lost"}
<1>1. s # t
  BY DEF Deliver, Lose, TypeInv, HandlerInv
<1>2. Pop(s, t) \/ UNCHANGED mail
  BY DEF Deliver, Lose
<1>3. ASSUME NEW r \in Site, NEW q \in Site, r # s \/ q # t
      PROVE  mail'[r][q] = mail[r][q]
  <2>1. CASE Pop(s, t)
    <3>1. mail' = [mail EXCEPT ![s] = [mail[s] EXCEPT ![t] = Tail(@)]]
      BY <2>1 DEF Pop
    <3>2. mail[s] \in [Site -> Seq(Nat)] /\ mail \in [Site -> [Site -> Seq(Nat)]]
      BY DEF TypeInv, TypeOK
    <3>3. QED
      BY <1>3, <3>1, <3>2
  <2>2. QED
    BY <1>2, <2>1
<1>4. QED
  BY <1>1, <1>2, <1>3 DEF Deliver, Lose, Store, TypeInv, TypeOK

\* Read, Fail, Accept and Discard write neither the rows nor the queues.
LEMMA LocalStep ==
  ASSUME TypeInv, NEW c \in Client,
         Read(c) \/ Fail(c) \/ Accept(c) \/ Discard(c)
  PROVE  /\ UNCHANGED <<row, mail, issued, twice, cause>>
         /\ \A d \in Client \ {c} : call'[d] = call[d]
         /\ call'[c].at # "idle" => Open(c)
         /\ call'[c].at = "write" =>
              call'[c] = call[c] \/ call'[c].sqn = row[SiteOf[c]]
<1>1. CASE Read(c)
  BY <1>1 DEF Read, Open, TypeInv, TypeOK, Call
<1>2. CASE Fail(c)
  BY <1>2 DEF Fail, Idle, TypeInv, TypeOK
<1>3. CASE Accept(c) \/ Discard(c)
  BY <1>3 DEF Accept, Discard, Open
<1>4. QED
  BY <1>1, <1>2, <1>3

-----------------------------------------------------------------------------
LEMMA InitInv == Init => AloneInv /\ LeadInv /\ ResyncInv
<1> SUFFICES ASSUME Init PROVE AloneInv /\ LeadInv /\ ResyncInv
  OBVIOUS
<1>1. PICK s \in Site : TRUE
  BY AucAssumption
<1>2. \A c \in Client : call[c].at = "idle"
  BY DEF Init, Idle
<1>3. \A r, t \in Site : mail[r][t] = << >> /\ row[r] = 0
  BY DEF Init
<1>4. AloneInv
  BY <1>2 DEF AloneInv, Open
<1>5. Leads(s)
  <2>1. \A r \in Site \ {s} : ~Sending(r)
    BY <1>3 DEF Sending
  <2>2. \A t \in Site : Settled(s, t) = row[s]
    BY <1>3 DEF Settled
  <2>3. QED
    BY <1>2, <2>1, <2>2 DEF Leads, Open, Init
<1>6. ResyncInv
  BY DEF Init, ResyncInv
<1>7. QED
  BY <1>4, <1>5, <1>6 DEF LeadInv

LEMMA NextAlone == TypeInv /\ AloneInv /\ [Next]_vars => AloneInv'
<1> SUFFICES ASSUME TypeInv, AloneInv, [Next]_vars, "overlap" \notin cause'
             PROVE  /\ \A c, d \in Client : Open(c)' /\ Open(d)' => c = d
                    /\ \A c \in Client : \A s \in Site \ {SiteOf[c]} :
                         Open(c)' => ~Sending(s)'
                    /\ \A c \in Client :
                         call'[c].at = "write" /\ ~call'[c].resync
                           => call'[c].sqn = row'[SiteOf[c]]
  BY DEF AloneInv
<1> USE DEF Open
<1>1. ASSUME NEW c \in Client, Ask(c) \/ OutOfSync(c)
      PROVE  AloneInv'
  BY <1>1, BeginStep DEF AloneInv, Overlaps, Sending
<1>2. ASSUME NEW c \in Client,
             Read(c) \/ Fail(c) \/ Accept(c) \/ Discard(c)
      PROVE  AloneInv'
  BY <1>2, LocalStep DEF AloneInv, Sending
<1>3. ASSUME NEW c \in Client, Resync(c) \/ Vector(c)
      PROVE  AloneInv'
  <2>1. "overlap" \notin cause
    BY <1>3, CommitStep
  <2>2. Open(c)
    BY <1>3, CommitStep
  <2>3. \A d \in Client \ {c} : call'[d].at = "idle"
    BY <1>3, <2>1, <2>2, CommitStep DEF AloneInv
  <2>4. \A s \in Site \ {SiteOf[c]} : ~Sending(s)'
    BY <1>3, <2>1, <2>2, CommitStep, SendStep
    DEF AloneInv, Sending, SendFails
  <2>5. call'[c].at # "write"
    BY <1>3, CommitStep
  <2>6. QED
    BY <2>3, <2>4, <2>5 DEF AloneInv
<1>4. ASSUME NEW s \in Site, NEW t \in Site, Deliver(s, t) \/ Lose(s, t)
      PROVE  AloneInv'
  <2>1. "overlap" \notin cause
    BY <1>4, PopStep
  <2>2. Sending(s)
    BY <1>4, PopStep DEF Sending
  <2>3. \A r \in Site : Sending(r)' => Sending(r)
    BY <1>4, <2>2, PopStep DEF Sending
  <2>4. \A c \in Client : Open(c) => SiteOf[c] = s
    BY <2>1, <2>2 DEF AloneInv
  <2>5. \A c \in Client : Open(c) => row'[SiteOf[c]] = row[SiteOf[c]]
    BY <1>4, <2>4, PopStep
  <2>6. QED
    BY <1>4, <2>1, <2>3, <2>5, PopStep DEF AloneInv
<1>5. CASE UNCHANGED vars
  BY <1>5 DEF vars, AloneInv, Sending
<1>6. QED
  BY <1>1, <1>2, <1>3, <1>4, <1>5 DEF Next, AloneInv

LEMMA NextResync ==
  TypeInv /\ AloneInv /\ ResyncInv /\ [Next]_vars => ResyncInv'
<1> SUFFICES ASSUME TypeInv, AloneInv, ResyncInv, [Next]_vars,
                    "overlap" \notin cause'
             PROVE  ResyncInv'
  BY DEF ResyncInv
<1>. synced' \subseteq Client
  BY NextTypeInv DEF TypeInv, TypeOK
<1> SUFFICES ASSUME NEW d \in Client, d \in synced'
             PROVE  /\ \A i \in 1 .. Len(stock'[d]) : stock'[d][i] > usim'
                    /\ Open(d)' \/ stock'[d] # << >>
                    /\ Open(d)' /\ call'[d].resync => call'[d].auts = usim'
                    /\ Open(d)' /\ ~call'[d].resync => row'[SiteOf[d]] > usim'
  BY DEF ResyncInv
<1> DEFINE Goal ==
      /\ \A i \in 1 .. Len(stock'[d]) : stock'[d][i] > usim'
      /\ Open(d)' \/ stock'[d] # << >>
      /\ Open(d)' /\ call'[d].resync => call'[d].auts = usim'
      /\ Open(d)' /\ ~call'[d].resync => row'[SiteOf[d]] > usim'
<1> USE DEF Open
<1>0. /\ stock[d] \in Seq(Nat) /\ usim \in Nat
      /\ SiteOf[d] \in Site /\ row[SiteOf[d]] \in Nat
  BY AucAssumption DEF TypeInv, TypeOK
<1>1. ASSUME NEW c \in Client, Ask(c)
      PROVE  Goal
  <2>1. stock' = stock /\ synced' = synced /\ stock[c] = << >>
    BY <1>1 DEF Ask
  <2>2. c # d
    BY <1>1, <2>1, BeginStep DEF ResyncInv
  <2>3. QED
    BY <1>1, <2>1, <2>2, BeginStep DEF ResyncInv
<1>2. ASSUME NEW c \in Client, OutOfSync(c)
      PROVE  Goal
  <2>1. stock' = [stock EXCEPT ![c] = << >>] /\ synced' = synced \cup {c}
    BY <1>2 DEF OutOfSync
  <2>2. CASE c = d
    <3>1. stock'[d] = << >> /\ call'[d].resync /\ Open(d)'
      BY <1>2, <2>1, <2>2 DEF OutOfSync, Begin, TypeInv, TypeOK
    <3>2. call'[d].auts = usim'
      BY <1>2, <2>2, <3>1, BeginStep
    <3>3. QED
      BY <3>1, <3>2
  <2>3. CASE c # d
    BY <1>2, <2>1, <2>3, BeginStep DEF ResyncInv, TypeInv, TypeOK
  <2>4. QED
    BY <2>2, <2>3
<1>3. ASSUME NEW c \in Client, Read(c)
      PROVE  Goal
  <2>1. call'[d].resync = call[d].resync /\ call'[d].auts = call[d].auts
        /\ (Open(d)' <=> Open(d))
    BY <1>3 DEF Read, TypeInv, TypeOK, Call
  <2>2. QED
    BY <1>3, <2>1 DEF Read, ResyncInv
<1>4. ASSUME NEW c \in Client, Fail(c) \/ Discard(c)
      PROVE  Goal
  <2>1. c # d /\ d \in synced
    BY <1>4 DEF Fail, Discard
  <2>2. stock'[d] = stock[d] /\ call'[d] = call[d]
        /\ UNCHANGED <<usim, row, cause>>
    BY <1>4, <2>1 DEF Fail, Discard, TypeInv, TypeOK
  <2>3. QED
    BY <2>1, <2>2 DEF ResyncInv
<1>5. ASSUME NEW c \in Client, Accept(c)
      PROVE  Goal
  BY <1>5 DEF Accept
<1>6. ASSUME NEW c \in Client, Resync(c)
      PROVE  Goal
  <2>1. "overlap" \notin cause /\ d \in synced
        /\ UNCHANGED <<stock, usim>> /\ call[c].resync
    BY <1>6, CommitStep DEF Resync
  <2>2. CASE c = d
    <3>1. call[d].auts = usim
      BY <1>6, <2>1, <2>2, CommitStep DEF ResyncInv
    <3>2. row'[SiteOf[d]] > usim
      BY <1>0, <1>6, <2>1, <2>2, <3>1, CommitStep, AucAssumption
      DEF NewSqn, TypeInv, TypeOK
    <3>3. call'[d].at = "read" /\ ~call'[d].resync
      BY <1>6, <2>2 DEF Resync, TypeInv, TypeOK, Call
    <3>4. QED
      BY <2>1, <3>2, <3>3 DEF ResyncInv
  <2>3. CASE c # d
    <3>1. ~Open(d)
      BY <1>6, <2>1, <2>3, CommitStep DEF AloneInv
    <3>2. QED
      BY <1>6, <2>1, <2>3, <3>1, CommitStep DEF ResyncInv
  <2>4. QED
    BY <2>2, <2>3
<1>7. ASSUME NEW c \in Client, Vector(c)
      PROVE  Goal
  <2>1. "overlap" \notin cause /\ d \in synced
        /\ UNCHANGED usim /\ ~call[c].resync /\ call[c].at = "write"
    BY <1>7, CommitStep DEF Vector
  <2> DEFINE made == [i \in 1 .. call[c].copies |-> call[c].sqn]
  <2>2. stock' = [stock EXCEPT ![c] = stock[c] \o made]
    BY <1>7 DEF Vector
  <2>3. CASE c = d
    <3>1. call[c].sqn = row[SiteOf[c]] /\ row[SiteOf[c]] > usim
      BY <2>1, <2>3 DEF AloneInv, ResyncInv
    <3>2. call[c].copies \in Nat /\ call[c].copies >= 1 /\ call[c].sqn \in Nat
      BY <2>1 DEF TypeInv, TypeOK, HandlerInv, Call
    <3>3. made \in Seq(Nat) /\ Len(made) = call[c].copies
          /\ \A i \in 1 .. Len(made) : made[i] > usim
      BY <3>1, <3>2, CopiesType
    <3>4. \A i \in 1 .. Len(stock[d]) : stock[d][i] > usim
      BY <2>1 DEF ResyncInv
    <3>5. stock'[d] = stock[d] \o made
      BY <2>2, <2>3 DEF TypeInv, TypeOK
    <3> HIDE DEF made
    <3>6. ASSUME NEW i \in 1 .. Len(stock'[d])
          PROVE  stock'[d][i] > usim
      <4>1. Len(stock'[d]) = Len(stock[d]) + Len(made)
        BY <1>0, <3>3, <3>5, ConcatProperties
      <4>2. CASE i <= Len(stock[d])
        <5>1. stock'[d][i] = stock[d][i]
          BY <1>0, <3>3, <3>5, <4>1, <4>2, ConcatProperties
        <5>2. QED
          BY <1>0, <3>4, <4>2, <5>1
      <4>3. CASE i > Len(stock[d])
        <5>1. stock'[d][i] = made[i - Len(stock[d])]
          BY <1>0, <3>3, <3>5, <4>1, <4>3, ConcatProperties
        <5>2. i - Len(stock[d]) \in 1 .. Len(made)
          BY <1>0, <3>3, <4>1, <4>3
        <5>3. QED
          BY <3>3, <5>1, <5>2
      <4>4. QED
        BY <1>0, <4>2, <4>3
    <3>7. stock'[d] # << >>
      BY <1>0, <3>2, <3>3, <3>5, ConcatProperties
    <3>8. row'[SiteOf[d]] > usim
      BY <1>0, <1>7, <2>1, <2>3, <3>1, <3>2, CommitStep, AucAssumption
      DEF NewSqn, TypeInv, TypeOK
    <3>9. ~call'[d].resync
      BY <1>7, <2>1, <2>3 DEF Vector, Idle, TypeInv, TypeOK, Call
    <3>10. QED
      BY <2>1, <3>6, <3>7, <3>8, <3>9
  <2>4. CASE c # d
    <3>1. ~Open(d)
      BY <2>1, <2>4 DEF AloneInv
    <3>2. QED
      BY <1>7, <2>1, <2>2, <2>4, <3>1, CommitStep
      DEF ResyncInv, TypeInv, TypeOK
  <2>5. QED
    BY <2>3, <2>4
<1>8. ASSUME NEW s \in Site, NEW t \in Site, Deliver(s, t) \/ Lose(s, t)
      PROVE  Goal
  <2>1. "overlap" \notin cause /\ d \in synced
    BY <1>8, PopStep
  <2>2. Open(d) => row'[SiteOf[d]] = row[SiteOf[d]]
    <3>1. Sending(s)
      BY <1>8, PopStep DEF Sending
    <3>2. Open(d) => SiteOf[d] = s
      BY <2>1, <3>1 DEF AloneInv
    <3>3. QED
      BY <1>0, <1>8, <3>2, PopStep
  <2>3. QED
    BY <1>8, <2>1, <2>2, PopStep DEF ResyncInv
<1>9. CASE UNCHANGED vars
  BY <1>9 DEF vars, ResyncInv
<1>10. QED
  BY <1>1, <1>2, <1>3, <1>4, <1>5, <1>6, <1>7, <1>8, <1>9 DEF Next

LEMMA NextLead == TypeInv /\ AloneInv /\ LeadInv /\ [Next]_vars => LeadInv'
<1> SUFFICES ASSUME TypeInv, AloneInv, LeadInv, [Next]_vars,
                    cause' \cap {"overlap", "lost"} = {}
             PROVE  \E s \in Site : Leads(s)'
  BY DEF LeadInv
<1> USE DEF Open
<1>0. ASSUME cause \cap {"overlap", "lost"} = {}
      PROVE  \E s \in Site : Leads(s)
  BY <1>0 DEF LeadInv
<1>1. ASSUME NEW c \in Client, Ask(c) \/ OutOfSync(c)
      PROVE  \E s \in Site : Leads(s)'
  <2>1. /\ \A d \in Client \ {c} : ~Open(d)
        /\ \A r \in Site \ {SiteOf[c]} : ~Sending(r)
        /\ cause' = cause
    BY <1>1, BeginStep DEF Overlaps
  <2>2. PICK s \in Site : Leads(s)
    BY <1>0, <2>1
  <2> DEFINE h == SiteOf[c]
  <2>3. h \in Site
    BY AucAssumption
  <2>4. row[h] = row[s] /\ \A t \in Site : Settled(h, t) = row[h]
    <3>1. CASE s = h
      BY <2>2, <3>1 DEF Leads
    <3>2. CASE s # h
      <4>1. \A t \in Site : mail[s][t] = << >> /\ mail[h][t] = << >>
        BY <2>1, <2>2, <2>3, <3>2 DEF Leads, Sending
      <4>2. QED
        BY <2>2, <2>3, <4>1 DEF Leads, Settled
    <3>3. QED
      BY <3>1, <3>2
  <2>5. UNCHANGED <<row, mail, issued>>
    BY <1>1, BeginStep
  <2>6. \A d \in Client : Open(d)' => SiteOf[d] = h
    BY <1>1, <2>1, BeginStep
  <2>7. Leads(h)'
    BY <2>1, <2>2, <2>4, <2>5, <2>6 DEF Leads, Settled, Sending
  <2>8. QED
    BY <2>3, <2>7
<1>2. ASSUME NEW c \in Client,
             Read(c) \/ Fail(c) \/ Accept(c) \/ Discard(c)
      PROVE  \E s \in Site : Leads(s)'
  <2>1. /\ UNCHANGED <<row, mail, issued, cause>>
        /\ \A d \in Client : Open(d)' => Open(d)
    BY <1>2, LocalStep
  <2>2. PICK s \in Site : Leads(s)
    BY <1>0, <2>1
  <2>3. Leads(s)'
    BY <2>1, <2>2 DEF Leads, Settled, Sending
  <2>4. QED
    BY <2>3
<1>3. ASSUME NEW c \in Client, Resync(c) \/ Vector(c)
      PROVE  \E s \in Site : Leads(s)'
  <2>1. cause \cap {"overlap", "lost"} = {} /\ Open(c) /\ Send(c)
    BY <1>3, CommitStep
  <2> DEFINE h == SiteOf[c]
  <2>2. h \in Site /\ Leads(h)
    BY <1>0, <2>1 DEF Leads
  <2>3. \A d \in Client \ {c} : call'[d].at = "idle"
    BY <1>3, <2>1, CommitStep DEF AloneInv
  <2>4. row' = [row EXCEPT ![h] = NewSqn(c)] /\ row[h] \in Nat
        /\ row'[h] = NewSqn(c) /\ NewSqn(c) \in Nat
    BY <1>3, <2>2, CommitStep DEF TypeInv, TypeOK
  <2>5. \A r \in Site \ {h} : ~Sending(r)'
    BY <2>1, <2>2, SendStep DEF Leads, Sending
  <2>6. \A t \in Site : Settled(h, t)' = row'[h]
    BY <2>1, <2>2, <2>4, SendStep DEF Settled
  <2>7. ASSUME cause' = {}
        PROVE  \A i \in issued' : i < row'[h]
    <3>1. cause = {} /\ issued \subseteq Nat
      BY <1>3, <2>7, CommitStep DEF TypeInv, TypeOK
    <3>2. \A i \in issued : i < row[h]
      BY <2>2, <3>1 DEF Leads
    <3>3. CASE Resync(c)
      <4>1. ~(NewSqn(c) < row[h]) /\ issued' = issued
        BY <2>7, <3>3 DEF Resync, Sent
      <4>2. QED
        BY <2>4, <3>1, <3>2, <4>1
    <3>4. CASE Vector(c)
      <4>1. call[c].sqn = row[h] /\ NewSqn(c) = row[h] + Step
        BY <1>3, <2>1, <3>4, CommitStep DEF AloneInv, Vector, NewSqn
      <4>2. issued' = issued \cup {row[h]}
        BY <3>4, <4>1 DEF Vector
      <4>3. QED
        BY <2>4, <3>1, <3>2, <4>1, <4>2, AucAssumption
    <3>5. QED
      BY <1>3, <3>3, <3>4
  <2>8. \A d \in Client : Open(d)' => SiteOf[d] = h
    BY <2>3
  <2>9. QED
    BY <2>2, <2>5, <2>6, <2>7, <2>8 DEF Leads
<1>4. ASSUME NEW s \in Site, NEW t \in Site, Deliver(s, t) \/ Lose(s, t)
      PROVE  \E r \in Site : Leads(r)'
  <2>1. Deliver(s, t) /\ UNCHANGED <<cause, call, issued>>
    BY <1>4, PopStep
  <2>2. PICK h \in Site : Leads(h)
    BY <1>0, <2>1
  <2>3. s = h
    BY <2>1, <2>2, PopStep DEF Leads, Sending
  <2>4. s # t /\ row'[h] = row[h]
    BY <2>1, <2>3, PopStep
  <2>5. \A r \in Site \ {h} : ~Sending(r)'
    BY <2>1, <2>2, <2>3, PopStep DEF Leads, Sending
  <2>6. \A q \in Site \ {t} : Settled(h, q)' = row[h]
    BY <2>1, <2>2, <2>3, PopStep DEF Leads, Settled
  <2>7. Settled(h, t)' = row[h]
    <3>1. mail[h][t] \in Seq(Nat) /\ mail[h][t] # << >>
          /\ mail[h][t][Len(mail[h][t])] = row[h]
      BY <2>1, <2>2, <2>3, PopStep DEF Leads, Settled, TypeInv, TypeOK
    <3>2. CASE UNCHANGED mail
      BY <2>2, <3>1, <3>2 DEF Settled
    <3>3. CASE Pop(s, t)
      <4>1. mail'[h][t] = Tail(mail[h][t])
        BY <2>3, <3>3 DEF Pop, TypeInv, TypeOK
      <4>5. /\ mail'[h][t] \in Seq(Nat)
            /\ Len(mail'[h][t]) = Len(mail[h][t]) - 1
            /\ \A i \in 1 .. Len(mail'[h][t]) :
                 mail'[h][t][i] = mail[h][t][i + 1]
            /\ Len(mail[h][t]) \in Nat \ {0}
        BY <3>1, <4>1, HeadTailProperties, EmptySeq
      <4> DEFINE n == Len(mail[h][t])
                 q == mail'[h][t]
      <4>6. n \in Nat \ {0} /\ q \in Seq(Nat) /\ Len(q) = n - 1
            /\ row[h] = mail[h][t][n]
            /\ \A i \in 1 .. Len(q) : q[i] = mail[h][t][i + 1]
        BY <3>1, <4>5
      <4> HIDE DEF n, q
      <4>2. CASE n = 1
        <5>1. q = << >>
          BY <4>2, <4>6, EmptySeq
        <5>2. row'[t] = Head(mail[h][t])
          BY <2>1, <2>3, PopStep
        <5>3. row'[t] = row[h]
          BY <3>1, <4>2, <4>6, <5>2 DEF n
        <5>4. QED
          BY <5>1, <5>3 DEF Settled, q
      <4>3. CASE n # 1
        <5>1. n - 1 \in 1 .. Len(q) /\ (n - 1) + 1 = n
          BY <4>3, <4>6
        <5>2. q[Len(q)] = row[h]
          BY <4>6, <5>1
        <5>3. q # << >>
          BY <4>6, <5>1, EmptySeq
        <5>4. QED
          BY <5>2, <5>3 DEF Settled, q
      <4>4. QED
        BY <4>2, <4>3
    <3>4. QED
      BY <2>1, <3>2, <3>3, PopStep
  <2>8. Leads(h)'
    BY <2>1, <2>2, <2>4, <2>5, <2>6, <2>7 DEF Leads
  <2>9. QED
    BY <2>8
<1>5. CASE UNCHANGED vars
  <2>1. PICK s \in Site : Leads(s)
    BY <1>0, <1>5 DEF vars
  <2>2. Leads(s)'
    BY <1>5, <2>1 DEF vars, Leads, Settled, Sending
  <2>3. QED
    BY <2>2
<1>6. QED
  BY <1>1, <1>2, <1>3, <1>4, <1>5 DEF Next

\* While nothing has set the rows apart every vector made is a new one: its
\* SQN is that of the leading row, beyond all that was issued.
LEMMA NextDistinct ==
  TypeInv /\ AloneInv /\ LeadInv /\ VectorsDistinct /\ [Next]_vars
    => VectorsDistinct'
<1> SUFFICES ASSUME TypeInv, AloneInv, LeadInv, VectorsDistinct, [Next]_vars,
                    cause' = {}
             PROVE  twice' = {}
  BY DEF VectorsDistinct
<1>1. ASSUME NEW c \in Client, Vector(c)
      PROVE  twice' = {}
  <2>1. cause = {} /\ call[c].at = "write" /\ ~call[c].resync
    BY <1>1, CommitStep DEF Vector
  <2>2. PICK s \in Site : Leads(s)
    BY <2>1 DEF LeadInv
  <2>3. SiteOf[c] = s /\ call[c].sqn = row[s]
    BY <2>1, <2>2 DEF Leads, AloneInv, Open
  <2>4. row[s] \in Nat /\ \A i \in issued : i \in Nat /\ i < row[s]
    BY <2>1, <2>2 DEF Leads, TypeInv, TypeOK
  <2>5. call[c].sqn \notin issued
    BY <2>3, <2>4
  <2>6. ~(call[c].copies > 1)
    BY <1>1 DEF Vector, Sent
  <2>7. QED
    BY <1>1, <2>1, <2>5, <2>6 DEF Vector, VectorsDistinct
<1>2. ASSUME ~\E c \in Client : Vector(c)
      PROVE  UNCHANGED twice /\ cause = {}
  <2>1. ASSUME NEW c \in Client, Ask(c) \/ OutOfSync(c)
        PROVE  UNCHANGED twice /\ cause = {}
    BY <2>1, BeginStep
  <2>2. ASSUME NEW c \in Client, Resync(c)
        PROVE  UNCHANGED twice /\ cause = {}
    BY <2>2, CommitStep DEF Resync
  <2>3. ASSUME NEW c \in Client,
               Read(c) \/ Fail(c) \/ Accept(c) \/ Discard(c)
        PROVE  UNCHANGED twice /\ cause = {}
    BY <2>3, LocalStep
  <2>4. ASSUME NEW s \in Site, NEW t \in Site, Deliver(s, t) \/ Lose(s, t)
        PROVE  UNCHANGED twice /\ cause = {}
    BY <2>4, PopStep
  <2>5. QED
    BY <1>2, <2>1, <2>2, <2>3, <2>4 DEF Next, vars
<1>3. QED
  BY <1>1, <1>2 DEF VectorsDistinct

-----------------------------------------------------------------------------
Inv == TypeInv /\ AloneInv /\ LeadInv /\ ResyncInv /\ VectorsDistinct

LEMMA InvHolds == Spec => []Inv
<1>1. Init => Inv
  BY InitTypeInv, InitInv DEF Inv, VectorsDistinct, Init
<1>2. Inv /\ [Next]_vars => Inv'
  BY NextTypeInv, NextAlone, NextLead, NextResync, NextDistinct DEF Inv
<1>3. QED
  BY <1>1, <1>2, PTL DEF Spec

\* The types of the rows, requests, queues and vectors, for any sites,
\* clients, step and number of requests.
THEOREM AucTypes == Spec => []TypeOK
<1>1. Inv => TypeOK
  BY DEF Inv, TypeInv
<1>2. QED
  BY <1>1, InvHolds, PTL

\* Get_Vectors_AuC: no SQN is issued twice, whatever the number of sites and
\* clients, unless requests overlap, a copy is lost, the SQN is moved back or
\* a batch is asked for.
THEOREM NoSqnTwice == Spec => []VectorsDistinct
<1>1. Inv => VectorsDistinct
  BY DEF Inv
<1>2. QED
  BY <1>1, InvHolds, PTL

\* Update_AuC and handleGeored: any number of sites hold one SQN when nothing
\* is on its way, unless requests overlapped or a copy was lost.
THEOREM RowsAgree == Spec => []SitesAgree
<1>1. Inv => SitesAgree
  <2> SUFFICES ASSUME Inv, \A s \in Site : ~Sending(s),
                      cause \cap {"overlap", "lost"} = {},
                      NEW s \in Site, NEW t \in Site
               PROVE  row[s] = row[t]
    BY DEF SitesAgree
  <2>1. PICK h \in Site : Leads(h)
    BY DEF Inv, LeadInv
  <2>2. QED
    BY <2>1 DEF Leads, Settled, Sending
<1>2. QED
  BY <1>1, InvHolds, PTL

\* sqn_resync: the first vector after a resynchronisation is one the USIM
\* accepts, for any step, unless requests overlapped.
THEOREM ResyncAccepted == Spec => []ResyncWorks
<1>1. Inv => ResyncWorks
  <2> SUFFICES ASSUME Inv, NEW c \in synced, stock[c] # << >>,
                      "overlap" \notin cause
               PROVE  Head(stock[c]) > usim
    BY DEF ResyncWorks
  <2>1. stock[c] \in Seq(Nat)
    BY DEF Inv, TypeInv, TypeOK
  <2>2. QED
    BY <2>1 DEF Inv, ResyncInv
<1>2. QED
  BY <1>1, InvHolds, PTL

=============================================================================
