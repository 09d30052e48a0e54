---------------------------- MODULE RadiusBridge ----------------------------
(***************************************************************************)
(* EAP-AKA over RADIUS (radiusBridgeService.py): the ePDG's charon relays  *)
(* the EAP messages of a UE as Access-Requests; the bridge fetches vectors *)
(* from the API, challenges, and checks the answer against the session it  *)
(* keeps per State attribute.                                              *)
(*                                                                         *)
(* The bridge handles one packet at a time, its calls to the API included, *)
(* and the same packet again as if it were new.  charon, the UEs, UDP and  *)
(* the AUC row are external; a packet that charon would never send (no     *)
(* Message-Authenticator, no EAP, a wrong length) is rejected at once and  *)
(* left out, and so are the settings that switch checks off.               *)
(***************************************************************************)
EXTENDS Naturals, Sequences

CONSTANTS
  Conv,      \* authentications charon carries out
  User,      \* user names
  UsimSqn,   \* SQNs a USIM may hold at the start
  Styles,    \* how a UE out of step may say so: see Kind
  ApiFails,  \* may a call to the API fail?
  MaxSends   \* bound: how often charon sends one request

\* What a request carries: the identity, or the UE's answer to a challenge.
Kind == {"identity",
         "res",     \* AT_RES and AT_MAC
         "auts",    \* AT_AUTS under the subtype AKA-Challenge
         "sync",    \* AT_AUTS under AKA-Synchronization-Failure (RFC 4187)
         "legacy",  \* AUTS in place of RES, with an AT_MAC that is wrong
         "error"}   \* client error, notification

ASSUME BridgeAssumption ==
  /\ UsimSqn \subseteq Nat
  /\ Styles \subseteq {"auts", "sync", "legacy"}
  /\ ApiFails \in BOOLEAN
  /\ MaxSends \in Nat

\* "value" is the vector a RES was computed from, or the SQN in an AUTS.
AccessRequest == [conv : Conv, no : Nat, kind : Kind, state : Nat, value : Nat]

\* "vector" is what the challenge, or the MSK of an Accept, was made from.
AccessReply == [conv : Conv, no : Nat,
                result : {"challenge", "accept", "reject"},
                state : Nat, vector : Nat]

VARIABLES
  akaSessions,  \* [State -> vector, or 0 once it is popped]
  vectors,   \* sequence of [conv, sqn]: the vectors fetched, each with a new
             \* RAND; xres, k_aut and msk go by the number of the vector
  row,       \* external, [User -> Nat]: AUC.sqn, in steps of one
  usim,      \* external, [User -> Nat]: the highest SQN the USIM has accepted
  nas,       \* external, [Conv -> where charon is in the authentication]
  key,       \* external, [Conv -> the vector of the UE's keys, 0 before]
  requests,  \* Access-Requests on their way
  replies,   \* answers on their way
  again      \* history: <<conversation, number>> of requests sent again

bridgeVars ==
  <<akaSessions, vectors, row, usim, nas, key, requests, replies, again>>

bridge == <<akaSessions, vectors, row>>
users == <<usim, key>>

\* The request charon waits for an answer to; "keys" of the one that came.
Nas == [at : {"idle", "wait", "up", "failed", "timeout"}, ue : User,
        request : AccessRequest, sends : Nat, keys : Nat]

Identity(c) ==
  [conv |-> c, no |-> 1, kind |-> "identity", state |-> 0, value |-> 0]

BridgeInit ==
  /\ akaSessions = << >>
  /\ vectors = << >>
  /\ row = [u \in User |-> 1]
  /\ usim \in [User -> UsimSqn]
  /\ \E who \in [Conv -> User] :
       nas = [c \in Conv |-> [at |-> "idle", ue |-> who[c], sends |-> 0,
                              request |-> Identity(c), keys |-> 0]]
  /\ key = [c \in Conv |-> 0]
  /\ requests = {}
  /\ replies = {}
  /\ again = {}

-----------------------------------------------------------------------------
(***************************************************************************)
(* HandleAuthPacket                                                        *)
(***************************************************************************)

\* SendReplyPacket: the answer to a request, which is off the wire.
Answer(r, result, state, vector) ==
  /\ requests' = requests \ {r}
  /\ replies' = replies \cup
       {[conv |-> r.conv, no |-> r.no, result |-> result,
         state |-> state, vector |-> vector]}

Reject(r) == Answer(r, "reject", 0, 0)

UeOf(r) == nas[r.conv].ue

\* secrets.token_bytes: a State never used before.
NewStateOfUe(r) ==                      \* Mutant: one State for a user name
  LET same == {n \in DOMAIN vectors : nas[vectors[n].conv].ue = UeOf(r)}
  IN  IF same = {} THEN Len(vectors) + 1
      ELSE CHOOSE n \in same : \A m \in same : n <= m
NewState(r) == Len(vectors) + 1

Opened(r) ==
  LET n == Len(vectors) + 1
  IN  [s \in 1 .. n |-> IF s = NewState(r) THEN n
                        ELSE IF s = n THEN 0 ELSE akaSessions[s]]

\* Phase 1: fetch a vector (which moves the SQN on) and challenge the UE.
Challenge(r) ==
  /\ r.kind = "identity"
  /\ vectors' = Append(vectors, [conv |-> r.conv, sqn |-> row[UeOf(r)]])
  /\ row' = [row EXCEPT ![UeOf(r)] = @ + 1]
  /\ akaSessions' = Opened(r)
  /\ Answer(r, "challenge", NewState(r), Len(vectors) + 1)

\* The API fails, or answers later than two seconds with the SQN moved on.
FetchFail(r) ==
  /\ ApiFails
  /\ r.kind = "identity"
  /\ row' \in {row, [row EXCEPT ![UeOf(r)] = @ + 1]}
  /\ Reject(r)
  /\ UNCHANGED <<akaSessions, vectors>>

\* Phase 2: the answer of the UE, with the State of its challenge.
Known(r) == r.kind # "identity" /\ akaSessions[r.state] # 0
PopNone(r) == UNCHANGED akaSessions     \* Mutant: the session stays
Pop(r) == akaSessions' = [akaSessions EXCEPT ![r.state] = 0]

StateNotFound(r) ==
  /\ r.kind # "identity"
  /\ akaSessions[r.state] = 0
  /\ Reject(r)
  /\ UNCHANGED <<akaSessions, vectors, row>>

\* RES and MAC are those of the session's vector.
Verified(r) == r.kind = "res" /\ r.value = akaSessions[r.state]

\* Client error, notification, any subtype other than AKA-Challenge (such as
\* the synchronisation failure of RFC 4187), and a RES or MAC that is wrong.
Refuse(r) ==
  /\ Known(r)
  /\ r.kind \notin {"auts", "legacy"}
  /\ ~Verified(r)
  /\ Pop(r)
  /\ Reject(r)
  /\ UNCHANGED <<vectors, row>>

\* _fetch_aka_vector_resync: the API resynchronises the row if the call
\* succeeds, and may have when it fails.  Its answer is null in any case
\* (Get_Vectors_AuC returns nothing for sqn_resync), and the bridge takes that
\* for a failure too.
Resync(r) ==
  /\ Known(r)
  /\ r.kind \in {"auts", "legacy"}
  /\ \/ row' = [row EXCEPT ![UeOf(r)] = r.value + 1]
     \/ ApiFails /\ UNCHANGED row
  /\ Pop(r)
  /\ Reject(r)
  /\ UNCHANGED vectors

KeysLast(r) == Len(vectors)             \* Mutant: those of the last vector
Keys(r) == akaSessions[r.state]

Accept(r) ==
  /\ Known(r)
  /\ Verified(r)
  /\ Pop(r)
  /\ Answer(r, "accept", 0, Keys(r))
  /\ UNCHANGED <<vectors, row>>

HandleAuthPacket(r) ==
  /\ \/ Challenge(r) \/ FetchFail(r) \/ StateNotFound(r)
     \/ Refuse(r) \/ Resync(r) \/ Accept(r)
  /\ UNCHANGED <<usim, nas, key, again>>

-----------------------------------------------------------------------------
(***************************************************************************)
(* charon (eap-radius) and the UE, external.  UDP loses a message by       *)
(* leaving it in "requests" or "replies" for ever.                         *)
(***************************************************************************)
Begin(c) ==
  /\ nas[c].at = "idle"
  /\ nas' = [nas EXCEPT ![c].at = "wait", ![c].sends = 1]
  /\ requests' = requests \cup {nas[c].request}
  /\ UNCHANGED <<bridge, users, replies, again>>

Resend(c) ==
  /\ nas[c].at = "wait"
  /\ nas[c].sends < MaxSends
  /\ nas' = [nas EXCEPT ![c].sends = @ + 1]
  /\ requests' = requests \cup {nas[c].request}
  /\ again' = again \cup {<<c, nas[c].request.no>>}
  /\ UNCHANGED <<bridge, users, replies>>

GiveUp(c) ==
  /\ nas[c].at = "wait"
  /\ nas[c].sends = MaxSends
  /\ nas' = [nas EXCEPT ![c].at = "timeout"]
  /\ UNCHANGED <<bridge, users, requests, replies, again>>

\* A reply to the request that charon waits for; others are ignored, and
\* those already there are taken off with it.
Comes(c, p) ==
  /\ p.conv = c
  /\ nas[c].at = "wait"
  /\ p.no = nas[c].request.no
  /\ replies' = {q \in replies : q.conv # c}

\* The UE's answer, and what it leaves in the USIM and the UE.
UeAnswers(c, p, kind, value) ==
  LET r == [conv |-> c, no |-> p.no + 1, kind |-> kind, state |-> p.state,
            value |-> value]
  IN  /\ nas' = [nas EXCEPT ![c].request = r, ![c].sends = 1]
      /\ requests' = requests \cup {r}

RunAka(c, p) ==
  LET u == nas[c].ue
      sqn == vectors[p.vector].sqn
  IN  \/ /\ sqn > usim[u]
         /\ UeAnswers(c, p, "res", p.vector)
         /\ usim' = [usim EXCEPT ![u] = sqn]
         /\ key' = [key EXCEPT ![c] = p.vector]
      \/ /\ sqn <= usim[u]
         /\ \E style \in Styles : UeAnswers(c, p, style, usim[u])
         /\ UNCHANGED users
      \/ UeAnswers(c, p, "error", 0) /\ UNCHANGED users

TakeChallenge(c) ==
  /\ \E p \in replies : /\ Comes(c, p)
                        /\ p.result = "challenge"
                        /\ RunAka(c, p)
  /\ UNCHANGED <<bridge, again>>

TakeAccept(c) ==
  /\ \E p \in replies :
       /\ Comes(c, p)
       /\ p.result = "accept"
       /\ nas' = [nas EXCEPT ![c].at = "up", ![c].keys = p.vector]
  /\ UNCHANGED <<bridge, users, requests, again>>

TakeReject(c) ==
  /\ \E p \in replies :
       /\ Comes(c, p)
       /\ p.result = "reject"
       /\ nas' = [nas EXCEPT ![c].at = "failed"]
  /\ UNCHANGED <<bridge, users, requests, again>>

BridgeNext ==
  \/ \E r \in requests : HandleAuthPacket(r)
  \/ \E c \in Conv : \/ Begin(c) \/ Resend(c) \/ GiveUp(c)
                     \/ TakeChallenge(c) \/ TakeAccept(c) \/ TakeReject(c)

BridgeSpec == BridgeInit /\ [][BridgeNext]_bridgeVars

-----------------------------------------------------------------------------
(***************************************************************************)
(* Properties                                                              *)
(***************************************************************************)

\* Type invariant.
BridgeTypeOK ==
  /\ akaSessions \in Seq(Nat)
  /\ vectors \in Seq([conv : Conv, sqn : Nat])
  /\ Len(akaSessions) = Len(vectors)
  /\ row \in [User -> Nat]
  /\ usim \in [User -> Nat]
  /\ nas \in [Conv -> Nas]
  /\ key \in [Conv -> Nat]
  /\ requests \subseteq AccessRequest
  /\ replies \subseteq AccessReply
  /\ again \subseteq Conv \X Nat

\* Phase 2: when charon lets a UE in, the keys the bridge gave it are those
\* the UE has, from a vector fetched in this very authentication, whatever
\* was lost or repeated on the way.
KeysAgree ==
  \A c \in Conv :
    nas[c].at = "up" => /\ nas[c].keys = key[c]
                        /\ key[c] # 0
                        /\ vectors[key[c]].conv = c

\* Phase 2: a UE that has answered its challenge with RES is refused only when
\* charon sent that answer more than once (the session went with the first).
SoundAdmitted ==
  \A c \in Conv :
    nas[c].at = "failed" /\ key[c] # 0
      => <<c, nas[c].request.no>> \in again

\* Sessions have no lifetime: one is left behind only by an authentication
\* that charon gave up, or whose identity it sent more than once.
SessionsSpent ==
  \A s \in DOMAIN akaSessions :
    LET c == vectors[s].conv
    IN  akaSessions[s] # 0 => \/ nas[c].at \in {"wait", "timeout"}
                           \/ <<c, 1>> \in again

\* "AUTS branch: trigger SQN resync and return a new challenge": an AUTS that
\* has moved the subscriber's SQN is answered with a challenge.
ResyncChallenged ==
  [][\A r \in requests \ requests' :
       r.kind = "auts" /\ row' # row
         => \E p \in replies' : /\ p.conv = r.conv /\ p.no = r.no
                                /\ p.result = "challenge"]_bridgeVars

=============================================================================
