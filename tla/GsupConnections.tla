-------------------------- MODULE GsupConnections --------------------------
(***************************************************************************)
(* The IPA connection layer of the GSUP server (pyhss/lib/gsup/server.py): *)
(* one asyncio task per TCP connection asks the peer for its identity,     *)
(* holds back the answers to its PINGs until the identity is acknowledged, *)
(* and on any error or end takes the peer out of the three tables that the *)
(* tasks share.                                                            *)
(*                                                                         *)
(* What a connection does once it is up is module GsupLocation; here a     *)
(* GSUP message is handled in one step.  The names of this module are not  *)
(* GsupLocation's, so that GsupProofs can extend both.                     *)
(***************************************************************************)
EXTENDS Integers

CONSTANTS
  Peer,       \* peer names ("ip:port"), each used by one connection
  MaxPings    \* bound: PINGs a client sends on a connection

ASSUME MaxPingsAssumption == MaxPings \in Nat

VARIABLES
  place,      \* [Peer -> where the connection's task is]
  active,     \* the keys of active_connections
  pendingActivation,  \* connections_pending_activation
  pendingPings,       \* connections_pending_pings, 0 for a missing key
  written,    \* [Peer -> how many ID_ACKs and PONGs were written]
  pings,      \* [Peer -> how many PINGs the task has read]
  silent      \* external: the clients that will send nothing more

connVars == <<place, active, pendingActivation, pendingPings, written, pings,
              silent>>

Task == {"off",        \* no connection yet
         "read",       \* at the read of the loop
         "identify",   \* awaits the log of a new peer: active, not yet acked
         "stuck",      \* in the loop over a malformed ID_RESP
         "closed"}

ConnInit ==
  /\ place = [p \in Peer |-> "off"]
  /\ active = {}
  /\ pendingActivation = {}
  /\ pendingPings = [p \in Peer |-> 0]
  /\ written = [p \in Peer |-> [idAck |-> 0, pong |-> 0]]
  /\ pings = [p \in Peer |-> 0]
  /\ silent = {}

-----------------------------------------------------------------------------
\* __handle_connection: the first turn of the loop writes the ID_GET.
Accept(p) ==
  /\ place[p] = "off"
  /\ place' = [place EXCEPT ![p] = "read"]
  /\ pendingActivation' = pendingActivation \cup {p}
  /\ UNCHANGED <<active, pendingPings, written, pings, silent>>

\* A client whose bytes have all been read sends nothing more, not even the
\* end of its connection.
FallSilent(p) ==
  /\ place[p] \in {"read", "identify"}
  /\ silent' = silent \cup {p}
  /\ UNCHANGED <<place, active, pendingActivation, pendingPings, written,
                 pings>>

\* The read of a connection gets a whole message.
Reads(p) == place[p] = "read" /\ p \notin silent

\* __handle_ccm: a PING is counted before activation and answered after it.
AnswerPing(p) ==
  IF p \in pendingActivation
  THEN /\ pendingPings' = [pendingPings EXCEPT ![p] = @ + 1]
       /\ UNCHANGED written
  ELSE /\ written' = [written EXCEPT ![p].pong = @ + 1]
       /\ UNCHANGED pendingPings

Ping(p) ==
  /\ Reads(p)
  /\ pings[p] < MaxPings
  /\ pings' = [pings EXCEPT ![p] = @ + 1]
  /\ AnswerPing(p)
  /\ UNCHANGED <<place, active, pendingActivation, silent>>

\* __handle_ccm_identity_response with usable tags, up to the await ...
Identify(p) ==
  /\ Reads(p)
  /\ p \in pendingActivation
  /\ active' = active \cup {p}
  /\ place' = [place EXCEPT ![p] = "identify"]
  /\ UNCHANGED <<pendingActivation, pendingPings, written, pings, silent>>

\* ... and after it: the ID_ACK, then a PONG for every PING held back.
AcknowledgeOnly(p) ==                   \* Mutant: the held PINGs are forgotten
  /\ place[p] = "identify"
  /\ place' = [place EXCEPT ![p] = "read"]
  /\ pendingActivation' = pendingActivation \ {p}
  /\ written' = [written EXCEPT ![p].idAck = @ + 1]
  /\ pendingPings' = [pendingPings EXCEPT ![p] = 0]
  /\ UNCHANGED <<active, pings, silent>>

Acknowledge(p) ==
  /\ place[p] = "identify"
  /\ place' = [place EXCEPT ![p] = "read"]
  /\ pendingActivation' = pendingActivation \ {p}
  /\ written' = [written EXCEPT ![p] = [idAck |-> @.idAck + 1,
                                        pong |-> @.pong + pendingPings[p]]]
  /\ pendingPings' = [pendingPings EXCEPT ![p] = 0]
  /\ UNCHANGED <<active, pings, silent>>

\* A malformed ID_RESP closes the writer, but the loop over its tags does not
\* end: its index never advances again.
Garble(p) ==
  /\ Reads(p)
  /\ p \in pendingActivation
  /\ place' = [place EXCEPT ![p] = "stuck"]
  /\ UNCHANGED <<active, pendingActivation, pendingPings, written, pings,
                 silent>>

ClosePeerOnly(p) ==                     \* Mutant: one table is not cleared
  /\ place' = [place EXCEPT ![p] = "closed"]
  /\ active' = active \ {p}
  /\ pendingPings' = [pendingPings EXCEPT ![p] = 0]
  /\ UNCHANGED pendingActivation

\* The finally clause with clear_connections set.
Close(p) ==
  /\ place' = [place EXCEPT ![p] = "closed"]
  /\ active' = active \ {p}
  /\ pendingActivation' = pendingActivation \ {p}
  /\ pendingPings' = [pendingPings EXCEPT ![p] = 0]

\* End of file, reset, an unsupported protocol or message, an ID_RESP without
\* usable tags or a second one, or an exception of a GSUP handler.
End(p) ==
  /\ Reads(p)
  /\ Close(p)
  /\ UNCHANGED <<written, pings, silent>>

TimeOutOnly(p) ==                       \* Mutant: clear_connections is not set
  /\ place[p] = "read"
  /\ p \in silent
  /\ place' = [place EXCEPT ![p] = "closed"]
  /\ UNCHANGED <<active, pendingActivation, pendingPings, written, pings,
                 silent>>

\* asyncio.TimeoutError: one read has lasted socket_timeout.  The timeout is
\* of each read, so it comes for a silent client only: one that goes on
\* sending PINGs without an ID_RESP keeps its connection.
TimeOut(p) ==
  /\ place[p] = "read"
  /\ p \in silent
  /\ Close(p)
  /\ UNCHANGED <<written, pings, silent>>

\* The same while it awaits in the identity handler: the drain or the log.
EndIdentify(p) ==
  /\ place[p] = "identify"
  /\ Close(p)
  /\ UNCHANGED <<written, pings, silent>>

ConnNext ==
  \E p \in Peer :
    \/ Accept(p) \/ Ping(p) \/ Identify(p) \/ Acknowledge(p) \/ Garble(p)
    \/ End(p) \/ EndIdentify(p) \/ FallSilent(p) \/ TimeOut(p)

ConnSpec == ConnInit /\ [][ConnNext]_connVars

\* The event loop resumes the identity handler (what it writes fits the
\* stream's buffer, so that its drain does not wait for the client), and ends
\* the read of a silent client by its timeout.  Nothing is assumed of what a
\* client sends.
ConnFairSpec ==
  /\ ConnSpec
  /\ \A p \in Peer : WF_connVars(Acknowledge(p)) /\ WF_connVars(TimeOut(p))

-----------------------------------------------------------------------------
(***************************************************************************)
(* Properties                                                              *)
(***************************************************************************)

\* Type invariant.
ConnTypeOK ==
  /\ place \in [Peer -> Task]
  /\ active \subseteq Peer
  /\ pendingActivation \subseteq Peer
  /\ pendingPings \in [Peer -> Nat]
  /\ written \in [Peer -> [idAck : Nat, pong : Nat]]
  /\ pings \in [Peer -> Nat]
  /\ silent \subseteq Peer

\* connections_pending_pings: on a connection that is up every PING read has
\* had its PONG, and until then every one of them is remembered.
PingsAnswered ==
  \A p \in Peer :
    place[p] \in {"read", "identify", "stuck"}
      => written[p].pong + pendingPings[p] = pings[p]

\* No PONG is written before the ID_ACK, and the ID_ACK once.
AckFirst ==
  \A p \in Peer :
    /\ written[p].idAck <= 1
    /\ written[p].pong > 0 => written[p].idAck = 1

\* The finally clause: a connection that has ended is in none of the tables;
\* an open one is in active_connections or pending activation.
TablesClean ==
  \A p \in Peer :
    /\ place[p] = "closed" => /\ p \notin active \cup pendingActivation
                             /\ pendingPings[p] = 0
    /\ place[p] \in {"read", "identify"} => p \in active \cup pendingActivation

\* asyncio.TimeoutError in __handle_connection: a client that falls silent,
\* before its identity, during its acknowledgement or afterwards, does not
\* stay in the tables for ever (unless its task is stuck on a malformed
\* ID_RESP): a GSUP update does not go on choosing it as the peer of its id.
SilentReleased ==
  \A p \in Peer :
    p \in silent ~> \/ p \notin active \cup pendingActivation
                     \/ place[p] = "stuck"

=============================================================================
