-------------------------- MODULE DiameterService --------------------------
(***************************************************************************)
(* The Diameter front of the HSS: diameterService.py accepts the peers'    *)
(* connections, keeps the table of peers and its copy in Redis, and hands  *)
(* the messages it reads to the HSS worker (hssService.py) over a Redis    *)
(* list; the worker's answers come back over one list per address.         *)
(*                                                                         *)
(* The tasks of diameterService.py interleave at every await.  The peers   *)
(* and their network are external.  The requests the HSS sends itself go   *)
(* over the same lists and are left out; so are the service's watchdog     *)
(* requests and its external socket service, off by default.               *)
(***************************************************************************)
EXTENDS Naturals, Sequences, FiniteSets, SequencesExt

CONSTANTS
  MaxConns,   \* bound: connections
  Addr,       \* the peers' addresses: IP and port
  Host,       \* the peers' Origin-Hosts
  Caller,     \* [Conn -> SUBSET (Addr \X Host)]: who may open a connection
  MaxRequests, \* bound: requests of the peers
  Worker,     \* the inboundDataWorkers
  None,
  QueueSize,  \* of sharedQueue: 1024 in the code
  MaxFaults   \* bound: odd messages, restarts, batches lost

\* Connections and requests are numbered in the order they are made.
Conn == 1 .. MaxConns
Request == 1 .. MaxRequests

ASSUME DiameterAssumption ==
  /\ None \notin Addr \cup Host \cup Nat
  /\ {MaxConns, MaxRequests} \subseteq Nat
  /\ Caller \in [Conn -> SUBSET (Addr \X Host)]
  /\ QueueSize \in Nat \ {0}
  /\ MaxFaults \in Nat

\* A row of activePeers: the Origin-Host (None until the first message is
\* validated, with Metadata), Connected, and the connection of its
\* LastConnectTimestamp.
Entry == [host : Host \cup {None}, up : BOOLEAN, since : Conn]

ASSUME RowAssumption == None \notin Entry

\* A connection and its handler: "ending" when its tasks have ended and the
\* writer is to be closed, "closed" when it is, "lost" after a reset.
Connection ==
  [at : {"new", "open", "ending", "closed", "lost"},
   addr : Addr \cup {None}, host : Host \cup {None},
   out : Request \cup {None}]  \* whose answer its writer has popped

VARIABLES
  conn,      \* [Conn -> Connection]
  peers,     \* activePeers: [Addr -> Entry \cup {None}]
  hash,      \* its copy in Redis
  keeper,    \* handleActiveDiameterPeers: what it does, and the addresses left
  shared,    \* sharedQueue: requests
  worker,    \* [Worker -> [batch, msg]]: what it has collected, and what it
             \* is validating
  inbound,   \* the Redis list diameter-inbound, and the batch of it that the
             \* HSS worker has in hand: requests
  outbound,  \* the Redis lists diameter-outbound-<address>
  asked,     \* [Request -> Conn \cup {None}]: where it was read
  answered,  \* [Request -> Seq(Conn)]: where its answers were written
  odd,       \* requests that are cut short, or that no handler answers
  pruned,    \* history: addresses that were pruned
  racy,      \* history: those that had reconnected since it was decided
  faults

network == <<asked, answered, odd>>
pipeline == <<shared, worker, inbound>>
table == <<peers, hash, keeper, pruned, racy>>
vars == <<conn, table, pipeline, outbound, network, faults>>

NoPeers == [a \in Addr |-> None]
NoWork == [batch |-> << >>, msg |-> None]
AtRest == [at |-> "idle", todo |-> << >>]

Init ==
  /\ conn = [c \in Conn |->
               [at |-> "new", addr |-> None, host |-> None, out |-> None]]
  /\ peers = NoPeers /\ hash = NoPeers /\ keeper = AtRest
  /\ shared = << >>
  /\ worker = [w \in Worker |-> NoWork]
  /\ inbound = << >>
  /\ outbound = [a \in Addr |-> << >>]
  /\ asked = [r \in Request |-> None]
  /\ answered = [r \in Request |-> << >>]
  /\ odd = {} /\ pruned = {} /\ racy = {}
  /\ faults = 0

-----------------------------------------------------------------------------
Fault == faults < MaxFaults /\ faults' = faults + 1

From(r) == conn[asked[r]].addr
Gone(c) == conn[c].at \in {"new", "closed", "lost"}

\* Mutant: a peer that reconnects keeps its old row.
Reconnected(entry, now) == IF entry = None
                           THEN [host |-> None, up |-> TRUE, since |-> now]
                           ELSE entry

\* A new row, or the old one with its host.
Connected(entry, now) ==
  [host |-> IF entry = None THEN None ELSE entry.host,
   up |-> TRUE, since |-> now]

\* handleConnection: a peer connects, from an address without a connection.
\* A new row makes the housekeeping's loop over the table fail.
Connect(c) ==
  /\ conn[c].at = "new" /\ \A d \in 1 .. c - 1 : conn[d].at # "new"
  /\ \E a \in Addr, h \in Host :
       /\ <<a, h>> \in Caller[c]
       /\ \A d \in Conn : conn[d].addr = a => Gone(d)
       /\ conn' = [conn EXCEPT ![c] = [at |-> "open", addr |-> a, host |-> h,
                                      out |-> None]]
       /\ peers' = [peers EXCEPT ![a] = Connected(@, c)]
       /\ keeper' = IF keeper.at = "store" /\ peers[a] = None THEN AtRest
                    ELSE keeper
  /\ UNCHANGED <<hash, pruned, racy, pipeline, outbound, network,
                 faults>>

\* The tasks have ended, and a message the writer holds goes with them.
Cancelled(c, at) == conn' = [conn EXCEPT ![c].at = at, ![c].out = None]

\* The reader or the writer has ended, because the peer has closed its side or
\* been silent for socketTimeout; the other one is cancelled.
EndTasks(c) ==
  /\ conn[c].at = "open"
  /\ Cancelled(c, "ending")
  /\ UNCHANGED <<table, pipeline, outbound, network, faults>>

\* The connection is reset, which ends both tasks; wait_closed raises the error
\* that ended the connection, and the handler ends without a look at the row.
Reset(c) ==
  /\ conn[c].at \in {"open", "ending"}
  /\ Cancelled(c, "lost")
  /\ UNCHANGED <<table, pipeline, outbound, network, faults>>

\* The row of a closed connection.  It may have been pruned: the KeyError
\* ends the handler.
Down(entry) == IF entry = None THEN None ELSE [entry EXCEPT !.up = FALSE]

\* The writer is closed and the row updated.
CloseWriter(c) ==
  /\ conn[c].at = "ending"
  /\ conn' = [conn EXCEPT ![c].at = "closed"]
  /\ peers' = [peers EXCEPT ![conn[c].addr] = Down(@)]
  /\ UNCHANGED <<hash, keeper, pruned, racy, pipeline, outbound, network,
                 faults>>

-----------------------------------------------------------------------------
(***************************************************************************)
(* Inbound                                                                 *)
(***************************************************************************)

\* Mutant: a queue without a limit.
HasRoomAlways == TRUE

HasRoom == Len(shared) < QueueSize

\* readInboundData: what one read returns is taken for a message.  Cut short,
\* or without a handler to answer it, it is odd.  When the queue is full the
\* connection ends.
Read(c, r) ==
  /\ conn[c].at = "open"
  /\ asked[r] = None /\ \A q \in 1 .. r - 1 : asked[q] # None
  /\ asked' = [asked EXCEPT ![r] = c]
  /\ \/ UNCHANGED <<odd, faults>>
     \/ Fault /\ odd' = odd \cup {r}
  /\ IF HasRoom
     THEN shared' = Append(shared, r) /\ UNCHANGED conn
     ELSE Cancelled(c, "ending") /\ UNCHANGED shared
  /\ UNCHANGED <<table, worker, inbound, outbound, answered>>

WorkerStep(w, work) ==
  /\ worker' = [worker EXCEPT ![w] = work]
  /\ UNCHANGED <<conn, hash, keeper, pruned, racy, outbound, network,
                 faults>>

\* inboundDataWorker: the next message.  The first of a peer is validated.
\* Without its row the look-up raises, and all that is collected is lost.
Take(w) ==
  /\ shared # << >>
  /\ worker[w].msg = None
  /\ LET r == Head(shared)
         entry == peers[From(r)]
     IN  WorkerStep(w,
           IF entry = None THEN NoWork
           ELSE IF entry.host = None THEN [worker[w] EXCEPT !.msg = r]
           ELSE [worker[w] EXCEPT !.batch = Append(@, r)])
  /\ shared' = Tail(shared)
  /\ UNCHANGED <<peers, inbound>>

\* decodeDiameterPacket: the header, each AVP by its length, its value by its
\* type; it fails, or finds no Origin-Host, only if the message is odd.
MayNotDecode(r) == r \in odd

\* The Origin-Host AVP.
OriginHost(r) == conn[asked[r]].host

\* validateDiameterInbound: the row gets the Origin-Host of the message.  One
\* without is discarded; if it is too short for a header, the handler of the
\* error fails, too, and the batch is lost.
Validate(w) ==
  /\ worker[w].msg # None
  /\ LET r == worker[w].msg
         a == From(r)
     IN  \/ /\ peers[a] # None
            /\ WorkerStep(w, [batch |-> Append(worker[w].batch, r),
                              msg |-> None])
            /\ peers' = [peers EXCEPT ![a].host = OriginHost(r)]
         \/ /\ peers[a] = None \/ MayNotDecode(r)
            /\ WorkerStep(w, [worker[w] EXCEPT !.msg = None])
            /\ UNCHANGED peers
         \/ /\ MayNotDecode(r)
            /\ WorkerStep(w, NoWork)
            /\ UNCHANGED peers
  /\ UNCHANGED <<shared, inbound>>

\* Mutants: a batch is sent again with the next one; nothing but its first
\* message is sent.
Sent(batch) == << batch, batch >>
SentFirst(batch) == << << >>, SubSeq(batch, 1, 1) >>

\* What a worker keeps of its batch, and what it sends.
SentOff(batch) == << << >>, batch >>

\* The interval is over: sendBulkMessage.
Flush(w) ==
  /\ worker[w].msg = None
  /\ worker[w].batch # << >>
  /\ LET sent == SentOff(worker[w].batch) IN
       /\ WorkerStep(w, [batch |-> sent[1], msg |-> None])
       /\ inbound' = inbound \o sent[2]
  /\ UNCHANGED <<shared, peers>>

-----------------------------------------------------------------------------
(***************************************************************************)
(* The HSS worker                                                          *)
(***************************************************************************)

\* awaitBulkMessage: messages are taken by the batch, newest first (BLMPOP) or,
\* with an older Redis, oldest first; what is left of a batch is as if it were
\* at either end of the list.
TakenOff(list, i) == RemoveAt(list, i)

\* sendMessage: the answer goes to the end of the list of an address.
Queued(lists, a, r) == [lists EXCEPT ![a] = Append(@, r)]

\* generateDiameterResponse: the answer of the first application that takes
\* the command; none if it does not decode, has no handler or that fails.
HasAnswer(r) == r \notin odd

\* handleQueue: each message of a batch is answered, or skipped.
HssAnswer ==
  /\ \E i \in 1 .. Len(inbound) :
       LET r == inbound[i] IN
       /\ inbound' = TakenOff(inbound, i)
       /\ outbound' = IF HasAnswer(r) THEN Queued(outbound, From(r), r)
                      ELSE outbound
  /\ UNCHANGED <<conn, table, shared, worker, network, faults>>

\* The worker dies with a batch, or has been down for so long that the list
\* has expired.
HssDies ==
  /\ Fault
  /\ \E i \in 1 .. Len(inbound) : \E j \in i .. Len(inbound) :
       inbound' = SubSeq(inbound, 1, i - 1)
                  \o SubSeq(inbound, j + 1, Len(inbound))
  /\ UNCHANGED <<conn, table, shared, worker, outbound, network>>

-----------------------------------------------------------------------------
(***************************************************************************)
(* Outbound                                                                *)
(***************************************************************************)

\* writeOutboundData: the next message of the address ...
Pop(c) ==
  LET a == conn[c].addr IN
  /\ conn[c].at = "open"
  /\ conn[c].out = None
  /\ outbound[a] # << >>
  /\ conn' = [conn EXCEPT ![c].out = Head(outbound[a])]
  /\ outbound' = [outbound EXCEPT ![a] = Tail(@)]
  /\ UNCHANGED <<table, pipeline, network, faults>>

\* ... is written.
Write(c) ==
  /\ conn[c].at = "open"
  /\ conn[c].out # None
  /\ conn' = [conn EXCEPT ![c].out = None]
  /\ answered' = [answered EXCEPT ![conn[c].out] = Append(@, c)]
  /\ UNCHANGED <<table, pipeline, outbound, asked, odd, faults>>

\* The list expires when nobody has popped from it for long.
Expire(a) ==
  /\ outbound[a] # << >>
  /\ \A c \in Conn : conn[c].addr = a => conn[c].at # "open"
  /\ outbound' = [outbound EXCEPT ![a] = << >>]
  /\ UNCHANGED <<conn, table, pipeline, network, faults>>

-----------------------------------------------------------------------------
(***************************************************************************)
(* Housekeeping                                                            *)
(***************************************************************************)

KeeperStep == UNCHANGED <<conn, pipeline, outbound, network, faults>>

Known == {a \in Addr : peers[a] # None}

\* Mutant: of two rows of one host the older one stays.
DuplicatesNewer ==
  {a \in Known : peers[a].host # None /\
     \E b \in Known : /\ peers[b].host = peers[a].host
                      /\ peers[b].since < peers[a].since}

\* All rows of a host but the one that connected last, connected or not.
Duplicates ==
  {a \in Known : peers[a].host # None /\
     \E b \in Known : /\ peers[b].host = peers[a].host
                      /\ peers[b].since > peers[a].since}

\* The rows, in some order.
Rows(A) == LET order == SetToSeq(A)
           IN  [i \in DOMAIN order |-> [addr |-> order[i],
                                       since |-> peers[order[i]].since]]

Store(A) == keeper' = [at |-> "store", todo |-> SetToSeq(A)]

\* A round: duplicates, and rows disconnected for long, are stale.
Scan ==
  /\ keeper.at = "idle"
  /\ Known # {}
  /\ \E old \in SUBSET {a \in Known : ~peers[a].up} :
       IF Duplicates \cup old = {} THEN Store(Known)
       ELSE keeper' = [at |-> "prune", todo |-> Rows(Duplicates) \o Rows(old)]
  /\ UNCHANGED <<peers, hash, pruned, racy>>
  /\ KeeperStep

\* Mutant: a pruned row stays in Redis.
ForgetLocally(a) == UNCHANGED hash

Forget(a) == hash' = [hash EXCEPT ![a] = None]

\* The rows are deleted one by one.  One that is listed twice is missing the
\* second time, which ends the pruning.
Prune ==
  /\ keeper.at = "prune"
  /\ LET stale == Head(keeper.todo)
         a == stale.addr
     IN  IF peers[a] = None
         THEN Store(Known) /\ UNCHANGED <<peers, hash, pruned, racy>>
         ELSE /\ peers' = [peers EXCEPT ![a] = None]
              /\ Forget(a)
              /\ pruned' = pruned \cup {a}
              /\ racy' = IF peers[a].since = stale.since THEN racy
                         ELSE racy \cup {a}
              /\ IF Len(keeper.todo) = 1 THEN Store(Known \ {a})
                 ELSE keeper' = [keeper EXCEPT !.todo = Tail(@)]
  /\ KeeperStep

\* setHashValue: the row as it is now.
Copied(copies, a) == [copies EXCEPT ![a] = peers[a]]

\* The rows are copied to Redis one by one.
StoreRow ==
  /\ keeper.at = "store"
  /\ IF keeper.todo = << >>
     THEN keeper' = AtRest /\ UNCHANGED hash
     ELSE LET a == Head(keeper.todo) IN
            /\ hash' = Copied(hash, a)
            /\ keeper' = [keeper EXCEPT !.todo = Tail(@)]
  /\ UNCHANGED <<peers, pruned, racy>>
  /\ KeeperStep

\* The service is started again: the hash is flushed, the lists of Redis stay.
Restart ==
  /\ Fault
  /\ conn' = [c \in Conn |->
                IF conn[c].at = "new" THEN conn[c]
                ELSE [conn[c] EXCEPT !.at = "closed", !.out = None]]
  /\ peers' = NoPeers /\ hash' = NoPeers /\ keeper' = AtRest
  /\ shared' = << >>
  /\ worker' = [w \in Worker |-> NoWork]
  /\ UNCHANGED <<inbound, outbound, network, pruned, racy>>

-----------------------------------------------------------------------------
\* A step that brings a message further, and one of the housekeeping.
Serve ==
  \/ \E w \in Worker : Take(w) \/ Validate(w) \/ Flush(w)
  \/ HssAnswer
  \/ \E c \in Conn : Pop(c) \/ Write(c)
  \/ \E a \in Addr : Expire(a)

Keep == Scan \/ Prune \/ StoreRow

Next ==
  \/ \E c \in Conn : \/ Connect(c) \/ EndTasks(c) \/ Reset(c) \/ CloseWriter(c)
                     \/ \E r \in Request : Read(c, r)
  \/ Serve
  \/ HssDies
  \/ Keep
  \/ Restart

Spec == Init /\ [][Next]_vars

\* The event loop runs every task that can go on, the HSS worker takes what is
\* in its list, and Redis lets lists expire: of the messages on their way some
\* one gets further, and the housekeeping does its rounds.
Fairness == WF_vars(Serve) /\ WF_vars(Keep)

FairSpec == Spec /\ Fairness

-----------------------------------------------------------------------------
(***************************************************************************)
(* Properties                                                              *)
(***************************************************************************)

\* The requests that are, or whose answers are, on their way.
Pending ==
  ToSet(shared) \cup ToSet(inbound)
  \cup (UNION {{worker[w].msg} \cup ToSet(worker[w].batch) : w \in Worker})
  \cup {conn[c].out : c \in Conn}
  \cup (UNION {ToSet(outbound[a]) : a \in Addr})

\* Has an address been that of two hosts?
Shared(a) == \E c, d \in Conn : /\ conn[c].addr = a /\ conn[d].addr = a
                                /\ conn[c].host # conn[d].host

\* Type invariant.
TypeOK ==
  /\ conn \in [Conn -> Connection]
  /\ peers \in [Addr -> Entry \cup {None}]
  /\ hash \in [Addr -> Entry \cup {None}]
  /\ \/ /\ keeper.at \in {"idle", "store"}
        /\ keeper.todo \in Seq(Addr)
     \/ keeper.at = "prune" /\ keeper.todo \in Seq([addr : Addr, since : Conn])
  /\ shared \in Seq(Request) /\ Len(shared) <= QueueSize
  /\ worker \in [Worker -> [batch : Seq(Request),
                            msg : Request \cup {None}]]
  /\ inbound \in Seq(Request)
  /\ outbound \in [Addr -> Seq(Request)]
  /\ asked \in [Request -> Conn \cup {None}]
  /\ answered \in [Request -> Seq(Conn)]
  /\ odd \subseteq Request /\ pruned \subseteq Addr /\ racy \subseteq Addr

\* The requests that will not be answered.
Dropped ==
  {r \in Request : asked[r] # None /\ answered[r] = << >>} \ Pending

\* The service and the worker keep the promise of Exchange: whatever is pruned,
\* cut, restarted or late, each request is settled, by one answer at its own
\* address or by dropping it.
AskedAt == [r \in Request |-> IF asked[r] = None THEN None ELSE From(r)]
AnsweredAt == [r \in Request |->
                 [i \in 1 .. Len(answered[r]) |-> conn[answered[r][i]].addr]]
Promise == INSTANCE Exchange WITH
  asked <- AskedAt, answered <- AnsweredAt, dropped <- Dropped
KeepsPromise == Promise!Spec

\* inboundDataWorker, handleQueue: a request of a connection that stays open is
\* answered on it, unless a message is odd, a service fails, the address had
\* another connection, or some message came from an address that was pruned.
Served ==
  \A r \in Request :
    LET c == asked[r] IN
    /\ c # None /\ r \notin Pending /\ faults = 0
    /\ conn[c].at = "open"
    /\ \A d \in Conn \ {c} : conn[d].addr # conn[c].addr
    /\ \A q \in Request : asked[q] # None => From(q) \notin pruned
    => answered[r] = << c >>

\* A row is connected while the last connection from its address is, or when
\* that one was reset.
RowFollows(a) ==
  peers[a] # None =>
    LET last == CHOOSE c \in Conn :
                  /\ conn[c].addr = a
                  /\ \A d \in Conn : conn[d].addr = a => d <= c
    IN  peers[a].up <=> conn[last].at # "closed"

\* The connection a host has opened last has a row while it is open, unless it
\* reconnected while its row was being pruned.
NewestKept(c) ==
  /\ conn[c].at = "open"
  /\ \A d \in Conn : conn[d].host = conn[c].host => d <= c
  /\ conn[c].addr \notin racy
  => peers[conn[c].addr] # None

\* handleConnection, handleActiveDiameterPeers ("Prunes stale and duplicate
\* entries"): the table follows the connections, as long as no address has been
\* that of two hosts.
TableFollows ==
  /\ \A a \in Addr : RowFollows(a)
  /\ (\A a \in Addr : ~Shared(a)) => \A c \in Conn : NewestKept(c)

\* "keeps the ActiveDiameterPeers key in Redis current": once no more peers
\* come and go, the hash is the table.
HashSettles == <>[](hash = peers)

=============================================================================
