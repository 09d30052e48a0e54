# TLA+ models of the VoWiFi lab core: pyepdg and PyHSS

The repository is a small mobile core for Wi-Fi calling. `pyepdg/` orchestrates
an ePDG: an HTTP API whose handlers authorise a UE at the AAA, bring up IPsec
with strongSwan and check the S2b peer. `pyhss/` is the HSS, PCRF, EIR, AuC and
GSUP home server behind it. Kamailio, Open5GS and strongSwan are third-party
programs and appear only as configuration. This directory models the parts that
keep state and run concurrently, checks them with TLC and proves what matters
most with TLAPS.

## 1. Inventory

| Component | State | Operations | Talks to |
| --- | --- | --- | --- |
| pyepdg session API (`pyepdg/server.py`, `session.py`) | `Store._sessions`, behind a lock | create, delete, list, health; one thread per request | AAA (HTTP), charon (`swanctl`), PGW (GTPv2 echo) |
| pyepdg back ends (`ipsec.py`, `s2b.py`, `pyhss_client.py`) | none of their own; charon's SAs | initiate, terminate, load-all, ping, authorise | the API handlers |
| GSUP connections (`lib/gsup/server.py`) | `active_connections`, `connections_pending_activation`, `connections_pending_pings` | identity exchange, PING, dispatch, close; one asyncio task per TCP connection | MSCs and SGSNs, the dispatcher |
| GSUP location management (`lib/gsup/request_dispatcher.py`, `controller/*`) | one table of ULR and one of ISD transactions per peer; the subscriber's serving MSC and SGSN | ULR, ISR, PUR, AIR, subscriber update, timeouts | the peers, the database, the API over Redis |
| Authentication centre (`lib/database.py`) | `AUC.sqn` | vectors (six kinds), resynchronisation | Diameter, GSUP and HTTP clients, the other sites |
| Geographic redundancy (`services/georedService.py`, `apiService.py`) | the Redis queue `geored`, the rows of every site | send with retries, store | the other sites' APIs |
| RADIUS bridge (`services/radiusBridgeService.py`) | `sessions`, by State attribute | identity, challenge response, resynchronisation | strongSwan, the API |
| Diameter service (`services/diameterService.py`) | `activePeers` and its copy in Redis, `sharedQueue`, the lists `diameter-inbound` and `diameter-outbound-<ip>-<port>` | connect, read, write, validate, prune, store | Diameter peers, Redis |
| HSS worker (`services/hssService.py`) | none of its own; the Redis lists | pop, decode, answer, sweep expired emergency rows | Diameter service, database |
| HSS subscriber location (`lib/diameter.py`, `database.py`) | serving MME, serving and proxy CSCF, and their timestamps | ULR, PUR, SAR, UAR, LIR, MAR, CLR, RTR | MMEs, CSCFs, the other sites |
| PDN connections (`lib/diameter.py`, `database.py`) | `SERVING_APN` rows | CCR-I/U/T, deregister | PGWs, the other sites |
| Rx calls (`lib/diameter.py`) | `IMS_SUBSCRIBER.pcscf_active_session`; answers in `diameter-inbound` | AAR, STR, RAR and the wait for its answer, push of a rule | P-CSCF, PGW |
| Emergency subscribers (`lib/diameter.py`, `database.py`) | `EMERGENCY_SUBSCRIBER` rows | CCR-I/T, AAR, STR, sweep | PGWs, P-CSCF, the other sites |
| Operation log (`lib/database.py`) | `operation_log` | log before commit, roll back the last change, roll back an operation | the API |
| Database, log and metric services | none that matters here | timers and output | Redis |

Which behaviours are hard:

* **pyepdg**: only the table is locked. A handler makes four external calls, each
  of which can fail, and what a `swanctl` call that timed out asked for may be done
  by charon at any time after it. As shipped, all UEs share one child name, which is
  all that charon tells SAs apart by when it takes them down. What must hold: no
  session but for the IMSI its own request was authorised for; a session that is
  up has its SA and an SA has a session, but for named failures; an SA goes only
  with a request for it or for its child name.
* **GSUP**: an event loop with an await in every step. Transactions are matched
  to answers by connection; commit and cancel-location are two steps; connections
  end at any await, some by an exception of the database. What must hold: the row
  names the peer that accepted the subscriber, at most one peer holds a
  subscriber, a peer that conforms is not disconnected but for named failures,
  and one that has fallen silent is not kept.
* **AuC**: three processes per site and several sites read and write one counter
  without a lock. What must hold: SQNs do not repeat, sites agree, a
  resynchronisation works.
* **RADIUS bridge**: the transport loses and repeats requests, and an
  authentication is several requests. What must hold: only a UE that answered
  its challenge is let in, with keys it also has, and one that answered
  correctly is let in.
* **Diameter service**: ten workers, the connection handlers and the
  housekeeping share the table of peers and the queues across awaits; a popped
  answer is lost with its connection, a batch with the worker that fails on it.
  What must hold: a request is answered once at most and at its own address; one
  of a healthy connection is answered; the table follows the connections.
* **HSS location and PDN connections**: a row is updated in several transactions
  without a lock, at several sites, and copies cross or are lost. What must hold:
  rows name what the network last was told, no handler clears what is not its own,
  and the sites agree.
* **Rx calls**: the subscriber has one column for the call that is on, and a
  worker waits 120 ms for the PGW's answer in a list that other workers empty.
  What must hold: a call that is over has no bearer; a call is refused only for
  the PGW's answer to its own request.
* **Emergency subscribers**: rows are found by IMSI, by address or by call,
  expire, and are swept while calls use them; the RAR that gives or takes a bearer
  may be lost or come late. What must hold: the rows follow the sessions, a call
  gets its bearer on the caller's session and gives it back.

## 2. Plan

Modules, in the order in which they were written:

| Module | Models | Theorems in |
| --- | --- | --- |
| `EpdgSession` | pyepdg's session API and back ends | `EpdgProofs` |
| `GsupConnections` | the connection layer of the GSUP server | `GsupProofs` |
| `GsupLocation` | the GSUP dialogues, above connections that are up | `GsupProofs` |
| `AuC` | the SQN of an AUC row, at several sites | `AuCProofs` |
| `RadiusBridge` | EAP-AKA over RADIUS | `EpdgProofs` |
| `HssLocation` | the serving MME and CSCF, at several sites | `HssLocationProofs` |
| `Exchange` | the abstract promise: each request is settled, by one answer or by dropping it | |
| `DiameterService` | the peers' connections, the queues, the table of peers, the HSS worker; implements `Exchange` | `DiameterServiceProofs` |
| `ServingApn` | `SERVING_APN` rows, at several sites | `ServingApnProofs` |
| `RxCalls` | Rx calls, the RARs they cause and the waits for their answers | `RxCallsProofs` |
| `Emergency` | emergency subscribers, at several sites | `EmergencyProofs` |

What composes: `GsupLocation` takes from `GsupConnections` the connections that
are up, and every closing of one. `DiameterService` carries the requests whose
handlers are the actions of `HssLocation`, `ServingApn`, `RxCalls` and
`Emergency`: what it promises them is `Exchange` (a request reaches a handler at
most once, or is lost), and that is what those modules assume of their requests.
`AuC` supplies the vectors of `RadiusBridge` (which keeps an SQN of its own for
each UE) and of the GSUP and S6a dialogues. The list `diameter-inbound` of
`DiameterService` is the one `RxCalls` waits in; the row of the IMS APN it reads
is one of `ServingApn`. `AuC`, `HssLocation`, `ServingApn` and `Emergency` share the
replication service: copies go from site to site in order, each once or, after
three tries, not at all.

The inductive invariant of `Emergency` is long enough to have a module of its own,
`EmergencyInv`, which `EmergencyProofs` extends; with it are the definitions by
which the lemmas say what a step changes.

Worth doing next: the P-CSCF columns and NOA in `HssLocation`; the roll-back of
the operation log.

## 3. The modules

In every module the variables marked *external* in their comments belong to
somebody else (charon, an MSC, a UE); what marks them *history* is there for the
properties only. A property that holds "but for named causes" reads a history
variable that records the cause when it happens; every cause is a place in the
code where the promise breaks, and the README names it. Operators under the
comment "Mutant" are not part of the specification: each is what a plausible
mistake would make of the operator after it, and serves to show that a property
can fail.

### EpdgSession

`ThreadingHTTPServer` gives each request a thread; only `Store` is locked. A
thread's place (`at`) is the external call or the lock it is about to enter, so a
step is one call or one critical section, and steps of different threads
interleave.

| Code | Model |
| --- | --- |
| `App.handle_create`: authorize | `AuthorizeOk`, `AuthorizeFail` |
| `SwanctlBackend.create_child_sa`, active mode | `InitiateOk`, `InitiateFail` |
| the same, passive mode | `LoadAllOk`, `LoadAllFail` |
| `GTPv2EchoClient.create_session` and its compensation | `CreateSessionOk`, `CreateSessionFail`, `Compensate` |
| `swanctl --terminate` | `TerminateOk`, `TerminateFail`, in `Compensate` and in the first step of a delete |
| `Store.upsert`: the clock, then the lock | `UpsertNow`, `Upsert` |
| `App.handle_delete` | `StartDelete`, `DeleteChildSaOk`, `DeleteChildSaFail`, `Delete` |
| what charon does after `swanctl` has timed out or died | `InitiateLate`, `TerminateLate` |
| SAs beginning and ending outside the API, a restart | `Attach`, `Lose`, `Restart` |

`child_name` and `mode` are read from the configuration when the process starts;
`ChildNameOf` and `SameChild` say which SAs a terminate takes down. A command in
`unfinished` is carried out by charon at some later step, or never.

### GsupConnections

One task per connection. `place` is where it awaits; `active`,
`pendingActivation` and `pendingPings` are the three tables all tasks share.
`Identify` is the handler of an ID_RESP up to its first await, `Acknowledge` the
rest; `End`, `EndIdentify` and `TimeOut` are the `finally` clause, reached from
either place or by a read that lasts too long; `Garble` is an ID_RESP whose tag
loop never advances. A client `FallSilent` when it will send nothing more: the
timeout is of each read, so only such a client meets it. Its names
(`ConnSpec`, `ConnTypeOK`, ...) differ from those of `GsupLocation`, so that
`GsupProofs` can speak of both.

### GsupLocation

One task per connection handles one message at a time and gives way at each
`drain()`; `task` says at which. `HandleUlr`, `RejectUlr`, `ContinueUlr`,
`AnsweredUlr` and `CancelledUlr` are the stretches of a location update between
two awaits, `FailUlr` the one in which the database raises and the connection is
closed, `ContinueIsd` and `RefuseAnswer` those of an answer that belongs to a
subscriber update, or to nothing; `HandlePur` a purge. The listener task takes
the updates that `SendUpdate` (the API) queues: `TakeUpdate`, `SkipUpdate`,
`BeginIsd`, `BegunIsd`. The tables are keyed by the name of the connection, as
in `request_dispatcher.py`; `CleanUlr` and `CleanIsd` are what `dispatch` does to
them before it hands a message on. `ulr` and `isd` keep a transaction after its
key has gone, since a handler at an await still holds the object.

### AuC

A client's request is `Ask`, then for each vector `Read` and `Vector` (or
`Fail`), the two transactions of `Get_Vectors_AuC`; a resynchronisation is `Read`
and `Resync`. Every commit queues a copy for each other site, delivered by
`Deliver` or lost by `Lose`. `Accept`, `OutOfSync` and `Discard` are the USIM and
the node that challenges it.

### RadiusBridge

`HandleAuthPacket` is one step: the bridge is a single-threaded UDP server, and
nothing of it interleaves with a packet, its calls to the API included. What
interleaves is outside: several authentications, requests sent again, losses
(`requests` and `replies` are sets; a message nobody takes is lost).

### HssLocation

One subscriber. A thread (an HSS worker, or a thread of the API) takes a request
and runs it in the transactions of the code: `Check` (who is in the row?),
`Load` or `LoadClr` (the row is read, and with CLRs enabled the old peer looked
at), `Commit` (the UPDATE writes the columns that differ from what was read),
`Reload` (the commit has expired the object), `QueueCopy`, and the answer. At the
other site `Deliver` starts a handler of kind `geored` that stores the copy by the
same steps without a further copy, and `Respond` is its answer to
`georedService`, which only then goes on to the next copy of that queue.
`GiveUp` is the end of its retries, `Die` a worker that dies, `CommitFails` a
database error: the MME's update swallows it and its handler answers with
success, the CSCF's raises it.

### Exchange and DiameterService

`Exchange` has three variables: where a request was read, where it was answered,
which requests never will be. `DiameterService` is `diameterService.py` and the loop
of `hssService.py`; a step is what runs between two awaits. A message goes
`shared` (`sharedQueue`), `worker` (the batch and the message an
`inboundDataWorker` is at), `inbound` (the Redis list), `outbound` of its address,
`conn[c].out` (the writer has popped it), and is written.

| Code | Model |
| --- | --- |
| `handleConnection` up to its tasks | `Connect` |
| `readInboundData` | `Read`; a full queue ends the task |
| `inboundDataWorker`, `validateDiameterInbound` | `Take`, `Validate`, `Flush` |
| `handleQueue` of the HSS worker | `HssAnswer`, `HssDies` |
| `writeOutboundData` | `Pop`, `Write`; `Expire` is Redis's |
| the end of `handleConnection` | `EndTasks`, `Reset`, `CloseWriter` |
| `handleActiveDiameterPeers`, `logActiveConnections` | `Scan`, `Prune`, `StoreRow` |
| the service starts again | `Restart` |

`Promise == INSTANCE Exchange WITH asked <- AskedAt, answered <- AnsweredAt,
dropped <- Dropped` maps the one to the other: a connection is its address, and a
request is dropped once it, or its answer, is nowhere on its way.

### ServingApn

The rows of one subscriber. `CcrI`, `CcrT`, `Deregister` and `Deliver` (a copy) start
handlers; each goes through the transactions of `Update_Serving_APN` one by one:
`Check`, `Scan` and `Prune` (rows with the same address), `Find`, `UpdateRow`,
`Undo`, `Read`, `Create`, `Reread`, `Delete`, `QueueCopy`. `current` is what the
network was told last, and is what the rows are compared with.

### RxCalls

One subscriber with IMS. `Aar` and `Str` start handlers: `Clear`, `Look`, `Mark`
for the AAR, `Find` and `Unmark` for the STR, then `Send`, `Match` or `TimeOut`,
`Answer`. `inbound` is the list that `awaitDiameterRequestAndResponse` looks
through and from which other workers `Discard`; `Serve`, `Refuse`, `LoseRar` and
`Arrive` are the PGW and the way to it. `Update_Proxy_CSCF` is one step here, since
its columns are written by handlers of this one site only.

### Emergency

`CcrI`, `CcrT`, `Aar`, `Str` and copies start handlers, which `Get` a row (by IMSI,
address or call), `Store` or remove it, `QueueCopy`, `Send` a RAR and `Answer`; after
every answer the worker goes on to `List` the rows and `Sweep` those that have
expired, one by one. `SendFails` is the RAR that is refused or has no answer within
120 ms; `Arrive` is such a RAR reaching the PGW after all. How a RAR is awaited is
left to `RxCalls`.

## 4. Runs

All passing runs explore the whole state space of their instance.

| Run | Distinct states | Instance | What it shows |
| --- | --- | --- | --- |
| `EpdgSession` | 2,397,018 | two UEs, two IMSIs, two threads, restarts, both modes, one child name for both UEs or one each; one UE (`Careful`) has one request at a time, the other's overlap; a command that charon has yet to carry out | `AuthorisedOnly`: an entry gets the IMSI its own request was authorised for. `TableAgrees`: for a careful UE table and charon agree but for named causes. `BystanderKept`: a terminate takes down its own UE's SA, or those of its child name. `SessionOutlivesSA`: a session goes after its SA. `UpdatedAfterCreated`, and `NeverStuck`: a handler always has a step to take, so every request is answered |
| `GsupConnections` | 2,025 | two connections, three PINGs each, clients that fall silent | `PingsAnswered`, `TablesClean`, and `SilentReleased` under fairness: a client that falls silent leaves the tables |
| `GsupLocation` | 1,280,811 | two MSCs, one of which may come back on a new connection, two known subscribers and one unknown; three requests in good order, or two that overlap and a subscriber update; a database that may fail at a result | `ServingAccepted` in any interleaving; in good order `HeldIsLocated`, `ResultLocated`, `ConformingKept` |
| `AuC` | 3,378,536 | two clients at one site, one at another, three requests | `VectorsDistinct`, `SitesAgree`, `ResyncWorks`, each but for named causes |
| `RadiusBridge` | 1,836,931 | two authentications of one UE or of two, each request sent at most twice, API failures, three ways to report a bad SQN | `KeysAgree`, `SoundAdmitted`, `SessionsSpent` |
| `RadiusResync` | | one UE out of step, an API that never fails | violation, see Findings |
| `HssLocation` | 864,053 | two sites, two MMEs, two CSCFs, CLRs enabled and not; three requests, or two and a fault | `PeerOfMme`, `Located`, `SitesAgree`, `ClearsOwn`, each but for named causes |
| `HssCancel` | | CLRs enabled, two attaches, no faults | violation, see Findings |
| `DiameterService` | 472,506 | two connections, the second from the first one's address, of the same host or of another, or of the same host from another address; two requests, one worker, a queue of one, a fault | `KeepsPromise`: the service implements `Exchange`, liveness included. `Served`: a request of a connection that stays open is answered on it, unless a row its batch needs was pruned, a message is odd, a service fails or the address had another connection. `TableFollows`, and `HashSettles` under fairness |
| `ServingApn` | 651,436 | two sites, two APNs the subscriber has and one it has not, two addresses; three requests, or two and a fault | `NoDuplicates`, `RowsFollow`, `ClearsOwn`, each but for named causes |
| `RxCalls` | 2,463,379 | two calls, two workers; four requests, or three and a fault | `Ended`: the bearer of a call goes with it, but for named causes. `RefusedOwn` |
| `Emergency` | 402,384 | two UEs, two addresses, two calls, two sites; four requests, or three and a fault (a RAR without an answer among them) or a lifetime that passes | `Known`, `CallsHome`, `Ceased`, each but for named causes |

`TypeOK` is a property of the runs of `GsupLocation`, `DiameterService`, `ServingApn`,
`RxCalls` and `Emergency`; type correctness is proved (section 6) of every module.

### Bounds

* Two UEs, connections, clients, sites, calls or authentications are enough for
  what the properties say: each speaks of one of them and one other (a bystander,
  an old peer, another site). Two IMSIs are two creates that claim one `ue_id` for
  different subscribers. Three PINGs are one before, one during and one after
  the identity exchange.
* `GsupLocation`: three orderly requests are an update, a move and a move back, or
  an update, a purge and a return; two overlapping ones and an update are what
  it takes to confuse a transaction. The third connection is the first MSC
  coming back (`Bounded`), with the third request only when it is alone.
* `AuC`: three requests allow an overlap, a resynchronisation after it and a
  vector after that. `Step` is the code's 100, two vectors stand for up to 32.
* `HssLocation`: three requests are two registrations and a deregistration, or an
  overlap of two and a third that meets what it left; one fault, with two
  requests. With CLRs enabled this is enough for the second attach to spoil the
  peer and the third to freeze the row.
* `RadiusBridge`: each request is sent at most twice; a third copy is treated
  like the second.
* `DiameterService`: `QueueSize` is 1 instead of 1024, so that the queue is full
  with two requests; one worker, since two requests in two workers differ from
  one batch only in their order, which `Exchange` does not promise and the HSS
  turns round anyway (the theorem is for any number of workers). Two connections
  are an address that comes back, an address that changes hands and a host that
  moves.
* `ServingApn`, `Emergency`: a third request, or a fourth, meets what the overlap
  or the fault of the others left. `RxCalls`: an AAR and an STR of each of two
  calls, or one of them with the operator's rule and the end of the Gx session.
* The constraints `Bounded` let one fault take the place of a request, and cut a
  behaviour after the first state with a cause that excuses the properties from
  there on (`"overlap"`) or with two causes: two causes are met one at a time.
* `EpdgSession`: `MaxUnfinished` is 1: a command given up on meets every later
  step of the same and of the other UE. The restart of the process may leave one
  with charon too.
* `MaxClock`, `MaxPings`, `MaxConns`, `MaxRequests`, `MaxUpdates`, `MaxCalls`,
  `MaxSends`, `MaxVectors` and `MaxFaults` stop counters only. No bound is reached
  where a property would need the next step: the safety properties are read in
  every state, and the liveness properties concern requests that were made.

`CHECK_DEADLOCK FALSE` is set where the environment may have nothing left to
say; the run of `EpdgSession` checks deadlock.

### Fairness

* `GsupConnections!ConnFairSpec`: weak fairness of `Acknowledge`, since the event
  loop resumes the handler after its log call, and of `TimeOut`, since the read of
  a client that sends nothing ends by `socket_timeout`. Nothing is assumed of
  what a client sends: one that goes on with PINGs and never identifies itself
  stays connected, as the code has it (`End` has no fairness). A task in
  `Garble`'s loop never ends, and `SilentReleased` says so.

* `DiameterService!FairSpec`: weak fairness of `Serve`, which is "some message on
  its way gets further", and of `Keep`, the rounds of the housekeeping. The event
  loop resumes every task whose await is over, the worker polls its list, and
  Redis lets the lists expire, so no message stays for ever; which one is next
  is left open. `KeepsPromise` and `HashSettles` need no more. No fairness is
  assumed of the peers.

The other modules state safety only: their environments may fall silent at any
time, and nothing in the code makes a peer answer. `EpdgSession!NeverStuck` says
that a handler can go on, whatever the external calls do; that it does is the
timeouts of `urlopen`, `subprocess.run` and the GTPv2 socket, and a lock that is
held for a few statements.

## 5. Findings

* **RadiusResync** (`ResyncChallenged`): the comment at `radiusBridgeService.py:422`
  promises a new challenge after a resynchronisation; the API answers a
  resynchronisation with null, so the bridge rejects the UE. Only its next
  authentication succeeds.
* **HssCancel** (`OldMmeCancelled`): with `CancelLocationRequest_Enabled` the CLR
  is queued as a PATCH without `immediateReattach`, and `/push/clr` takes only a
  PUT with it: the old MME is never cancelled.

What the models also show, mostly as named causes:

* pyepdg, the child name: `ipsec.child_name` is `ue-default` by default
  (`config.py:22`, used at `ipsec.py:35`), in `epdg.std.yaml:10` and, as the only
  child, in `epdg-ike.conf:22`. `swanctl --terminate --child` takes down every SA of
  that name, so with the shipped configuration the delete of one UE, or the
  compensation of its refused create, ends the SAs of all UEs and leaves their
  sessions `up` (`"shared"`). Only an empty `child_name` gives each UE a child of
  its own, and then only if their `ue_id`s differ once sanitised.
* pyepdg, `swanctl`: charon may carry out a command after `ipsec.py:46` has given
  up on it (`"late"`): an SA comes up although the create was answered 502, or goes
  although the delete failed and the session stayed. S2b's refusal of a second
  create takes the SA of the first one down and leaves its session up (`"s2b"`);
  `delete` of a session whose SA is gone fails, so it stays.
* GSUP connections: the timeout of `server.py:74` is of each read. A client that
  sends a PING now and then and never an ID_RESP is neither acknowledged nor closed,
  and its PINGs are held back without end.
* GSUP: `__find_transaction_for_imsi` (`isr.py:72`) does not look at the IMSI, so
  when a location update and a subscriber update meet on one connection, the
  answer about one subscriber completes the update of the other; the properties
  that hold only in good order say so (`Orderly`). A purge clears the row
  whichever peer it names, and one that is still unread on an old connection
  clears the update made on the new one (`"stray purge"`); a
  location update that breaks off after its commit leaves the old peer with the
  subscriber (`"broken off"`). A database error at a peer's result (`update_hlr`
  raises a `ValueError`, `database.py:1778`) leaves `continue_invoke`, and
  `server.py:96` closes the connection of a peer that did nothing wrong
  (`FailUlr`); if only the answer to the commit was lost, that is a break-off too. A second update that gets between the first one's
  commit and its cancel-location is cancelled by it, although it is the newer:
  the row then names a peer that no longer serves, which `HeldIsLocated` allows.
* AuC: overlapping requests repeat an SQN (`"overlap"`), and so do a
  resynchronisation (`"resync"`) and the batch call (`"batch"`).
* HSS: overlapping updates, at one site or across sites (`"overlap"`); a PUR from
  an MME the UE has left clears the row (`"purge"`); with CLRs enabled the new
  peer is overwritten by the old one's host, so the row loses the HSS it needs,
  the next update fails on that, and the MME is told of success (`"frozen"`);
  `/oam/deregister` sends no RTR because it reads the CSCF from the wrong row
  (`"silent"`).
* Diameter service: after a reset `wait_closed` raises, so the row stays connected
  for ever; the search for duplicates keeps the newest row of a host even if
  that one is disconnected and an older one is not; a row keeps its first
  `OriginHost` when another host gets the address (`Shared`); a worker that finds no
  row raises and its whole batch is lost. Ten workers and a list that is pushed
  and popped at one end promise no order, and `Exchange` has none.
* PDN connections: overlapping handlers double or lose rows (`"overlap"`); an APN
  that is not in the subscriber's list takes the row of the last one that is
  (`"unlisted"`); the operator's deregistration sends no CCR-T, and its copies carry
  no session, so the other sites refuse them (`"deregister"`).
* Rx: every AAR first clears the active session, so after a second call, or one
  without audio, the STR of the first sends no RAR and its bearer stays
  (`"second"`), although the docstring at `diameter.py:4087` has the STR remove it;
  so do an STR before the AAA (`"early"`), a RAR that is slower than 120 ms, which
  is answered 2001 (`"late"`), and two RARs on one Gx session, whose answers are
  not told apart (`"shared"`).
* Emergency: the search for rows with the same address never works, as `len` of a
  query raises, so an address that is used again leads to the row of the UE that
  had it before (`"reused"`); a late CCR-T removes the row of the newer session
  (`"late"`); a row that expires is swept although its session is in use
  (`"expired"`); a UE that connects anew during its call loses the call from its row,
  so that the bearer stays (`"anew"`). A RAR without an answer in 120 ms (the PGW
  not connected, the RAR or the RAA lost or late: `diameter.py:3981`, `:4170`) is
  answered 2001 all the same: after the AAR the bearer may be missing or come
  later, after the STR it may stay for good. `Ceased` speaks of the bearers that
  the PGW has answered for. A CCR-I is answered 2001 even if nothing was
  stored.

## 6. Proofs

TLC checks the instances above; TLAPS proves the following for every value of
the constants that satisfies the modules' assumptions (finite or not, any number
of threads, sites and messages).

| Module | Theorem | Says |
| --- | --- | --- |
| `EpdgProofs` | `TypeCorrect`, `OnlyAuthorised`, `CreatedAtKept` | of `Spec`, the session API, in any interleaving |
| | `UpdatedLater`, `SessionOutlives` | of the UEs in `Careful`, whose clients keep one request in flight |
| | `BystandersKept` | of any configuration of child names |
| | `TableMatchesSAs` | of the careful UEs, with any configuration of child names |
| | `BridgeTypes`, `SameKeys`, `AdmittedOnce`, `NoneLeftBehind` | of `BridgeSpec`, the RADIUS bridge |
| `GsupProofs` | `TypesKept`, `NoPingForgotten`, `AckBeforePongs`, `TablesCleared` | of `ConnSpec`, the connections |
| | `GsupTypes`, `OnlyAcceptedServe` | of `Spec`, the dialogues, however they overlap |
| | `SuccessIsLocated`, `ConformingPeersKept` | with one dialogue per peer at a time (`orderly`) |
| | `ServedIsLocated` | with one dialogue and one connection per peer at a time (`OneLink`) |
| `HssLocationProofs` | `LocationTypes`, `OnlyOwnCleared`, `PeersLead`, `SitesComeToAgree`, `LocatedEverywhere` | of `Spec` |
| `AuCProofs` | `AucTypes`, `NoSqnTwice`, `RowsAgree`, `ResyncAccepted` | of `Spec` |
| `DiameterServiceProofs` | `ImplementsExchange` | `Spec => Promise!Safe`: the service implements the abstract exchange but for its liveness |
| | `TypeCorrect`, `TableFollowsConnections`, `RequestsServed` | of `Spec` |
| `ServingApnProofs` | `TypeCorrect`, `OneRowEach`, `TerminatesItsOwn`, `SitesFollow` | of `Spec` |
| `RxCallsProofs` | `RxTypes`, `OnlyOwnRefusal`, `BearersGo` | of `Spec` |
| `EmergencyProofs` | `TypeCorrect`, `CalledHome`, `KnownEverywhere`, `CeasedCalls` | of `Spec` |

The inductive invariants, and why they are needed:

* `EpdgSession`: `TypeInv` adds to the types that a thread that serves has a
  request. `AuthInv`: a thread past the AAA has been answered with vectors for the
  IMSI it serves, so that what `Upsert` writes is authorised by its own request.
  `Alone`: the requests of a careful UE do not overlap. `TimeInv`: with it, the time
  a thread has read is not before the entry's creation. `GoneInv`: a thread about to
  drop an entry has no SA left for it, but one that came late. `AgreeInv`: for a
  careful UE without a cause, table and charon agree except while its one request
  is between a `swanctl` call and the table, and then they differ the way that
  place says. What the other threads, charon and other UEs with the same child do
  in between to its SA is one of four things (`SaKept`, `SaEnded`, `SaLate`,
  `SaOfUE`), each with its cause.
* `GsupConnections`: `PlaceInv` ties each place of a task to the tables its
  connection is in; the count of PINGs is inductive only with it.
* `GsupLocation`: `NamedInv` adds to the types that a transaction in use has its
  subscriber. `AnswerInv`: an unread insert-data result is from a peer that has
  accepted the data; with it `ServingAccepted` is inductive. `OrderlyInv`: on a
  connection with one dialogue at a time, one message of the dialogue is under way
  at most, in either direction (`Talk`), it is about the subscriber the peer asks
  for, and an insert-data message is about the one the transaction awaits. The
  HSS takes the subscriber for the row from the answer and the one for the
  result from the transaction, and nothing in the code compares the two; that they agree
  is what `Talk` says. A transaction that still awaits its answer is then in
  the table unless it timed out (`WaitKept`), so that the answer is not refused.
  `TurnInv` and `StayInv` are about who has the subscriber: a peer that holds it,
  or will once it reads what is on its way (`WillHold`), is named by the row, or
  an update past its commit still has that peer's cancel-location to send.
  That needs `OneLink`: a peer with an old connection still open may have a
  cancel-location on the one and be served on the other.
* `RadiusBridge`: `SessionInv` and `NasInv` say which vector a State and a request
  of charon belong to; `RequestInv` and `ReplyInv` that messages on their way
  agree with that, however old; `FreshInv` that nothing was spent before the UE
  answered; `OnceInv` that an answer sent once finds its session; `UpInv` is
  then `KeysAgree`. `SpentInv`: a session that is not spent belongs to an
  authentication whose challenge is open or on its way, or was lost.
* `HssLocation`: `HandlerInv` says what each kind of handler carries, `HandInv` that
  one thread works on a queue at a time and its head is still there (without it a
  `Pop` could meet an empty queue). `MutexInv`: two updates of one part in one site
  imply the cause `"overlap"`. From it `PartKept`: otherwise nobody else changes
  the part a thread updates. `LookedInv` then carries what `Check` saw to the
  commit, and `PeerInv` says that rows, handlers and copies are all sound, and
  that what was read is what is still there; without the latter the UPDATE of
  the changed columns could put together one update's MME and another's peer.
  `HeadInv` (what an API thread works on heads its queue) and `KeptInv` (what a
  handler has read or stored is still in its row) hold without overlap. `LeadInv`:
  without overlap or loss some site leads; all handlers of requests are there,
  no other site has a copy under way, and each other row will have the leader's
  values once its queue is stored, unless the leader has yet to queue them. The
  next request may come at another site only when nothing is left under way, so
  the lead can pass on. `TruthInv`: if nothing at all went wrong, the leader's
  row is what the network was told last, or its one handler will make it so.
  `SitesAgree` and `Located` are what these say when all is quiet.
* `AuC`: `AloneInv`: without overlap one request is open at a time, no copy is on
  its way to its site, and what it has read is there still. `LeadInv`: without
  overlap or loss one site leads; nobody else sends, every other row will be the
  leader's once the copies it was sent are stored, and the leader's SQN is
  beyond all that were issued (unless a cause lowered it). The next request
  may come at any site, since by then nothing is on its way. `SitesAgree` is what
  `LeadInv` says of empty queues, and `VectorsDistinct` follows as a vector takes
  the leader's SQN. `ResyncInv` carries the SQN the USIM reported to the row and
  from there to the vector.
* `DiameterService`: `PlaceInv`: a request on its way is at one of the five places,
  is unanswered, and its answer only ever where its own address leads to;
  `OnceInv`: it is there once (no list holds it twice). Without them a copy of a
  request could be answered after the first, which `Exchange` forbids. `AddrInv`:
  connections keep their addresses, so that what was mapped once stays mapped.
  Each step is then an `Ask`, an `Answer`, a `Refuse`, a `Drop` (a batch, a queue
  with its connection) or a stutter of `Exchange`. `TableInv` follows each
  connection from `Connect` to its end against its row in `activePeers`, with
  what a `Prune` in between may take and which row of a host is the newest.
  `ServedInv`: a request without a cause is answered, or at one of the five
  places, or its connection is ending; its row is still in the table when its
  batch needs it.
* `ServingApn`: `TypeInv` adds to the types that a handler speaks of a session
  there is, that the numbers of a site's rows differ, and that one thread works on
  the head of a queue. `MutexInv`: without overlap, the handlers of a site are at
  work on different APNs and addresses, so that none disturbs what another has
  found (`OwnInv`: the row a handler has found is there still, and is its
  session's if it is to be removed) or done so far (`StageInv`: after the pruning
  no row has the address, before the insertion none has the APN, at the end the
  row is there or gone). `NoDuplicates` and `ClearsOwn` follow. `RowsFollow` speaks
  of quiet states only and says nothing of how a copy or a handler gets a row
  there; `SyncInv` does, as long as nothing has gone wrong. A site will have a row
  (`Will`) if it has it and nothing in a queue to it takes it, or if a queue
  brings it and nothing behind takes it again. `SourceOK`: what is about one APN or
  address comes from one site, so that one queue decides. `FollowOK`: all sites
  will have the same rows, those of the accepted sessions, but for what a handler
  of a request is about to change (`Touched`) or a termination has yet to look at
  (`Going`). `SentOK`: before a session is accepted, every site has the row or a
  copy of it on its way. What an API thread does with the head of a queue changes
  nothing of this: the row is there already in `Will`.
* `RxCalls`: `NamedInv` adds to the types that a handler at work has its call, and
  one that asks the PGW its Gx session. `TruthInv` and `OwnInv`: unless RARs of one
  Gx session overlapped, a waiting handler meets on its session its own RAR, its
  own answer, and answers it had seen before it sent (`old`), never another's;
  `RefusedOwn` follows. `EndedInv` holds of each call that has no cause. It has one
  handler at most, and what that has read of the row is still true
  (`HandlerInv`). It is the active session only while it is on (`ActiveInv`). A RAR
  that installs is awaited, and one that removes finds the bearer (`RarInv`). And
  as long as there is a bearer, the column, a handler or a RAR that removes it is
  there to see to it (`BearerInv`); without the last, a call could be over with
  nobody left who knows of its bearer.
* `Emergency`: `TypeInv` adds to the types that a handler, a row and a copy name
  sessions there are, that the numbers of a site's rows differ, and that one
  thread works on the head of a queue. `RowsInv`: without overlap, the handlers of
  a site, and those of requests at any site, are at work on different UEs and
  addresses, and of what a request is about no copy is on its way from another
  site; a UE then has one row at a site, of one session, and what a handler has
  found there is as it was (`OwnInv`), so that the columns it writes are all of one
  session. `HomeInv`: the open sessions with one address are one UE's; the row
  that an AAR finds by its address may be another UE's, but then that UE's session
  is over, and the PGW refuses the RAR. `FreshInv`, as long as nothing is lost: a
  row is of the last session its UE has asked for, unless the CCR-I of a later one
  is not stored and queued yet (`Settling`) or a copy about the UE is on its way to
  the site (`Pending`), and of those copies the last is of the last session. An AAR
  that finds a row when neither is the case, as it must without overlap, has the
  session that calls: both are the last that the UE has asked for.
  `Known` speaks of quiet states and `Ceased` of calls that are over, so both need
  what is true of a UE while something is under way for it. `SyncInv`, as long as nothing is lost: the
  copies about a UE all come from one site (`SourceOK`), so that the last of them
  decides, and a site will have (`Will`) the columns that it sets, or, if there is
  none, those of the row it has. All sites will have the same rows (`Agreed`), but
  for a UE whose change is stored at one site and not yet sent on; and of that UE
  they will have nothing but what its handler is at work on (`CopyingOK`), so that
  the copy settles it everywhere. `RightInv`, as long as there is no cause at all,
  says what these rows are: each is of a UE that has a session or is getting or
  losing one (`Accounted`), a UE whose session is up, or about to be accepted, has
  one at every site (`Provided`), a bearer that the PGW has answered for and that no
  RAR on its way removes (`Sure`) is of a call that is on, of its UE's session, and
  the row names both everywhere (`Borne`), and no other UE's open
  session has the address in a row (`IpRight`). Handlers keep that by what each of
  them knows: what removes a row works on a UE whose session is not up
  (`ClearRight`), an AAR serves its UE's only call (`CallRight`), and an STR finds
  the session that has the bearer (`StrRight`). Without `Borne` an STR could miss
  the row, or find one of an older session, and leave the bearer; without
  `IpRight` an AAR could write its call to another UE's row.
  Both speak of whatever columns a site will have, without a bound, so TLC does not
  evaluate them: it checks what follows, `Known` and `Ceased`.

What is only model-checked: the liveness properties (`SilentReleased`,
`HashSettles`, the liveness of `KeepsPromise`) and `NeverStuck`, since fairness and
ENABLED are out of this prover's reach. Every other safety invariant and action
property that a passing run checks is proved. Induction over data is
out of the prover's reach too, so nothing is claimed for all inputs of a recursive
definition (the modules use none).

## 7. What is not modelled

* Cryptography (milenage, TUAK, S6a key derivation, EAP-AKA MACs): a vector is a
  number; what matters is which challenge an answer was made from.
* Byte encodings of GTPv2, IPA, GSUP, Diameter and RADIUS, except where a message
  that cannot be encoded or decoded changes what happens (`Garble`, the RTR that
  cannot be built).
* `HssLocation` leaves out the P-CSCF columns (those of one site are in `RxCalls`),
  NOA, MAR and LIR, realms and timestamps (written together with the name they
  belong to), the DSR to the old MME (a setting, no answer awaited), and webhooks.
* `DiameterService` leaves out the watchdog requests it can send (off by default),
  the requests the HSS sends (their answers are in `RxCalls`), and the log of
  active connections.
* `ServingApn` and `RxCalls` leave out the charging rules and the SDP they are made
  of: a RAR installs or removes a bearer. `ServingApn` has one subscriber; two meet
  only where they share an address, as two APNs do here.
* Registered UEs' emergency calls (`registeredEmergencySubscriber`,
  `diameter.py:3752`) are in no module: for a UE that the HSS knows and that
  connects to the APN sos, the CCR-I stores a row of `SERVING_APN` and no emergency
  row, and the AAR takes the PGW from that row instead of the one of the IMS APN.
  `RxCalls` reads the row of the IMS APN only, `Emergency` has UEs that the HSS
  does not know.
* `Emergency` leaves out an answer to one RAR that is taken for that to another
  (`"shared"` of `RxCalls`), since its workers do not share the list of answers.
  It also leaves out a home IMS subscriber whose address is in a stale
  emergency row, and a CCR-I without an IMSI, which makes the handler fail.
* The operation log is written in the transaction of the change it is about. Its
  roll-back is an operator's call on one row, and what can go wrong in it lies
  in values that are quoted and compared as text. EIR look-ups are pattern
  matches; an IMEI binding is a row that is written once.
* `RadiusBridge` leaves out packets charon would not send and the settings that
  switch checks off.
* The database service, logs, metrics, schema upgrades, start-up, the SIP
  configuration, and the VoWiFi simulator: output, one-shot work or third-party.
