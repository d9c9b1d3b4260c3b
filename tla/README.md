# A TLA+ verification of mqproxy

mqproxy carries application flows over one multipath QUIC tunnel between a client and a server
process. Both are *sans-IO* programs: a single-threaded **shard** (`mq-runtime`) owns all sockets,
streams and timers and calls an **app** (`mq-proxy`, client or server) back, one callback at a time;
a **driver** does the system calls; a **transport** facade (`mq-transport`) wraps xquic. Nothing
runs in parallel inside a process, so what is hard is not data races but *order*: which of two
queued events, timers, operation results and peers' actions comes first, and what is still on its
way when something ends.

## Inventory

| Part | State it keeps | Operations | What is hard |
|---|---|---|---|
| Flow relay (`shard/relay.rs`, `ringbuf.rs`) | two buffers, level latches, half-close flags, end reason | TCP read/write commits, stream events, pump, settle | half-close in both directions, a reset while not reading, events after the end |
| Shard operations (`shard/mod.rs`, `inputs.rs`) | dials, resolves, socket opens, lists of own completions, the socket cap | start, cancel, driver result, `drive` step 3 | a result after a cancel, a cancel during delivery, the cap shared by four kinds |
| Shard routing, app sockets (`routing.rs`, `tcp.rs`, `timers.rs`, `tx_ring.rs`) | who owns a stream or socket, `dead_streams`, transmit rings | dispatch, sweep, app reads and writes, transmit | late events, coalescing |
| Connection admission (`ffi/trampolines.rs`, `conn.rs`, `slots.rs`) | slots, two counters, eviction and deadline marks | accept, refuse, create, close, drive | the cap is checked twice and goes stale in between; evicted connections linger |
| Transport facade (`stream.rs`, `events.rs`, `datagram.rs`, `txq.rs`) | stream slots, event queue with coalescing flags, datagram and transmit queues | send, recv, reset, notify | abandoned streams, queue limits |
| Client (`client/mod.rs`, `tunnel_h3.rs`, `pending.rs`, `backoff.rs`, `ingress_glue.rs`) | one connection, timers, ingress, pending queue, opens, UDP availability, associations, H3 tunnel | connect, authenticate, reconnect, request, open, associate, shutdown | everything can end everything else |
| Client UDP sessions, fragments, paths (`udp_session.rs`, `udp_assoc.rs`, `udp/`, `paths.rs`) | sessions by sid and stream, queues; path slots | open, answer, datagrams, retry | datagrams against stream messages, a replaced connection |
| Server (`server/mod.rs`, `server/udp_session.rs`) | connections with budgets, data streams with phases, dials, sessions, timers | authenticate, admit, dial, answer, UDP sessions, shutdown | results for streams that are gone; five maps that must agree |
| Server HTTP bridge and origin pool (`server/gateway`, `server/origin`) | requests, origin connections, pools, bodies | intake, dial, reuse, pump, errors | backpressure, reuse, partial failure |
| Client gateway, exchanges, MITM front (`client/gateway`, `client/exchange`, `client/mitm`) | one exchange per request, front connections | head, body, response, cancel | two independent ends per request |
| HTTP/3 layer (`mq-h3`), TLS pipe (`tls_pipe`) | send and receive halves of a request; buffers around rustls/h2 | send, recv, reset, FIN | edge-triggered wake-ups |
| Driver (`driver/*`) | poll registrations, deadlines, budgets | poll loop | budgets and re-arming |
| Codecs (`mq-wire`, `mq-http`, `ingress`) | none | encode, decode, parse | boundaries |
| Command line, config, logging, nft, Linux glue | none that interleaves | | not modelled |

The correctness of the core: no byte of a flow is lost or reordered and it closes gracefully only
when complete; every socket, stream, timer and operation has exactly one owner and goes away with
it; counters are what they count; nothing is served before authentication; the process exits when
it is told to and does not get stuck.

## Modules

| Module | Models | Kind |
|---|---|---|
| `RingBuf` | `RingBuf` of `mq-transport-api` | operators |
| `FlowPipe` | what a flow promises: two one-way pipes with half-close | abstract specification |
| `Relay` | `shard/relay.rs`, `settle_relay`, `pump_relays`, `dispatch_events` | state machine, implements `FlowPipe` |
| `ShardOps` | operations, cancels, the socket cap, `drive` step 3 | state machine |
| `ConnAdmission` | admission, eviction and accounting of server connections | state machine |
| `ClientTunnel` | the client app | state machine |
| `ServerCore` | the server app | state machine |
| `UdpRelay` | UDP sessions of both ends, their streams and datagrams | state machine |
| `UdpFragments` | MSS cache, `split`, `packet_id`, `Defrag` | state machine |
| `Handles` | generational slots, the event queue and its flags, the claim of the engine | state machine |
| `TxQueues` | transmit queues with quota and high water, the ring of an app socket | two state machines |
| `Paths` | the extra paths of a client connection | state machine |
| `DriverLoop` | the poll loop over an edge-triggered poller | state machine |
| `DriverDials` | dials, lookups, UDP opens and deadlines of the driver | state machine |
| `Exchange` | the exchange both client fronts share | operators on a record |
| `FetchFront` | the client's HTTP/1 fetch front over an exchange | state machine |
| `MitmConns` | the MITM connection table | state machine |
| `MitmStream` | one h2 stream of a MITM connection over an exchange | state machine |
| `H3Request` | one HTTP/3 request of `mq-h3`, either end | state machine |
| `GatewayRelay` | one request at the server's gateway | state machine |
| `OriginPool` | the pool of origin connections that requests share | state machine |
| `TlsPump` | the bytes of one origin connection between socket, rustls and hyper | state machine |
| `UriRules`, `HeaderRules` | names, paths, targets; header sections and the heads both ends rewrite | algorithms against references |
| `WireFrames`, `IngressParse` | control frames; SOCKS5 and HTTP CONNECT requests, cut anywhere | algorithms against references |
| `Lists` | keeping the entries of a list that pass a test, as a recursive function | operators |
| `ListLemmas` | facts about lists without repetition, filtered lists, least numbers and counting | TLAPS |
| `RelayProofs`, `ShardOpsProofs`, `ConnAdmissionProofs`, `ServerCoreProofs`, `ClientTunnelProofs`, `UdpRelayProofs`, `OriginPoolProofs` | inductive invariants and theorems | TLAPS |
| `MC_*` | the instances TLC checks | |

**Relay.** A handler of the shard runs to its end, so handlers are functions on a flow
`[r, s, k, dead]` (the `Relay` struct, the xquic stream, the kernel socket, the `dead_streams`
entry) and an action applies one: `TcpRx` is `tcp_rx_commit` followed by `settle_relay`, exactly as
`inputs.rs` calls them. `DriveBegin`, one `Dispatch*` per queued event and `DriveEnd` are one
`drive`. A byte is a count: the buffer's head and tail are kept (the buffer is linear, and its
space is what lies behind the tail), the contents are not. The socket and the stream are external:
they have what the code can observe of them. `shut_wr_requested` and `tcp_write_shut` are one flag,
because the shard performs the request in the handler that makes it.

**ShardOps.** The app is *any* app: whenever a callback runs it may start or cancel any operation.
The lists `drive` delivers are taken out whole (`limited`, `limited_udp`) or one by one
(`resolved`), as in the code. An operation id is used once.

**ConnAdmission.** One slot record per connection of xquic. `DriveConns` is a whole
`Transport::drive`; the actions between are the FFI callbacks xquic makes. `MaxAdmitted` bounds the
order stamps of admissions. Its names carry an A (`AInit`, `ANext`, `ASpec`) so that `MC_Live` can
extend it beside `ShardOps`.

**ClientTunnel.** One action per callback of `impl App for Client` and branch of it. A socket names
its data stream (it opens at most one). Connection ids are used round robin from `1..MaxGen`, so
that a timer or an event of an older connection is told apart from the current one. Parsers are
nondeterministic. `reconnect` is a variable that never changes, so that one run covers both
settings.

**ServerCore.** One action per callback of `impl App for Server`. `held`, `dials`, `resolves`,
`socket_opens`, `udp_socks` are kept apart from the phases, as in the code: that they agree is a
property (`MapsAgree`), not the model's shape. `ops`, `socks`, `relays` and `usocks` are what the
shard still holds for the app.

**UdpFragments.** One direction of one session, the same code on both sides. The sender's cached
MSS wears out while the connection's MSS changes under it; `datagram_send` refuses what does not fit
and may refuse the rest. Fragments carry the number of their packet, which the code does not: it has
`packet_id`, that number modulo 2^16. The slots are kept in the order they were last fed, which is
what the code's `seq` stamps are compared for. A header that `split` cannot produce (`frag_count` 0)
is left out: `feed` rejects it without touching a slot.

**UdpRelay.** The client's DST tables and sessions, the server's sessions and pre-OPEN buffer, and
between them one stream per session (an OPEN, a RESP, a reset in either direction) and datagrams.
Any datagram of a session may arrive at any later time of the connection, before its OPEN or long
after its end. Sids wrap at `SidMod`. The times the code compares are flags: a refusal is recent or
not, a parked datagram within its TTL or not, a session active since its idle timer was set or not
(the flush at `Live` happens at the instant the timer is set, so it does not count). The server's
side of a connection starts and ends with the client's, because a later connection has state of its
own; `ServerCore` has the reaping of the old one. The answer to AUTH makes UDP available before the
control stream is drained, and issues the waiting sessions after it: when the drain fails the client
closes the connection in between (`AvailableBroken`), and the sessions wait on until `ConnClosed`.
`closing` is that flag; what the answer does otherwise is `ClientTunnel`. The source lock of an
association and the byte limits of the queues are left out.

**Handles, TxQueues, Paths.** A slot has a generation, an id names both, and everything the
application or a queued event holds is an id; that an id never reaches another object, that a level
event is queued at most once while its flag says so, and that the last event of an object is its
close are properties. `TxQueues` keeps the lengths of packets; its second machine is the ring of
records a socket of the application sends from. A queue's turn is the peek, which moves the cursor
before the send: a turn the socket blocks is lost. `InTurn` is therefore about turns and not about
service: no queue is passed by more often than there are others, but a socket that blocks at the same
queue in every round sends nothing of it. `Paths` has the retry timers, late socket results
and the replaced connection; the first path belongs to the connection and is never retried.

**DriverLoop, DriverDials.** A step is one system call or one phase of an iteration, the kernel moves
in between. An edge is raised when data arrives or room comes back after a call that found none, and
never again for what is already there: that the loop never sleeps on what it could do (`NoLostEdge`)
rests on its latches. In `DriverDials` a deadline, a cancel and a result may fall into one
iteration.

**Exchange, FetchFront, MitmStream.** The exchange is a record with functions on it, as the code's
struct with its methods; each front carries it in its own record and applies them. Both ends of an
exchange (the local socket or h2 stream, and the H3 request) move independently. The H3 request is
external here; `H3Request` is the layer that serves it.

**MitmConns.** Peek at the ClientHello, go live or hand the socket over untouched, pump within a
pass budget, idle and watchdog timers, ordered close. Streams and exchanges are counted.

**H3Request.** Methods are functions on `[q, c, w, x, out]` (the `Req`, the connection's part of it,
h3wire, the transport stream, the events put out). Trailers and unidirectional streams are left out.

**GatewayRelay, OriginPool, TlsPump.** The same code cut along its three questions: what happens to
one request between H3 and an exchange; which requests have which connections, when one may be
retried and who closes a socket; and how bytes and wake-ups move between one socket, rustls, the pipe
and hyper. hyper and rustls are external: whatever a poll may find, it may find. A sender may turn
out closed or not ready at any time, and an origin may lower its stream limit (`MaxStreams` is the
largest it ever allows). One thing is assumed of hyper: its handshake future is ready when it is
first polled, in the pump that made it (`HandshakesOver`). Without that, a TLS error that met a
pending handshake would remove the connection in class E, which drops the waiting requester and tells
the gateway nothing.

**UriRules, HeaderRules, WireFrames, IngressParse.** The machine picks an input, runs the code's loop
on it (for frames and requests with the bytes cut anywhere) and stops; the properties compare the
result with a definition that says what it should be. Text is a sequence over a small alphabet with
one character for each class the code tells apart; a header value is one of a few with the lengths
that matter. Length caps are scaled down, varint widths are the real ones. The two ends do not agree
on every head: the client forwards a path with `"`, `<`, `>`, `{`, `}`, a backtick or bytes that are
not UTF-8, and the server answers it with `bad-target`. `EndsAgreeOnHeads` says that such a path, a
control byte in a value and a wrong token are all the server refuses a rendered head for. A reader that has a whole frame takes
it whether or not the FIN came with it, except the client's reader of UDP_SESSION_RESP, which takes
an OK with a FIN for a session the server has already ended (`OkAtFin`).

**Instances.** Parts that share no state run side by side in one MC module: `part` says which one a
behaviour is of, the variables of the others rest. The properties of such a module are
`part = "x" => P`, or P itself where it holds of the resting state.

## Runs

| Run | Bounds | Shows |
|---|---|---|
| `relay` | buffers of 2, 2 bytes up, 3 down, all faults | `TypeOK`, `BytesConserved`, `CleanComplete`, `LateEventsDropped`, `FlowLives` (the pump quiesces, a reset is noticed), `ImplementsPipe` |
| `client_tunnel` | 3 sockets, 2 pending places, 2 connection ids, both reconnect settings, H3 on | `TunnelSound` (one owner per socket, the auth timer is the current connection's, never wedged, a closed client admits nothing), `TunnelLives` (shutdown exits, a lost tunnel is tried again), `RequestsDecided` |
| `live` | operations: 3, cap 1; admission: 3 slots, cap 1, backlog 1; server: 2 connections, 2 streams, 1 sid, budget 2; relay: buffers of 1, 2 bytes each way, no faults | `OpsSound`, `OpsLive`, `AdmissionSound`, `PlacesComeBack`, `ServerLives`, `RelayLives` |
| `fronts` | fetch: bodies of 3, socket buffer 3; gateway: upload buffer 1; MITM: 2 sockets, cap 1; pump: pipe 2; server: 1 connection, 3 streams, 2 sids, budget 3 | `FetchSound`, `GatewaySound`, `ConnsSound`, `PumpSound`, `ServerSound` |
| `transport` | transmit: 2 connections, quota 3, total 3, ring of 7; handles: one slot of each kind, 2 generations; paths: 2 extra, 2 connections; loop: one socket of each kind, budget 1; dials: 2, one resolver slot | `TransmitSound`, `HandleSound`, `PathSound`, `LoopRuns`, `DialsEnd` |
| `udp_relay` | 3 sessions over time, 2 at once, sids modulo 2, 3 targets for 2 DSTs, 1 parked datagram | `SessionMaps`, `SessionEnds` |
| `udp_relay_live` | 3 sessions, one at once, 1 parked datagram | `SessionsSettle` |
| `text` | names of 4, paths of 6, targets of 3 characters; up to 2 extra fields per request, up to 4 per response; ingress cap 16, hosts of 2, frame cap 12; 4 packets, ids modulo 3, 2 slots, 3 datagrams in flight | `NamesAndPaths`, `HeadsTrue`, `FramesRead`, `IngressServed`, `FragmentsSound` |
| `mitm_stream` | bodies of 2, window 1, upload 2 | `StreamHonest`, `StreamLives` |
| `origin_pool` | 2 requests, 2 connections, 1 stream each, 2 faults | `RequestsKept`, `SocketsKept` |
| `h3` | first read 2, upload 2, body 1, 2 faults | `GatewayTold`, `EndsAreHonest`, `CompleteSurvives` |
| `shard_ops_cancel` | 2 operations, cap 1 | the finding below |

Why the bounds are enough: a buffer of 2 with 3 bytes has the partly consumed buffer whose tail is
used up (space 0, not full), short sends and short writes; one place more than the cap makes every
cap and backlog overflow if it can; two connections (or connection ids) give an old and a current
one; one parked datagram fills the pre-OPEN buffer and refuses the next (the theorems of `UdpRelay` are
for every buffer length, and two pass as well, in four times the states); three streams with a budget of three (one is the control stream) reach the budget with one
stream over it; ids and sids that wrap within the bound show what a wrap does and that nothing else
does it; two generations of one slot are a stale handle and its successor; two faults are a failure
and a failure of its clean-up. Symmetry is used in `udp_relay`, `origin_pool` and `transport`, which
check no liveness.

Deadlock is checked in `relay` and `shard_ops_cancel`. Elsewhere a behaviour really may stop: the
process exits, or the packets, sessions, faults or the one input of the bound are used up. That
nothing stops *early* is stated as properties there (`NotWedged`, `RelayNotStuck`, `FetchNotStuck`,
`StreamNotStuck`, `NothingStranded`, `NoLostEdge`, `NoLostWakeup`, and the liveness properties).

### Fairness

- `Relay`: the shard is driven as long as there are events or runnable relays (`has_runnable_work`
  makes the driver poll with a zero timeout), and a drive ends. `RelayLives` adds that when poll
  could report a socket, or xquic grant credit or close a finished stream, again and again, something
  of that happens.
- `ConnAdmission`: the transport is driven (its `next_timeout` includes the deadlines), a deadline
  falls due, and xquic reports the close of a connection that was closed.
- `ClientTunnel`: timers fire, a connection that was closed reports `ConnClosed`, and so does the H3
  connection once the client shuts down. Nothing is assumed of the server or of applications.
- `ServerCore`: as the client.
- `UdpRelay`: a connection attempt ends one way or another, what a session stream carries arrives
  while the connection lasts and is not being closed, a connection the client closed reports
  `ConnClosed`, and the RESP deadline fires. Nothing is assumed of datagrams.
- `ShardOps`: `drive` runs, and the driver completes an operation it was handed (strong fairness,
  because results are taken in between drives).

## Theorems

All proofs are for every value of the constants under the ASSUME of the component's module:
`RelayAssumption` (the buffer is not empty, traffic is any number of bytes), `OpsAssumption`,
`AdmissionAssumption` (finite sets, caps are naturals; a cap of 0 connections means "no cap", as in
the code), `ServerAssumption` (finite sets, `None` outside them, a budget of at least one, which is
the control stream), `ClientAssumption` (finite sockets, any queue length, at least two connection
ids, so that a new connection differs from the last), `UdpAssumption` (finite sets, limits of at
least one, no more sessions than sids, `None` not a session record), `OriginPoolAssumption` (finite
requests, any number of connections and failures, at least one stream per h2 connection, `None` not
a waiting request, a connection or a protocol).

| Theorem | States | For |
|---|---|---|
| `RelayTypeOK`, `RelayConservesBytes`, `RelayCleanComplete` | `Spec => []P` | every buffer size and number of bytes, all faults |
| `RelayImplementsPipe` | `Spec => ImplementsPipe` | the same |
| `RelayDropsLateEvents` | `Spec => []LateEventsDropped` | the same |
| `OpsInvariant`, `OpsTypes`, `OpsAreSound` | `OpsInv`, `TypeOK`, `OpsSound` | every set of operations, every cap |
| `CancelDropsResult` | the action property `CancelledResultDropped` | the same |
| `AdmissionInvariant`, `AdmissionIsSound` | `AInv`, `AdmissionSound` | every number of slots, cap and backlog |
| `AuthedStays` | the action property `AuthedNotEvicted` | the same |
| `ServerInvariant`, `ServerTypes`, `ServerIsSound` | `SInv`, `TypeOK`, `ServerSound` | every number of connections, streams, sids, every budget and session limit |
| `TunnelInvariant`, `TunnelTypeOK`, `TunnelIsSound` | `CInv`, `TypeOK`, `TunnelSound` | every number of sockets, pending places and connection ids |
| `UdpInvariant`, `UdpMapsSound`, `UdpEndsSound` | `UInv`, `SessionMaps`, `SessionEnds` | every number of associations, targets and sessions, every sid space and limit |
| `OriginInvariant`, `OriginRequestsKept`, `OriginSocketsKept` | `OInv`, `RequestsKept`, `SocketsKept` | every number of requests and connections, every stream limit, all failures |

Why the invariants are what they are:

- **Relay, `IInv`.** That a FIN is accepted only behind the last byte needs that `readEof` implies
  the kernel had nothing left; that SHUT_WR follows the last byte needs that `finSeen` implies the
  whole stream was read; a graceful end needs that the relay's own flags (`finSent`, `writeShut`)
  agree with what the stream and the socket have been given. Handlers are compositions of functions
  on a flow, so the proof is one lemma per function ("keeps `Good`"), composed per action.
- **Relay implements FlowPipe.** `IInv` gives `PipeState`, what a state says of the two pipes. A
  step of the environment only makes the sources grow; a handler of an open flow only makes the sinks
  grow (`NextGrows`, from the per-function lemmas); after the end the sinks stay. With `PipeState`
  before and after, that is a `Move` or an `Ended` step of `FlowPipe`.
- **Late events, `EInv`.** A `StreamClosed` is the last event of its stream in the queue, followed
  by `ConnClosed` alone (`Ordered`); a retired relay whose stream is still known to xquic has an entry
  in `dead_streams`; and the entry stays until that last event. Without the order of the queue an
  event could come after the one that removes the entry.
- **ShardOps, `OpsInv`.** "Completes once" needs that an operation is in one place only (`Separate`:
  three tables, four lists, none with a repetition) and that what is nowhere has completed or was
  cancelled (`Tracked`). The cap counts cardinalities of disjoint sets, hence `Separate` again.
  `TakenOut` says that a list is taken out only in the step that delivers it. `CancelDropsResult`
  needs besides that a cancelled operation is in no table.
- **ConnAdmission, `AInv`.** `AdmissionSound` needs the types: its caps are differences of the
  cardinalities the counters stand for, which each callback changes by one. `AuthedStays` needs
  besides that an eviction's close waits only on a connection marked as evicting (`EvictMarked`).
- **ServerCore, `SInv`.** `ServerSound` speaks of sets; inductive is its reading stream by stream
  (`StreamInv`: phase and membership in each table), session by session (`SessionInv`: `udp` and the
  streams name each other) and connection by connection (`ConnInv`). An action that ends one stream
  then disturbs one row of each. `BudgetExact` compares the budget with a cardinality; the lemmas
  about it add or remove one stream, and the close of a connection drops its whole set.
- **ClientTunnel, `CInv`.** `NotWedged` needs that exactly one reconnect is armed whenever there is
  neither a connection nor a reason to stop, and that a control stream without an answer is under its
  deadline or being closed (`Armed`); `SocketsOwned` needs that the pending queue is a list without
  repetition within its bound (`QueueOK`) and that the five owners are disjoint (`Owned`).
  `ClosedInv` ties `terminal` and `shutting_down` to the UDP availability.
- **UdpRelay, `UInv`.** That the two ends agree on a session needs the life of its stream
  (`StreamInv`): which end holds the session, which of OPEN, RESP and resets are on their way, and
  what that says of the phases, so that an end without a counterpart always has the message coming
  that will tell it. That a datagram reaches another session only across a wrap needs that the
  counts sessions are made at grow (`Numbered`) and that everything that bears a sid (tables,
  datagrams, parked packets) belongs to a session made with that sid (`NetInv`, `ServerInv`,
  `CrossInv`); two such sessions are then a multiple of the modulus apart. A session waits only while
  the answer to AUTH is unknown, or on a connection that is being closed. That a free sid is found
  within one round of the counter is `RestComesUp`. `Quiet` says what is left without a connection
  that relays UDP: the client's tables alone.
- **OriginPool, `OInv`.** The operations call each other on the bridge's record, so the invariant is
  a predicate on that record (`BInv`) and most lemmas are about values. Connection by connection:
  the socket (`SocketOK`), the handshake (`PhaseOK`: a connection in its handshake has a requester
  and nothing else), the account of records (`CountOK`). Request by request: the one place it is in,
  which `by_h3` leads to (`PlaceOK`); that the gateway's state agrees with having a place
  (`OwnerOK`); and what may still be sent (`WireOK`). A retry is safe because an unsent record on a
  reused connection has put nothing on the wire, and a request that waits either never did or is
  stored, complete and empty. Within an operation the request it works on is off the bridge while
  everything else keeps the invariant (`But`, `Off`). Between pumps the sweep's timer is armed
  exactly while a connection lives.

`ListLemmas` has the facts about lists that `ShardOpsProofs`, `ClientTunnelProofs` and
`UdpRelayProofs` share: append, tail, removal and cut of lists without repetition, what `Filter`
keeps. The few inductions over numbers take the least number of a set of counterexamples
(`LeastNumber`), because an induction theorem with a predicate as its parameter cannot be
instantiated.

### Only model-checked

All liveness, because the prover has no fairness and no ENABLED: `FlowLives`, `RelayLives`,
`OpsComplete`, `PlacesFreed`, `ServerLives`' leads-to parts, `TunnelLives`, `RequestsDecided`,
`SessionsSettle`. The comparisons of an algorithm with a reference
(`UriRules`, `HeaderRules`, `WireFrames`, `IngressParse`, the sums in `TxQueues`) need induction over
data, with an operator as the parameter. The safety of `UdpFragments`, `Handles`, `Paths`, `DriverLoop`,
`DriverDials`, `FetchFront`, `MitmStream`, `MitmConns`, `GatewayRelay`, `TlsPump` and `H3Request` is
checked on the instances above and not proved; the first worth a proof would be `PathsSound`,
`NoSocketLeak` of `DriverDials` and `EndsAreHonest`. Where these modules have a CASE whose guards overlap,
it is meant, and TLC evaluates it, in the order it is written in; in the modules with theorems such
choices are IF chains.

## Finding

`drive` takes the whole list of dials refused at the cap (and of UDP opens) out of the shard before
delivering it. A callback in that loop that cancels a later one of them cannot prevent its delivery,
while `Cx::cancel_dial` is documented to drop the result; for resolves the code delivers one at a
time for this very reason. The two apps tolerate it, because they look the operation up in a map of
their own that the cancel has cleared. Run `shard_ops_cancel` shows it; `CancelledResultDropped`
shows that everything else that is cancelled stays silent.

## Left out

Hazard without a property: the cached MSS of `udp/send.rs` is refreshed by accepted datagrams only;
`UdpFragments` models the cache, but the code promises no recovery that could be stated.

Not modelled: command line, configuration files, logging, metrics text, nft set-up and Linux glue
(start-up code and formatting); certificate forging and key files (`leaf.rs`, `ca.rs`: cryptography);
the generated bindings; integration harnesses and test support; of the UDP lane the SOCKS5 header,
the source lock and the byte limits of queues; of `mq-h3` trailers and unidirectional streams; of the
TLS pipe its executor, beyond the dirty flag. Kernel, xquic, rustls, hyper, h2 and h3wire are
external: they do what the code can observe of them.
