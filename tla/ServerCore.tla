----------------------------- MODULE ServerCore -----------------------------
(***************************************************************************)
(* The server application of mq-proxy (server/mod.rs) with its UDP         *)
(* sessions (server/udp_session.rs): connections and their authentication, *)
(* the data streams the app holds and their budget, dials, the handoff to  *)
(* a relay, the sessions' resolve, socket and idle timer, shutdown and     *)
(* exit.  Every action is one callback of the shard.  The gateway of H3    *)
(* connections and the datagrams of a session are other parts.             *)
(*                                                                         *)
(* A stream dials, resolves or opens a UDP socket at most once, so s also  *)
(* names its operations and its sockets.                                   *)
(***************************************************************************)
EXTENDS Integers, FiniteSets, FiniteSetsExt

CONSTANTS
  Conns,          \* bound: the connections ever accepted
  Streams,        \* bound: the streams ever held, control streams apart
  Sids,           \* bound: UDP session ids
  STREAM_BUDGET,
  MAX_SESSIONS_PER_CONN,
  None,           \* no stream, no connection, no session
  udp_enabled     \* cfg.udp_enabled (--no-udp is FALSE)

ASSUME ServerAssumption ==
  /\ IsFiniteSet(Conns) /\ IsFiniteSet(Streams) /\ IsFiniteSet(Sids)
  /\ None \notin Conns \cup Streams \cup Sids
  /\ STREAM_BUDGET \in Nat \ {0}
  /\ MAX_SESSIONS_PER_CONN \in Nat
  /\ udp_enabled \in BOOLEAN

VARIABLES
  conns,         \* the connections: see ConnRecords
  data,          \* the data streams the app holds: see DataRecords
  conn_timers, request_timers, idle_timers,  \* Tm: Conn(c), Request(s), UdpIdle(c, sid)
  dials,         \* streams whose dial the app waits for
  udp,           \* Conn::udp: the stream of each sid, or None
  sphase,        \* the phase of the session admitted on a stream
  resolves, socket_opens, udp_socks,  \* streams, by what their session awaits
  shutting_down, exit,
  \* What the shard holds for the app:
  dial_ops, resolve_ops, socket_ops,  \* streams with a live operation
  socks,         \* streams whose dialled socket is open and the app's
  relays,        \* streams handed to start_relay
  usocks         \* streams with an open app UDP socket

sessions == <<udp, sphase, resolves, socket_opens, udp_socks, usocks>>
life == <<shutting_down, exit>>
timers == <<conn_timers, request_timers, idle_timers>>
ops == <<dial_ops, resolve_ops, socket_ops>>
vars == <<conns, data, timers, dials, sessions, life, ops, socks, relays>>

NewConn ==
  [st |-> "new", proto |-> "Raw", ctrl |-> "none", held |-> 0, closing |-> FALSE]

NewData == [phase |-> "new", conn |-> None, sid |-> None]

Init ==
  /\ conns = [c \in Conns |-> NewConn]
  /\ data = [s \in Streams |-> NewData]
  /\ conn_timers = {} /\ request_timers = {} /\ idle_timers = [c \in Conns |-> {}]
  /\ dials = {}
  /\ udp = [c \in Conns |-> [sid \in Sids |-> None]]
  /\ sphase = [s \in Streams |-> "none"]
  /\ resolves = {} /\ socket_opens = {} /\ udp_socks = {}
  /\ shutting_down = FALSE /\ exit = FALSE
  /\ dial_ops = {} /\ resolve_ops = {} /\ socket_ops = {}
  /\ socks = {} /\ relays = {} /\ usocks = {}

Up == {c \in Conns : conns[c].st = "up"}

Held == {s \in Streams : data[s].phase \notin {"new", "gone"}}

HeldOf(c) == {s \in Held : data[s].conn = c}

SessionsOf(c) == {sid \in Sids : udp[c][sid] # None}

Authed(c) == conns[c].ctrl = "Settled"

----------------------------------------------------------------------------
(* drop_data for the streams of D: release the budget entry, cancel the    *)
(* timer or the operation, dispose of the socket, end the session.         *)
(* end_session is the part about sessions.                                 *)

EndSessions(D) ==
  /\ udp' = [c \in Conns |-> [sid \in Sids |-> IF udp[c][sid] \in D THEN None ELSE udp[c][sid]]]
  /\ sphase' = [s \in Streams |-> IF s \in D THEN "none" ELSE sphase[s]]
  /\ resolves' = resolves \ D
  /\ socket_opens' = socket_opens \ D
  /\ udp_socks' = udp_socks \ D
  /\ usocks' = usocks \ D

(* The timers that go with the streams of D. *)
EndTimers(D) ==
  /\ request_timers' = request_timers \ D
  /\ idle_timers' = [c \in Conns |-> {sid \in idle_timers[c] : udp[c][sid] \notin D}]

(* Mutant: only dials are cancelled. *)
EndOpsDial(D) == dial_ops' = dial_ops \ D /\ UNCHANGED <<resolve_ops, socket_ops>>

EndOps(D) ==
  /\ dial_ops' = dial_ops \ D
  /\ resolve_ops' = resolve_ops \ D
  /\ socket_ops' = socket_ops \ D

(* release: the budget entries of c that the streams of D held. *)
Released(c, D) ==
  [conns[c] EXCEPT !.held = @ - Cardinality(D \cap HeldOf(c))]

GoneData(D) ==
  [s \in Streams |-> IF s \in D THEN [data[s] EXCEPT !.phase = "gone"] ELSE data[s]]

(* drop_data but for the streams' connections. *)
DropStreams(D) ==
  /\ data' = GoneData(D)
  /\ EndTimers(D)
  /\ dials' = dials \ D
  /\ EndOps(D)
  /\ socks' = socks \ D
  /\ EndSessions(D)

DropData(s) ==
  /\ conns' = [conns EXCEPT ![data[s].conn] = Released(data[s].conn, {s})]
  /\ DropStreams({s})
  /\ UNCHANGED conn_timers

(* respond_error: the stream retires with the response; a response that    *)
(* cannot be written drops it.  The session, if any, is freed first        *)
(* (refuse, take_session), and the operation is over.                      *)
RespondError(s) ==
  \/ /\ data' = [data EXCEPT ![s].phase = "Retiring"]
     /\ EndTimers({s})
     /\ dials' = dials \ {s}
     /\ EndOps({s})
     /\ EndSessions({s})
     /\ UNCHANGED <<conns, conn_timers, socks>>
  \/ DropData(s)

----------------------------------------------------------------------------
(* Connections.                                                            *)

(* close: once; the connection's timer is cancelled. *)
Closed(c) == [conns[c] EXCEPT !.closing = TRUE]

(* on_new_conn: while shutting down the connection is closed at once. *)
Accepted(proto) ==
  [NewConn EXCEPT !.st = "up", !.proto = proto, !.closing = shutting_down]

OnNewConn(c, proto) ==
  /\ ~exit
  /\ conns[c].st = "new"
  /\ conns' = [conns EXCEPT ![c] = Accepted(proto)]
  /\ conn_timers' = conn_timers \cup
       IF proto = "Raw" /\ ~shutting_down THEN {c} ELSE {}
  /\ UNCHANGED <<data, request_timers, idle_timers, dials, sessions, life, ops, socks, relays>>

(* on_conn_closed: the streams died with the connection, the relays in the *)
(* shard's sweep.                                                          *)
OnConnClosed(c) ==
  /\ ~exit
  /\ c \in Up
  /\ conns' = [conns EXCEPT ![c] = [NewConn EXCEPT !.st = "gone"]]
  /\ DropStreams(HeldOf(c))
  /\ conn_timers' = conn_timers \ {c}
  /\ relays' = {s \in relays : data[s].conn # c}
  /\ exit' = (shutting_down /\ Up = {c})
  /\ UNCHANGED shutting_down

(* on_new_stream with QUIC stream id 0: the control stream. *)
ControlStream(c) ==
  /\ ~exit
  /\ c \in Up /\ conns[c].proto = "Raw" /\ ~conns[c].closing
  /\ conns[c].ctrl = "none"
  /\ conns' = [conns EXCEPT ![c].ctrl = "Authing", ![c].held = @ + 1]
  /\ UNCHANGED <<data, timers, dials, sessions, life, ops, socks, relays>>

(* on_new_stream: whether a data stream is held; otherwise it is reset. *)
Admits(c) ==
  /\ c \in Up /\ conns[c].proto = "Raw" /\ ~conns[c].closing
  /\ Authed(c) /\ conns[c].held < STREAM_BUDGET

OnNewStream(c, s) ==
  /\ ~exit
  /\ Admits(c)
  /\ data[s].phase = "new"
  /\ conns' = [conns EXCEPT ![c].held = @ + 1]
  /\ data' = [data EXCEPT ![s] = [NewData EXCEPT !.phase = "Request", !.conn = c]]
  /\ request_timers' = request_timers \cup {s}
  /\ UNCHANGED <<conn_timers, idle_timers, dials, sessions, life, ops, socks, relays>>

(* ctrl_readable: the timer a refusal leaves behind; close() cancels it. *)
RefusedTimer(c, ok, flushed) ==
  IF ~ok /\ (flushed \/ conns[c].closing) THEN {c} ELSE {}

(* ctrl_readable: AUTH_REQUEST with the token (ok), with another, or       *)
(* malformed; also on a connection being closed.  A response that cannot   *)
(* be written closes.                                                      *)
AuthRequest(c, ok, flushed) ==
  /\ ~exit
  /\ c \in Up /\ conns[c].ctrl = "Authing"
  /\ conns' = [conns EXCEPT ![c] =
       [conns[c] EXCEPT !.ctrl = IF ok THEN "Settled" ELSE "Refused",
                        !.closing = @ \/ ~flushed]]
  /\ conn_timers' = (conn_timers \ {c}) \cup RefusedTimer(c, ok, flushed)
  /\ UNCHANGED <<data, request_timers, idle_timers, dials, sessions, life, ops, socks, relays>>

(* The control stream is reset, closed or refuses a write. *)
CtrlFails(c) ==
  /\ ~exit
  /\ c \in Up /\ conns[c].ctrl # "none" /\ ~conns[c].closing
  /\ conns' = [conns EXCEPT ![c] = Closed(c)]
  /\ conn_timers' = conn_timers \ {c}
  /\ UNCHANGED <<data, request_timers, idle_timers, dials, sessions, life, ops, socks, relays>>

(* Tm::Conn: the auth deadline, or the delayed close after a refusal. *)
ConnTimer(c) ==
  /\ ~exit
  /\ c \in conn_timers
  /\ conn_timers' = conn_timers \ {c}
  /\ conns' = [conns EXCEPT ![c] = IF c \in Up THEN Closed(c) ELSE conns[c]]
  /\ UNCHANGED <<data, request_timers, idle_timers, dials, sessions, life, ops, socks, relays>>

(* Mutant: the connections of the gateway are not closed. *)
OnShutdownRaw ==
  /\ ~exit /\ ~shutting_down
  /\ shutting_down' = TRUE
  /\ exit' = (Up = {})
  /\ conns' = [c \in Conns |-> IF c \in Up /\ conns[c].proto = "Raw" THEN Closed(c) ELSE conns[c]]
  /\ conn_timers' = conn_timers \ {c \in Up : ~conns[c].closing}
  /\ UNCHANGED <<data, request_timers, idle_timers, dials, sessions, ops, socks, relays>>

(* on_shutdown. *)
OnShutdown ==
  /\ ~exit /\ ~shutting_down
  /\ shutting_down' = TRUE
  /\ exit' = (Up = {})
  /\ conns' = [c \in Conns |-> IF c \in Up THEN Closed(c) ELSE conns[c]]
  /\ conn_timers' = conn_timers \ {c \in Up : ~conns[c].closing}
  /\ UNCHANGED <<data, request_timers, idle_timers, dials, sessions, ops, socks, relays>>

----------------------------------------------------------------------------
(* Data streams.                                                           *)

(* data_readable: CONNECT_TCP_REQUEST for a target that can be dialled. *)
Dial(s) ==
  /\ ~exit
  /\ data[s].phase = "Request"
  /\ data' = [data EXCEPT ![s].phase = "Dialling"]
  /\ request_timers' = request_timers \ {s}
  /\ dials' = dials \cup {s}
  /\ dial_ops' = dial_ops \cup {s}
  /\ UNCHANGED <<conns, conn_timers, idle_timers, sessions, life, resolve_ops, socket_ops,
                 socks, relays>>

(* data_readable: a target that cannot be dialled; udp_open: --no-udp, or  *)
(* the session limit.                                                      *)
RequestRefused(s) ==
  /\ ~exit
  /\ data[s].phase = "Request"
  /\ RespondError(s)
  /\ UNCHANGED <<life, relays>>

(* drop_data from every other end of a held stream: malformed or late      *)
(* (Tm::Request) requests, a duplicate sid, resets, StreamClosed, refused  *)
(* writes, and the FIN of a session stream.                                *)
StreamEnds(s) ==
  /\ ~exit
  /\ s \in Held
  /\ DropData(s)
  /\ UNCHANGED <<life, relays>>

(* send_ok: OK is accepted in full: the stream and its socket leave for a  *)
(* relay.  start_relay rejects a socket that has died meanwhile, and the   *)
(* stream is reset.                                                        *)
SendOk(s, open) ==
  /\ data' = GoneData({s})
  /\ conns' = [conns EXCEPT ![data[s].conn] = Released(data[s].conn, {s})]
  /\ relays' = IF s \in open THEN relays \cup {s} ELSE relays
  /\ socks' = open \ {s}

(* on_dial_result: Ok; OK is accepted, in part or in full, or refused.     *)
DialOk(s) ==
  /\ ~exit
  /\ s \in dial_ops
  /\ dial_ops' = dial_ops \ {s}
  /\ dials' = dials \ {s}
  /\ \/ /\ data' = [data EXCEPT ![s].phase = "Responding"]
        /\ socks' = socks \cup {s}
        /\ UNCHANGED <<conns, relays>>
     \/ SendOk(s, socks \cup {s})
     \/ /\ data' = GoneData({s})
        /\ conns' = [conns EXCEPT ![data[s].conn] = Released(data[s].conn, {s})]
        /\ UNCHANGED <<socks, relays>>
  /\ UNCHANGED <<timers, sessions, life, resolve_ops, socket_ops>>

(* on_dial_result: an error. *)
DialFails(s) ==
  /\ ~exit
  /\ s \in dial_ops
  /\ RespondError(s)
  /\ UNCHANGED <<life, relays>>

(* on_writable: the rest of OK is accepted. *)
Respond(s) ==
  /\ ~exit
  /\ data[s].phase = "Responding"
  /\ SendOk(s, socks)
  /\ UNCHANGED <<timers, dials, sessions, life, ops>>

(* on_tcp_end(Error) while OK is being written: the app keeps a dead id. *)
SocketDies(s) ==
  /\ ~exit
  /\ s \in socks
  /\ socks' = socks \ {s}
  /\ UNCHANGED <<conns, data, timers, dials, sessions, life, ops, relays>>

(* The shard retires a relay. *)
RelayEnds(s) ==
  /\ ~exit
  /\ s \in relays
  /\ relays' = relays \ {s}
  /\ UNCHANGED <<conns, data, timers, dials, sessions, life, ops, socks>>

----------------------------------------------------------------------------
(* UDP sessions.                                                           *)

(* udp_open: the gates past which a session is admitted. *)
UdpAdmits(c, sid) ==
  /\ udp_enabled
  /\ udp[c][sid] = None
  /\ Cardinality(SessionsOf(c)) < MAX_SESSIONS_PER_CONN

(* udp_open: UDP_SESSION_OPEN takes its sid and one of the places before   *)
(* the resolve starts.                                                     *)
UdpOpen(s, sid) ==
  /\ ~exit
  /\ data[s].phase = "Request"
  /\ UdpAdmits(data[s].conn, sid)
  /\ data' = [data EXCEPT ![s].phase = "Udp", ![s].sid = sid]
  /\ request_timers' = request_timers \ {s}
  /\ udp' = [udp EXCEPT ![data[s].conn][sid] = s]
  /\ sphase' = [sphase EXCEPT ![s] = "Resolving"]
  /\ resolves' = resolves \cup {s}
  /\ resolve_ops' = resolve_ops \cup {s}
  /\ UNCHANGED <<conns, conn_timers, idle_timers, dials, socket_opens, udp_socks, usocks, life,
                 dial_ops, socket_ops, socks, relays>>

(* udp_resolved: the socket is opened, or the session refused. *)
UdpResolved(s) ==
  /\ ~exit
  /\ s \in resolve_ops
  /\ \/ /\ resolve_ops' = resolve_ops \ {s}
        /\ socket_ops' = socket_ops \cup {s}
        /\ resolves' = resolves \ {s}
        /\ socket_opens' = socket_opens \cup {s}
        /\ sphase' = [sphase EXCEPT ![s] = "Opening"]
        /\ UNCHANGED <<conns, data, timers, dials, dial_ops, udp, udp_socks, usocks, socks>>
     \/ RespondError(s)
  /\ UNCHANGED <<life, relays>>

(* udp_socket: the session is live and answered; an answer that cannot be  *)
(* written ends it, and a socket that cannot be opened refuses it.         *)
UdpSocket(s) ==
  /\ ~exit
  /\ s \in socket_ops
  /\ \/ /\ socket_ops' = socket_ops \ {s}
        /\ socket_opens' = socket_opens \ {s}
        /\ udp_socks' = udp_socks \cup {s}
        /\ usocks' = usocks \cup {s}
        /\ sphase' = [sphase EXCEPT ![s] = "Live"]
        /\ idle_timers' = [idle_timers EXCEPT ![data[s].conn] = @ \cup {data[s].sid}]
        /\ UNCHANGED <<conns, data, conn_timers, request_timers, dials, dial_ops, resolve_ops, udp,
                       resolves, socks>>
     \/ DropData(s)
     \/ RespondError(s)
  /\ UNCHANGED <<life, relays>>

(* Tm::UdpIdle: re-armed after activity, or the session expires. *)
UdpIdle(c, sid) ==
  /\ ~exit
  /\ sid \in idle_timers[c]
  /\ \/ UNCHANGED <<conns, data, timers, dials, sessions, ops, socks>>
     \/ DropData(udp[c][sid])
  /\ UNCHANGED <<life, relays>>

Connection(c) ==
  \/ \E proto \in {"Raw", "H3"} : OnNewConn(c, proto)
  \/ OnConnClosed(c) \/ ControlStream(c) \/ CtrlFails(c) \/ ConnTimer(c)
  \/ \E ok, flushed \in BOOLEAN : AuthRequest(c, ok, flushed)
  \/ \E s \in Streams : OnNewStream(c, s)

Stream(s) ==
  \/ Dial(s) \/ RequestRefused(s) \/ StreamEnds(s) \/ DialOk(s) \/ DialFails(s)
  \/ Respond(s) \/ SocketDies(s) \/ RelayEnds(s)
  \/ \E sid \in Sids : UdpOpen(s, sid)
  \/ UdpResolved(s) \/ UdpSocket(s)

Next ==
  \/ OnShutdown
  \/ \E c \in Conns : Connection(c)
  \/ \E s \in Streams : Stream(s)
  \/ \E c \in Conns, sid \in Sids : UdpIdle(c, sid)

Spec == Init /\ [][Next]_vars

(* A connection the app closed gets its ConnClosed, and timers fire. *)
FairSpec ==
  /\ Spec
  /\ \A c \in Conns :
       /\ WF_vars(conns[c].closing /\ OnConnClosed(c))
       /\ WF_vars(ConnTimer(c))

----------------------------------------------------------------------------
ConnRecords ==
  [st : {"new", "up", "gone"}, proto : {"Raw", "H3"},
   ctrl : {"none", "Authing", "Settled", "Refused"},
   held : 0 .. STREAM_BUDGET, closing : BOOLEAN]

DataRecords ==
  [phase : {"new", "Request", "Dialling", "Responding", "Retiring", "Udp", "gone"},
   conn : Conns \cup {None}, sid : Sids \cup {None}]

TypeOK ==
  /\ conns \in [Conns -> ConnRecords]
  /\ data \in [Streams -> DataRecords]
  /\ conn_timers \subseteq Conns /\ request_timers \subseteq Streams
  /\ idle_timers \in [Conns -> SUBSET Sids]
  /\ dials \subseteq Streams
  /\ udp \in [Conns -> [Sids -> Streams \cup {None}]]
  /\ sphase \in [Streams -> {"none", "Resolving", "Opening", "Live"}]
  /\ resolves \subseteq Streams /\ socket_opens \subseteq Streams
  /\ udp_socks \subseteq Streams
  /\ shutting_down \in BOOLEAN /\ exit \in BOOLEAN
  /\ dial_ops \subseteq Streams /\ resolve_ops \subseteq Streams /\ socket_ops \subseteq Streams
  /\ socks \subseteq Streams /\ relays \subseteq Streams /\ usocks \subseteq Streams

(* Conn::held is exactly the control stream and the data streams the       *)
(* connection holds, whichever way each of them ended, and so the budget   *)
(* and the session limit are never exceeded and never wasted.              *)
BudgetExact ==
  \A c \in Up :
    /\ conns[c].held =
         Cardinality(HeldOf(c)) + (IF conns[c].ctrl = "none" THEN 0 ELSE 1)
    /\ conns[c].held <= STREAM_BUDGET
    /\ Cardinality(SessionsOf(c)) <= MAX_SESSIONS_PER_CONN

(* The code's expect("dialling stream"), expect("admitted"),               *)
(* expect("session stream") and unreachable! never fail: the app's maps,   *)
(* the phases, the shard's live operations and the timers agree, so a      *)
(* result or a timer always finds the stream or session it belongs to and  *)
(* nothing cancelled is still running.                                     *)
MapsAgree ==
  /\ dials = {s \in Streams : data[s].phase = "Dialling"} /\ dial_ops = dials
  /\ resolves = {s \in Streams : sphase[s] = "Resolving"} /\ resolve_ops = resolves
  /\ socket_opens = {s \in Streams : sphase[s] = "Opening"} /\ socket_ops = socket_opens
  /\ udp_socks = {s \in Streams : sphase[s] = "Live"}
  /\ request_timers = {s \in Streams : data[s].phase = "Request"}
  /\ \A s \in Streams :
       /\ (data[s].phase = "Udp") <=> (sphase[s] # "none")
       /\ data[s].phase = "Udp" => udp[data[s].conn][data[s].sid] = s
  /\ \A c \in Conns, sid \in Sids :
       /\ udp[c][sid] # None =>
            data[udp[c][sid]] = [phase |-> "Udp", conn |-> c, sid |-> sid]
       /\ (sid \in idle_timers[c]) <=> (udp[c][sid] # None /\ sphase[udp[c][sid]] = "Live")
  /\ \A s \in Held : data[s].conn \in Up
  /\ conn_timers \subseteq Up

(* No socket outlives what it is for: a dialled one belongs to a stream    *)
(* whose OK is being written or to a relay of a live connection, a UDP     *)
(* one to a live session.                                                  *)
NoLeak ==
  /\ \A s \in socks : data[s].phase = "Responding"
  /\ \A s \in relays : data[s].conn \in Up /\ s \notin Held \cup socks
  /\ usocks = udp_socks

(* The only gate for streams: whatever a connection holds besides its      *)
(* control stream, sockets and sessions included, it holds after           *)
(* authentication; and an unauthenticated one has its deadline or is being *)
(* closed, refused ones included.                                          *)
AuthGate ==
  \A c \in Up :
    /\ (HeldOf(c) # {} \/ SessionsOf(c) # {} \/ \E s \in relays : data[s].conn = c)
         => Authed(c)
    /\ conns[c].proto = "Raw" /\ ~Authed(c) /\ ~conns[c].closing
         => c \in conn_timers

(* The budget counts exactly the streams held, whatever order closes,      *)
(* timers and results come in; no map names what another forgot; nothing   *)
(* outlives its owner, and nothing is served before AUTH.                  *)
ServerSound == BudgetExact /\ MapsAgree /\ NoLeak /\ AuthGate

(* Shutdown ends in the exit, connections accepted meanwhile included, and *)
(* leaves no stream, session, operation or socket.                         *)
ShutdownExits ==
  shutting_down ~> exit /\ Up = {} /\ Held = {} /\ ops = <<{}, {}, {}>> /\ socks = {} /\ usocks = {}

(* A raw connection that does not authenticate, or is refused, goes away. *)
UnauthedLeaves ==
  \A c \in Conns :
    c \in Up /\ conns[c].proto = "Raw" ~> Authed(c) \/ c \notin Up
=============================================================================
