------------------------------ MODULE MC_Live ------------------------------
(* What must eventually happen, for four parts side by side: the shard's     *)
(* operations, the admission of connections, the server and a relay without  *)
(* faults. `part` says which one runs; the others stay in an initial state.  *)
EXTENDS ShardOps, ConnAdmission

CONSTANTS SrvConns, Streams, Sids, STREAM_BUDGET, MAX_SESSIONS_PER_CONN, None, udp_enabled,
          RELAY_BUF, MaxUp, MaxDown, Faults

VARIABLES
  part,
  conns, data, conn_timers, request_timers, idle_timers, s_dials, s_udp, sphase, s_resolves,
  socket_opens, udp_socks, shutting_down, exit, dial_ops, resolve_ops, s_socket_ops, socks,
  relays, usocks,
  relay, stream, sock, dead, evq, driving, closed

S == INSTANCE ServerCore WITH Conns <- SrvConns, dials <- s_dials, udp <- s_udp,
                        resolves <- s_resolves,
                        socket_ops <- s_socket_ops
R == INSTANCE Relay WITH tcp <- sock

ASSUME LiveAssumption == S!ServerAssumption

svars == <<conns, data, conn_timers, request_timers, idle_timers, s_dials, s_udp, sphase,
           s_resolves, socket_opens, udp_socks, shutting_down, exit, dial_ops, resolve_ops,
           s_socket_ops, socks, relays, usocks>>
rvars == <<relay, stream, sock, dead, evq, driving, closed>>

RelayAtRest ==
  /\ relay = R!Start(0, FALSE, 0, FALSE) /\ stream = R!StreamAtStart(0, FALSE, 0, FALSE)
  /\ sock = R!TcpAtStart(0, FALSE)
  /\ dead = FALSE /\ evq = <<>> /\ driving = FALSE /\ closed = FALSE

MCInit ==
  /\ part \in {"ops", "admission", "server", "relay"}
  /\ Init /\ AInit /\ S!Init
  /\ IF part = "relay" THEN R!Init ELSE RelayAtRest

MCNext ==
  /\ UNCHANGED part
  /\ \/ part = "ops" /\ Next /\ UNCHANGED <<avars, svars, rvars>>
     \/ part = "admission" /\ ANext /\ UNCHANGED <<vars, svars, rvars>>
     \/ part = "server" /\ S!Next /\ UNCHANGED <<vars, avars, rvars>>
     \/ part = "relay" /\ R!Next /\ UNCHANGED <<vars, avars, svars>>

(* The fairness of the four specifications. *)
MCFairness ==
  /\ WF_vars(part = "ops" /\ Drive) /\ SF_vars(part = "ops" /\ \E op \in Ops : Driver(op))
  /\ WF_avars(part = "admission" /\ DriveConns)
  /\ \A c \in Conns :
       /\ WF_avars(part = "admission" /\ Due(c))
       /\ WF_avars(part = "admission" /\ slot[c].closing /\ (Close(c) \/ Refuse(c)))
  /\ \A c \in SrvConns :
       /\ WF_svars(part = "server" /\ conns[c].closing /\ S!OnConnClosed(c))
       /\ WF_svars(part = "server" /\ S!ConnTimer(c))
  /\ WF_driving(part = "relay" /\ driving' = ~driving)
  /\ []<>(part = "relay" /\ (R!CanRx \/ R!CanTx \/ ENABLED R!Credit \/ ENABLED R!StreamReleased)) =>
       []<><<R!Moved>>_rvars

MCSpec == MCInit /\ [][MCNext]_<<part, vars, avars, svars, rvars>> /\ MCFairness

(* ShardOps: an operation completes unless it is cancelled, and a driver     *)
(* result for a cancelled one is dropped.                                    *)
OpsLive == CancelledResultDropped /\ OpsComplete

(* ConnAdmission: an authenticated connection is never picked for eviction,  *)
(* and an evicted or expired one gives its place back.                       *)
PlacesComeBack == AuthedNotEvicted /\ PlacesFreed

(* ServerCore: with two connections each has its own streams and sessions,   *)
(* shutdown exits and leaves nothing, and a raw connection that does not     *)
(* authenticate, or is refused, goes away.                                   *)
ServerLives == []S!ServerSound /\ S!ShutdownExits /\ S!UnauthedLeaves

(* Relay: with both sources finished and no fault the flow ends, and clean,  *)
(* and a dead_streams entry does not outlive the stream for ever.            *)
RelayLives == R!Completes /\ R!DeadReclaimed
============================================================================
