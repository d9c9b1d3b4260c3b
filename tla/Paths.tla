-------------------------------- MODULE Paths --------------------------------
(***************************************************************************)
(* The client's multipath candidates (client/paths.rs) for one tunnel, on  *)
(* the shard's socket map (shard/routing.rs) and the tunnel's connection   *)
(* (client/mod.rs, tunnel_h3.rs): the primary path and the extra ones,     *)
(* each on its own UDP socket, added when multipath is ready, retried when *)
(* they are removed, and all started over with the next connection.        *)
(* Events of the transport wait in its queue; a socket result and a timer  *)
(* come when they like.                                                    *)
(***************************************************************************)
EXTENDS Integers, Sequences, FiniteSets, FiniteSetsExt

CONSTANTS
  Primary, Extra,    \* the slots
  MaxConns,          \* bound: connections
  MaxIds,            \* bound: socket ops, timers and paths of a behaviour
  MaxQueue           \* bound: events in the queue

PathsAssumption == Primary \notin Extra /\ {MaxConns, MaxIds, MaxQueue} \subseteq Nat

VARIABLE p

Slots == Extra \cup {Primary}

(* The primary socket is 0; an extra socket has the id of its op.  PathId  *)
(* 0 is the path a connection starts with.                                 *)
Slot(st, id) == [st |-> st, id |-> id, sock |-> 0]
NotStarted == Slot("not_started", 0)
InitialSlot(i) == IF i = Primary THEN Slot("active", 0) ELSE NotStarted

(* conn: 0 or the client's connection, closing, mp: it saw MpReady.  live: *)
(* the transport still has it; xp: its paths.  map: (conn, path) -> sock,  *)
(* as triples.                                                             *)
PInit ==
  p = [slot |-> [i \in Slots |-> InitialSlot(i)], conn |-> 0, closing |-> FALSE, mp |-> FALSE, live |-> FALSE,
       xp |-> {}, map |-> {}, ops |-> {}, socks |-> {}, tms |-> {}, evq |-> <<>>, conns |-> 0, nid |-> 0]

Fresh(v) == v.nid + 1
MayAlloc(v, n) == v.nid + n <= MaxIds

-----------------------------------------------------------------------------
(* The shard's socket map *)

CloseUdpSocket(v, s) ==
  IF s = 0 \/ s \notin v.socks THEN v
  ELSE [v EXCEPT !.socks = @ \ {s}, !.map = {m \in @ : m[3] # s}]

(* PathRemoved, ConnClosed *)
ClosePathSocket(v, c, q) ==
  LET hit == {m \in v.map : m[1] = c /\ m[2] = q}
  IN IF hit = {} THEN v ELSE CloseUdpSocket([v EXCEPT !.map = @ \ hit], (CHOOSE m \in hit : TRUE)[3])

CloseConnSockets(v, c) ==
  LET mine == {m[3] : m \in {m \in v.map : m[1] = c}}
  IN [v EXCEPT !.map = {m \in @ : m[1] # c /\ m[3] \notin mine}, !.socks = @ \ mine]

-----------------------------------------------------------------------------
(* Candidates *)

Retry(v, i) ==
  [v EXCEPT !.slot[i] = Slot("retry", Fresh(v)), !.tms = @ \cup {Fresh(v)}, !.nid = Fresh(v)]

(* add: r is add_path's answer, "ok" only of a live connection. *)
Add(v, i, s, r) ==
  CASE r = "ok" /\ v.live ->
         LET q == Fresh(v)
         IN [v EXCEPT !.slot[i] = [Slot("active", q) EXCEPT !.sock = s], !.xp = @ \cup {q},
                      !.map = @ \cup {<<v.conn, q, s>>}, !.nid = q]
    [] r = "no_path_id" /\ v.live -> [v EXCEPT !.slot[i] = [Slot("socket_ready", 0) EXCEPT !.sock = s]]
    [] OTHER -> Retry(CloseUdpSocket(v, s), i)

Start(v, i, r) ==
  IF i = Primary THEN Add(v, i, 0, r)
  ELSE [v EXCEPT !.slot[i] = Slot("opening", Fresh(v)), !.ops = @ \cup {Fresh(v)}, !.nid = Fresh(v)]

(* on_mp_ready, for slot i *)
Ready(v, i, r) ==
  CASE v.slot[i].st = "not_started" -> Start(v, i, r)
    [] v.slot[i].st = "socket_ready" -> Add(v, i, v.slot[i].sock, r)
    [] OTHER -> v

(* Mutant: the retries of a closed connection are left to fire. *)
CleanupKeepsTimers(v, i) ==
  LET s == v.slot[i]
      a == CASE s.st = "opening" -> [v EXCEPT !.ops = @ \ {s.id}]
             [] s.st = "socket_ready" -> CloseUdpSocket(v, s.sock)
             [] OTHER -> v
  IN [a EXCEPT !.slot[i] = InitialSlot(i)]

(* on_conn_closed, for slot i *)
Cleanup(v, i) ==
  LET s == v.slot[i]
      a == CASE s.st = "opening" -> [v EXCEPT !.ops = @ \ {s.id}]
             [] s.st = "socket_ready" -> CloseUdpSocket(v, s.sock)
             [] s.st = "retry" -> [v EXCEPT !.tms = @ \ {s.id}]
             [] OTHER -> v
  IN [a EXCEPT !.slot[i] = InitialSlot(i)]

OnMpReady(v, r) == FoldSet(LAMBDA i, x : Ready(x, i, r[i]), [v EXCEPT !.mp = TRUE], Slots)

OnConnClosed(v) ==
  [FoldSet(LAMBDA i, x : Cleanup(x, i), v, Slots) EXCEPT !.conn = 0, !.closing = FALSE, !.mp = FALSE]

OnPathRemoved(v, q) ==
  LET hit == {i \in Slots : v.slot[i].st = "active" /\ v.slot[i].id = q}
  IN IF hit = {} THEN v ELSE Retry(v, CHOOSE i \in hit : TRUE)

-----------------------------------------------------------------------------
(* The transport and its queue *)

Results == {"ok", "no_path_id", "error"}
Push(v, e) == [v EXCEPT !.evq = Append(@, e)]
Queueing == Len(p.evq) < MaxQueue

NewConn ==
  /\ p.conn = 0 /\ p.conns < MaxConns
  /\ LET c == p.conns + 1
     IN p' = [p EXCEPT !.conn = c, !.conns = c, !.live = TRUE, !.xp = {0}]

TransportReady == p.live /\ Queueing /\ p' = Push(p, [e |-> "mp_ready", c |-> p.conn, q |-> 0])

PathDies ==
  /\ p.live /\ Queueing
  /\ \E q \in p.xp : p' = Push([p EXCEPT !.xp = @ \ {q}], [e |-> "path_removed", c |-> p.conn, q |-> q])

ConnDies ==
  p.live /\ p' = Push([p EXCEPT !.live = FALSE, !.xp = {}], [e |-> "conn_closed", c |-> p.conn, q |-> 0])

(* The client begins to close: an auth failure, or the shutdown. *)
CloseConn == p.conn # 0 /\ ~p.closing /\ p' = [p EXCEPT !.closing = TRUE]

(* poll_event and dispatch: an event of a dead connection is dropped,      *)
(* except its close.                                                       *)
Dispatch ==
  /\ p.evq # <<>> /\ MayAlloc(p, Cardinality(Slots))
  /\ LET e == Head(p.evq)
         v == [p EXCEPT !.evq = Tail(@)]
         gone == ~(p.live /\ e.c = p.conn)
     IN \/ e.e = "conn_closed" /\ p' = OnConnClosed(CloseConnSockets(v, e.c))
        \/ e.e # "conn_closed" /\ gone /\ p' = v
        \/ e.e = "mp_ready" /\ ~gone /\ \E r \in [Slots -> Results] : p' = OnMpReady(v, r)
        \/ e.e = "path_removed" /\ ~gone /\ p' = OnPathRemoved(ClosePathSocket(v, e.c, e.q), e.q)

-----------------------------------------------------------------------------
(* Sockets and timers *)

(* on_udp_socket: the connection counts only while it is not closing. *)
UdpSocket ==
  /\ MayAlloc(p, 1)
  /\ \E op \in p.ops, ok \in BOOLEAN, r \in Results :
       LET v == [p EXCEPT !.ops = @ \ {op}, !.socks = IF ok THEN @ \cup {op} ELSE @]
           mine == {i \in Slots : p.slot[i].st = "opening" /\ p.slot[i].id = op}
           i == CHOOSE j \in mine : TRUE
       IN p' = CASE mine = {} -> CloseUdpSocket(v, op)
                 [] mine # {} /\ ~ok -> Retry(v, i)
                 [] mine # {} /\ ok /\ p.conn # 0 /\ ~p.closing -> Add(v, i, op, r)
                 [] OTHER -> [CloseUdpSocket(v, op) EXCEPT !.slot[i] = NotStarted]

(* on_timer *)
TimerFires ==
  /\ MayAlloc(p, 1)
  /\ \E t \in p.tms, r \in Results :
       LET v == [p EXCEPT !.tms = @ \ {t}]
           mine == {i \in Slots : p.slot[i].st = "retry" /\ p.slot[i].id = t}
           i == CHOOSE j \in mine : TRUE
           w == [v EXCEPT !.slot[i] = NotStarted]
       IN p' = IF mine = {} THEN v ELSE IF p.conn # 0 /\ ~p.closing THEN Start(w, i, r) ELSE w

PNext ==
  \/ NewConn \/ TransportReady \/ PathDies \/ ConnDies \/ CloseConn \/ Dispatch \/ UdpSocket \/ TimerFires

PSpec == PInit /\ [][PNext]_p

-----------------------------------------------------------------------------
(* Properties *)

(* No open and no retry outlives what asked for it: the live socket ops    *)
(* and timers are exactly the ones the slots wait for, so neither a late   *)
(* socket nor a late timer can reach a later connection.                   *)
NothingStale ==
  /\ p.ops = {p.slot[i].id : i \in {i \in Slots : p.slot[i].st = "opening"}}
  /\ p.tms = {p.slot[i].id : i \in {i \in Slots : p.slot[i].st = "retry"}}
  /\ p.conn = 0 => (\A i \in Slots : p.slot[i] = InitialSlot(i)) /\ p.socks = {} /\ p.map = {}

(* Every extra socket has one owner: a path of this connection that is     *)
(* mapped to it, or the slot that keeps it for a path id.                  *)
PathSocketsOwned ==
  /\ \A s \in p.socks :
       Cardinality({i \in Extra : p.slot[i].st \in {"active", "socket_ready"} /\ p.slot[i].sock = s}) = 1
  /\ \A i \in Extra :
       /\ p.slot[i].st = "active" =>
            p.slot[i].sock \in p.socks /\ <<p.conn, p.slot[i].id, p.slot[i].sock>> \in p.map
       /\ p.slot[i].st = "socket_ready" => p.slot[i].sock \in p.socks

(* No path is given up: once multipath is ready every candidate is up, on  *)
(* its way, or has a retry coming; and one taken for up is, unless its     *)
(* removal waits in the queue.                                             *)
NoPathForgotten ==
  /\ (p.mp /\ ~p.closing) => \A i \in Slots : p.slot[i].st # "not_started"
  /\ p.live => \A i \in Slots : p.slot[i].st = "active" =>
       \/ p.slot[i].id \in p.xp
       \/ \E j \in DOMAIN p.evq : p.evq[j] = [e |-> "path_removed", c |-> p.conn, q |-> p.slot[i].id]

PathsSound == NothingStale /\ PathSocketsOwned /\ NoPathForgotten
=============================================================================
