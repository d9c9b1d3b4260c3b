---------------------------- MODULE ClientTunnel ----------------------------
(***************************************************************************)
(* The client application of mq-proxy (client/mod.rs): the raw tunnel      *)
(* connection with its authentication, the reconnects, the ingress sockets *)
(* and their requests (reading, pending, being opened, relayed), the UDP   *)
(* associations, the H3 tunnel beside it (tunnel_h3.rs), shutdown and      *)
(* exit.  The app is called back by the shard, one callback at a time;     *)
(* every action is one callback.  UDP sessions, extra paths and the fronts *)
(* of the H3 tunnel are other parts.                                       *)
(*                                                                         *)
(* A request owns its socket t, and t names its data stream too: a socket  *)
(* opens at most one.                                                      *)
(***************************************************************************)
EXTENDS Integers, FiniteSets, Sequences, SequencesExt

CONSTANTS
  Socks,        \* bound: the ingress sockets ever accepted
  MAX_PENDING,  \* pending.rs
  MaxGen,       \* bound: connection ids are 1..MaxGen, used round robin
  h3_enabled    \* --gateway or --mitm: there is an H3 tunnel

ASSUME ClientAssumption ==
  /\ IsFiniteSet(Socks)
  /\ MAX_PENDING \in Nat
  /\ MaxGen \in Nat /\ MaxGen > 1
  /\ h3_enabled \in BOOLEAN

VARIABLES
  reconnect,      \* cfg.reconnect (--no-reconnect is FALSE); never changes
  conn,           \* the current connection; id 0 is None
  gen,            \* the last connection id
  auth_timers, reconnect_timers,   \* Tm::Auth, Tm::Reconnect, by connection id
  ingress_timers, pending_timers,  \* Tm::Ingress, Tm::Pending, by socket
  h3,             \* the H3 tunnel
  terminal, shutting_down,
  exit,           \* request_exit: "none", "0" or "1"
  ingress,        \* sockets reading their request
  pending,        \* the pending queue
  opens,          \* requests whose data stream awaits its response
  udp,            \* UdpAvail
  assocs,         \* the UDP association of a control socket
  \* What the shard and the transport hold for the app:
  usocks,         \* control sockets with an open app UDP socket
  tcp,            \* open sockets the app has not closed
  relays,         \* sockets handed to start_relay
  streams,        \* sockets with a live data stream
  accepted        \* sockets accepted so far

timers == <<auth_timers, reconnect_timers, ingress_timers, pending_timers>>
life == <<reconnect, terminal, shutting_down, exit>>
requests == <<ingress, pending, opens>>
udpVars == <<udp, assocs, usocks>>
held == <<tcp, relays, streams>>
vars == <<conn, gen, timers, h3, life, requests, udpVars, held, accepted>>

NoConn ==
  [id |-> 0, ctrl |-> FALSE, authed |-> FALSE, auth_timer |-> FALSE, closing |-> FALSE]

(* on_start of a client with a TCP ingress: the raw tunnel connects, or    *)
(* fails at once and backs off or is terminal; then the H3 tunnel, whose   *)
(* first failure is fatal.                                                 *)
Init ==
  /\ reconnect \in BOOLEAN
  /\ \/ conn = [NoConn EXCEPT !.id = 1] /\ gen = 1 /\ reconnect_timers = {} /\ terminal = FALSE
     \/ /\ conn = NoConn /\ gen = 0
        /\ reconnect_timers = IF reconnect THEN {0} ELSE {}
        /\ terminal = ~reconnect
  /\ auth_timers = {} /\ ingress_timers = {} /\ pending_timers = {}
  /\ udp = IF terminal THEN "Unavailable" ELSE "Unknown"
  /\ h3 = [conn |-> h3_enabled, up |-> FALSE, reconnect |-> FALSE]
  /\ exit \in IF h3_enabled THEN {"none", "1"} ELSE {"none"}
  /\ shutting_down = FALSE
  /\ ingress = {} /\ pending = <<>> /\ opens = {}
  /\ assocs = [t \in Socks |-> "none"] /\ usocks = {}
  /\ tcp = {} /\ relays = {} /\ streams = {} /\ accepted = {}

Running == exit = "none"

Assocs == {t \in Socks : assocs[t] # "none"}

Serving == conn.authed /\ ~conn.closing

NextGen == (gen % MaxGen) + 1

(* close: once; the exit is taken at ConnClosed. *)
Closing(c) == [c EXCEPT !.closing = c.id # 0]

(* maybe_exit, with the app left shutting down or not, with connection c   *)
(* and H3 tunnel h.                                                        *)
MaybeExit(down, c, h) ==
  exit' = IF down /\ c.id = 0 /\ ~h.conn /\ ~h.reconnect THEN "0" ELSE exit

(* set_udp: losing availability ends every association; the sockets it     *)
(* closes are Ended.                                                       *)
SetUdp(avail) ==
  /\ udp' = avail
  /\ assocs' = IF avail = "Unavailable" THEN [t \in Socks |-> "none"] ELSE assocs
  /\ usocks' = IF avail = "Unavailable" THEN {} ELSE usocks

(* Mutant: the control sockets of the associations stay open. *)
EndedNone(avail) == {}

Ended(avail) == IF avail = "Unavailable" THEN Assocs ELSE {}

(* The connection's deadline is cancelled with it, or once authenticated. *)
AuthCancelled == auth_timers \ {conn.id}

(* Backoff arms one more reconnect; the delay is taken from backoff.rs. *)
Backoff(R) == R \cup {gen}

(* UdpAvail once authenticated; relay: the server relays UDP and datagrams *)
(* fit on the connection.                                                  *)
Avail(relay) == IF relay /\ ~shutting_down THEN "Available" ELSE "Unavailable"

PendingFull == Len(pending) >= MAX_PENDING

(* Mutant: a request pending for exactly the deadline is kept. *)
ExpiredOlder(t, n) == \A i \in DOMAIN pending : pending[i] = t => i <= n + 1

(* Pending::expire when the timer of t fires: the n oldest are due, with   *)
(* them t if it is still pending.                                          *)
Expired(t, n) == \A i \in DOMAIN pending : pending[i] = t => i <= n

----------------------------------------------------------------------------
(* The connection.                                                         *)

(* conn_gone, with R the reconnects armed.  The shard has closed the       *)
(* connection's relays before it delivers ConnClosed.                      *)
ConnGone(R) ==
  /\ conn' = NoConn
  /\ auth_timers' = AuthCancelled
  /\ opens' = {} /\ relays' = {} /\ streams' = {}
  /\ \/ /\ shutting_down
        /\ reconnect_timers' = R
        /\ SetUdp("Unavailable")
        /\ tcp' = tcp \ (opens \cup relays \cup Ended("Unavailable"))
        /\ MaybeExit(TRUE, NoConn, h3)
        /\ UNCHANGED <<terminal, pending>>
     \/ /\ ~shutting_down /\ reconnect
        /\ reconnect_timers' = Backoff(R)
        /\ SetUdp("Unknown")
        /\ tcp' = tcp \ (opens \cup relays)
        /\ UNCHANGED <<terminal, pending, exit>>
     \/ /\ ~shutting_down /\ ~reconnect
        /\ reconnect_timers' = R
        /\ terminal' = TRUE
        /\ SetUdp("Unavailable")
        /\ tcp' = tcp \ (opens \cup relays \cup Ended("Unavailable") \cup ToSet(pending))
        /\ pending' = <<>>
        /\ UNCHANGED exit
  /\ UNCHANGED <<gen, ingress_timers, pending_timers, reconnect, shutting_down, ingress, accepted>>

(* Tm::Reconnect: connect; xquic may refuse at once. *)
ReconnectDue ==
  /\ Running
  /\ \E x \in reconnect_timers :
       \/ /\ gen' = NextGen
          /\ conn' = [NoConn EXCEPT !.id = NextGen]
          /\ reconnect_timers' = reconnect_timers \ {x}
          /\ UNCHANGED <<auth_timers, ingress_timers, pending_timers, life, requests, udpVars, held,
                         accepted>>
       \/ ConnGone(reconnect_timers \ {x})
  /\ UNCHANGED h3

(* Event::ConnClosed for the current connection, at any time. *)
ConnClosed ==
  /\ Running
  /\ conn.id # 0
  /\ ConnGone(reconnect_timers)
  /\ UNCHANGED h3

(* on_established: the control stream and the authentication deadline; a   *)
(* stream that cannot be opened, or not be written, closes the connection. *)
Established ==
  /\ Running
  /\ conn.id # 0 /\ ~conn.ctrl
  /\ \/ conn' = Closing(conn) /\ UNCHANGED auth_timers
     \/ /\ conn' \in {[conn EXCEPT !.ctrl = TRUE, !.auth_timer = TRUE, !.closing = @ \/ failed] :
                        failed \in BOOLEAN}
        /\ auth_timers' = auth_timers \cup {conn.id}
  /\ UNCHANGED <<gen, reconnect_timers, ingress_timers, pending_timers, h3, life, requests, udpVars, held, accepted>>

(* The control stream is reset, closed or refuses a write. *)
CtrlFails ==
  /\ Running
  /\ conn.ctrl
  /\ conn' = Closing(conn)
  /\ UNCHANGED <<gen, timers, h3, life, requests, udpVars, held, accepted>>

(* ctrl_readable: the server refused, or what it sent is malformed. *)
AuthRefused ==
  /\ Running
  /\ conn.ctrl /\ ~conn.authed
  /\ conn' = Closing(conn)
  /\ SetUdp("Unavailable")
  /\ pending' = <<>>
  /\ tcp' = tcp \ (Ended("Unavailable") \cup ToSet(pending))
  /\ UNCHANGED <<gen, timers, h3, life, ingress, opens, relays, streams, accepted>>

(* ctrl_readable: AUTH_RESPONSE is Ok, also on a connection being closed.  *)
(* A reset read behind the response closes the connection and leaves the   *)
(* queue; otherwise the pending requests are opened, those of ok with      *)
(* success.                                                                *)
AuthOk ==
  /\ Running
  /\ conn.ctrl /\ ~conn.authed
  /\ auth_timers' = AuthCancelled
  /\ \E relay \in BOOLEAN :
       LET avail == Avail(relay) IN
       /\ SetUdp(avail)
       /\ \/ /\ conn' = [conn EXCEPT !.authed = TRUE, !.auth_timer = FALSE, !.closing = TRUE]
             /\ tcp' = tcp \ Ended(avail)
             /\ UNCHANGED <<pending, opens, streams>>
          \/ \E ok \in SUBSET ToSet(pending) :
             /\ conn' = [conn EXCEPT !.authed = TRUE, !.auth_timer = FALSE]
             /\ opens' = opens \cup ok
             /\ streams' = streams \cup ok
             /\ tcp' = tcp \ (Ended(avail) \cup (ToSet(pending) \ ok))
             /\ pending' = <<>>
  /\ UNCHANGED <<gen, reconnect_timers, ingress_timers, pending_timers, h3, life, ingress, relays,
                 accepted>>

(* Tm::Auth: closes whatever connection is current. *)
AuthDue ==
  /\ Running
  /\ \E x \in auth_timers : auth_timers' = auth_timers \ {x}
  /\ conn' = Closing([conn EXCEPT !.auth_timer = FALSE])
  /\ UNCHANGED <<gen, reconnect_timers, ingress_timers, pending_timers, h3, life, requests, udpVars, held, accepted>>

----------------------------------------------------------------------------
(* Ingress sockets and their requests.                                     *)

(* request for socket t: refused, opened at once (ok: the stream opened    *)
(* and took the request), or pending until the next authentication.        *)
Request(t) ==
  \/ /\ \/ terminal \/ shutting_down
        \/ ~Serving /\ PendingFull
     /\ tcp' = tcp \ {t}
     /\ UNCHANGED <<pending_timers, pending, opens, streams>>
  \/ /\ ~terminal /\ ~shutting_down /\ Serving
     /\ \E ok \in SUBSET {t} :
          /\ opens' = opens \cup ok
          /\ streams' = streams \cup ok
          /\ tcp' = (tcp \ {t}) \cup ok
     /\ UNCHANGED <<pending_timers, pending>>
  \/ /\ ~terminal /\ ~shutting_down /\ ~Serving
     /\ ~PendingFull
     /\ pending' = Append(pending, t)
     /\ pending_timers' = pending_timers \cup {t}
     /\ tcp' = tcp \cup {t}
     /\ UNCHANGED <<opens, streams>>

(* on_accepted for SOCKS5 and HTTP CONNECT: the request is to be read. *)
Accept(t) ==
  /\ Running /\ ~shutting_down
  /\ t \notin accepted
  /\ accepted' = accepted \cup {t}
  /\ tcp' = tcp \cup {t}
  /\ ingress' = ingress \cup {t}
  /\ ingress_timers' = ingress_timers \cup {t}
  /\ UNCHANGED <<conn, gen, auth_timers, reconnect_timers, pending_timers, h3, life, pending, opens,
                 udpVars, relays, streams>>

(* on_accepted for transparent capture: the target is known. *)
AcceptTransparent(t) ==
  /\ Running /\ ~shutting_down
  /\ t \notin accepted
  /\ accepted' = accepted \cup {t}
  /\ Request(t)
  /\ UNCHANGED <<conn, gen, auth_timers, reconnect_timers, ingress_timers, h3, life, ingress,
                 udpVars, relays>>

(* on_tcp_data: the request is complete. *)
RequestRead(t) ==
  /\ Running
  /\ t \in ingress
  /\ ingress' = ingress \ {t}
  /\ ingress_timers' = ingress_timers \ {t}
  /\ Request(t)
  /\ UNCHANGED <<conn, gen, auth_timers, reconnect_timers, h3, life, udpVars, relays, accepted>>

(* on_tcp_data: a UDP ASSOCIATE, while one may be served. *)
Associate(t) ==
  /\ Running
  /\ t \in ingress
  /\ udp # "Unavailable" /\ ~shutting_down
  /\ ingress' = ingress \ {t}
  /\ ingress_timers' = ingress_timers \ {t}
  /\ assocs' = [assocs EXCEPT ![t] = "opening"]
  /\ UNCHANGED <<conn, gen, auth_timers, reconnect_timers, pending_timers, h3, life, pending, opens, udp, usocks, held, accepted>>

(* The socket is closed before its request is complete: a protocol error   *)
(* or a refused ASSOCIATE (on_tcp_data), EOF or an error (on_tcp_end), or  *)
(* Tm::Ingress.                                                            *)
IngressEnds(t) ==
  /\ Running
  /\ t \in ingress
  /\ ingress' = ingress \ {t}
  /\ ingress_timers' = ingress_timers \ {t}
  /\ tcp' = tcp \ {t}
  /\ UNCHANGED <<conn, gen, auth_timers, reconnect_timers, pending_timers, h3, life, pending, opens,
                 udpVars, relays, streams, accepted>>

(* Tm::Pending of t: the overdue requests are refused.  The timer of a     *)
(* request that is no longer pending still fires.                          *)
PendingDue(t) ==
  /\ Running
  /\ t \in pending_timers
  /\ pending_timers' = pending_timers \ {t}
  /\ \E n \in 0 .. Len(pending) :
       /\ Expired(t, n)
       /\ tcp' = tcp \ ToSet(SubSeq(pending, 1, n))
       /\ pending' = SubSeq(pending, n + 1, Len(pending))
  /\ UNCHANGED <<conn, gen, auth_timers, reconnect_timers, ingress_timers, h3, life, ingress, opens,
                 udpVars, relays, streams, accepted>>

(* open_readable: the response is Ok; the relay starts, or both ends are   *)
(* torn down when it cannot.                                               *)
OpenOk(t) ==
  /\ Running
  /\ t \in opens
  /\ opens' = opens \ {t}
  /\ \/ relays' = relays \cup {t} /\ UNCHANGED <<tcp, streams>>
     \/ tcp' = tcp \ {t} /\ streams' = streams \ {t} /\ UNCHANGED relays
  /\ UNCHANGED <<conn, gen, timers, h3, life, ingress, pending, udpVars, accepted>>

(* The open fails: an error response, a malformed one, a reset, a refused  *)
(* write or StreamClosed.  on_tcp_end(Error) ends it too.                  *)
OpenFails(t) ==
  /\ Running
  /\ t \in opens
  /\ opens' = opens \ {t}
  /\ tcp' = tcp \ {t}
  /\ streams' = streams \ {t}
  /\ UNCHANGED <<conn, gen, timers, h3, life, ingress, pending, udpVars, relays, accepted>>

(* on_tcp_end(Error) of a pending request; its EOF waits in the shard. *)
PendingSocketError(t) ==
  /\ Running
  /\ \E i \in DOMAIN pending : pending[i] = t /\ pending' = RemoveAt(pending, i)
  /\ tcp' = tcp \ {t}
  /\ UNCHANGED <<conn, gen, timers, h3, life, ingress, opens, udpVars, relays, streams,
                 accepted>>

(* The shard retires a relay. *)
RelayEnds(t) ==
  /\ Running
  /\ t \in relays
  /\ relays' = relays \ {t}
  /\ tcp' = tcp \ {t}
  /\ streams' = streams \ {t}
  /\ UNCHANGED <<conn, gen, timers, h3, life, requests, udpVars, accepted>>

(* on_udp_socket for an association: the reply, or the refusal. *)
AssocSocket(t) ==
  /\ Running
  /\ assocs[t] = "opening"
  /\ \/ /\ assocs' = [assocs EXCEPT ![t] = "ready"]
        /\ usocks' = usocks \cup {t}
        /\ UNCHANGED tcp
     \/ /\ assocs' = [assocs EXCEPT ![t] = "none"]
        /\ tcp' = tcp \ {t}
        /\ UNCHANGED usocks
  /\ UNCHANGED <<conn, gen, timers, h3, life, requests, udp, relays, streams, accepted>>

(* on_tcp_end of a control socket: end_assoc. *)
AssocEnds(t) ==
  /\ Running
  /\ t \in Assocs
  /\ assocs' = [assocs EXCEPT ![t] = "none"]
  /\ usocks' = usocks \ {t}
  /\ tcp' = tcp \ {t}
  /\ UNCHANGED <<conn, gen, timers, h3, life, requests, udp, relays, streams, accepted>>

----------------------------------------------------------------------------
(* The H3 tunnel.                                                          *)

H3Established ==
  /\ Running
  /\ h3.conn /\ ~h3.up
  /\ h3' = [h3 EXCEPT !.up = TRUE, !.reconnect = FALSE]
  /\ MaybeExit(shutting_down, conn, h3')
  /\ UNCHANGED <<conn, gen, timers, reconnect, terminal, shutting_down, requests, udpVars, held,
                 accepted>>

(* Mutant: the H3 tunnel reconnects while the client shuts down. *)
H3BackoffAlways == [conn |-> FALSE, up |-> FALSE, reconnect |-> reconnect]

(* The H3 tunnel after its ConnClosed. *)
H3Backoff == [conn |-> FALSE, up |-> FALSE, reconnect |-> ~shutting_down /\ reconnect]

H3Closed ==
  /\ Running
  /\ h3.conn
  /\ h3' = H3Backoff
  /\ MaybeExit(shutting_down, conn, h3')
  /\ UNCHANGED <<conn, gen, timers, reconnect, terminal, shutting_down, requests, udpVars, held,
                 accepted>>

(* The reconnect timer: connect, or arm it again. *)
H3ReconnectDue ==
  /\ Running
  /\ h3.reconnect
  /\ h3' \in {[h3 EXCEPT !.conn = TRUE, !.reconnect = FALSE], h3}
  /\ UNCHANGED <<conn, gen, timers, life, requests, udpVars, held, accepted>>

----------------------------------------------------------------------------
(* on_shutdown: nothing reconnects any more, both tunnels are closed, and  *)
(* the exit waits for their ConnClosed.                                    *)
Shutdown ==
  /\ Running /\ ~shutting_down
  /\ shutting_down' = TRUE
  /\ SetUdp("Unavailable")
  /\ tcp' = tcp \ Ended("Unavailable")
  /\ reconnect_timers' = {}
  /\ conn' = Closing(conn)
  /\ h3' = [h3 EXCEPT !.reconnect = FALSE]
  /\ MaybeExit(TRUE, conn, h3')
  /\ UNCHANGED <<gen, auth_timers, ingress_timers, pending_timers, reconnect, terminal, requests,
                 relays, streams, accepted>>

Tunnel ==
  \/ ReconnectDue \/ ConnClosed \/ Established \/ CtrlFails \/ AuthRefused \/ AuthOk
  \/ AuthDue \/ H3Established \/ H3Closed \/ H3ReconnectDue \/ Shutdown

Socket(t) ==
  \/ Accept(t) \/ AcceptTransparent(t) \/ RequestRead(t) \/ Associate(t)
  \/ IngressEnds(t) \/ PendingDue(t) \/ OpenOk(t) \/ OpenFails(t)
  \/ PendingSocketError(t) \/ RelayEnds(t) \/ AssocSocket(t) \/ AssocEnds(t)

Next == Tunnel \/ \E t \in Socks : Socket(t)

Spec == Init /\ [][Next]_vars

(* A connection the app closed gets its ConnClosed, and every timer fires; *)
(* the H3 tunnel is closed once shutting down.  Nothing is owed by the     *)
(* server or by the applications.                                          *)
FairSpec ==
  /\ Spec
  /\ WF_vars(conn.closing /\ ConnClosed)
  /\ WF_vars(shutting_down /\ H3Closed)
  /\ WF_vars(AuthDue) /\ WF_vars(ReconnectDue)
  /\ \A t \in Socks :
       WF_vars(PendingDue(t)) /\ WF_vars(IngressEnds(t))

----------------------------------------------------------------------------
Conn ==
  [id : 0 .. MaxGen, ctrl : BOOLEAN, authed : BOOLEAN, auth_timer : BOOLEAN,
   closing : BOOLEAN]

TypeOK ==
  /\ reconnect \in BOOLEAN
  /\ conn \in Conn
  /\ gen \in 0 .. MaxGen
  /\ auth_timers \subseteq 0 .. MaxGen /\ reconnect_timers \subseteq 0 .. MaxGen
  /\ ingress_timers \subseteq Socks /\ pending_timers \subseteq Socks
  /\ h3 \in [conn : BOOLEAN, up : BOOLEAN, reconnect : BOOLEAN]
  /\ terminal \in BOOLEAN /\ shutting_down \in BOOLEAN
  /\ exit \in {"none", "0", "1"}
  /\ ingress \subseteq Socks /\ opens \subseteq Socks
  /\ pending \in Seq(Socks) /\ Len(pending) <= MAX_PENDING
  /\ udp \in {"Unknown", "Available", "Unavailable"}
  /\ assocs \in [Socks -> {"none", "opening", "ready"}]
  /\ usocks \subseteq Socks /\ tcp \subseteq Socks /\ relays \subseteq Socks
  /\ streams \subseteq Socks /\ accepted \subseteq Socks

(* Every socket the shard holds open has exactly one owner among the app's *)
(* maps and the relays, and no owner holds a closed one, whichever of the  *)
(* tunnel, the timers and the peers ends it; streams and UDP sockets       *)
(* likewise.  Two owners would answer twice, none would leak.  Requests    *)
(* pending keep to their places.                                           *)
SocketsOwned ==
  /\ tcp = ingress \cup ToSet(pending) \cup opens \cup relays \cup Assocs
  /\ Len(pending) <= MAX_PENDING
  /\ ingress \cap (ToSet(pending) \cup opens \cup relays \cup Assocs) = {}
  /\ ToSet(pending) \cap (opens \cup relays \cup Assocs) = {}
  /\ opens \cap (relays \cup Assocs) = {}
  /\ relays \cap Assocs = {}
  /\ \A i, j \in DOMAIN pending : pending[i] = pending[j] => i = j
  /\ streams = opens \cup relays
  /\ usocks = {t \in Socks : assocs[t] = "ready"}
  /\ ingress_timers = ingress

(* on_timer runs Tm::Auth against whatever connection is current: the      *)
(* timer is armed only for the current one and only until it is            *)
(* authenticated, so a deadline never closes a later connection or one     *)
(* that serves.                                                            *)
AuthTimerIsCurrent ==
  \A x \in auth_timers : x = conn.id /\ conn.ctrl /\ ~conn.authed /\ conn.auth_timer

(* The client is never wedged: without a connection exactly one reconnect  *)
(* is armed until it is terminal or shutting down, and a connection that   *)
(* waits for AUTH_RESPONSE has its deadline or is being closed.            *)
NotWedged ==
  Running =>
    /\ Cardinality(reconnect_timers) =
         IF conn.id = 0 /\ ~terminal /\ ~shutting_down THEN 1 ELSE 0
    /\ conn.ctrl /\ ~conn.authed /\ ~conn.closing => conn.id \in auth_timers
    /\ shutting_down => conn.id # 0 \/ h3.conn

(* "Closed for good" and shutting down admit nothing: no UDP association,  *)
(* no request opened by a terminal client, though AUTH_RESPONSE, ingress   *)
(* requests and UDP sockets still in flight arrive after it.               *)
ClosedAdmitsNothing ==
  /\ terminal \/ shutting_down => udp = "Unavailable"
  /\ udp = "Unavailable" => Assocs = {}
  /\ terminal => pending = <<>> /\ opens = {} /\ conn.id = 0

(* Shutdown ends in the exit, from every state of both tunnels. *)
ShutdownExits == shutting_down ~> ~Running

(* An accepted socket is not held for ever without an answer: its request  *)
(* is read or the socket closed, and a pending one is opened, refused or   *)
(* timed out, even if the tunnel never comes up.                           *)
RequestsDecided ==
  \A t \in Socks :
    t \in ingress \cup ToSet(pending) ~> t \notin ingress \cup ToSet(pending) \/ ~Running

(* A lost tunnel is tried again unless the client is told otherwise. *)
Reconnects ==
  reconnect /\ conn.id = 0 ~> conn.id # 0 \/ shutting_down \/ ~Running

(* Sockets have one owner, the one timer that closes a connection is that   *)
(* connection's, the client always has a next step, and a closed one admits *)
(* nothing more.                                                            *)
TunnelSound == SocketsOwned /\ AuthTimerIsCurrent /\ NotWedged /\ ClosedAdmitsNothing

(* The tunnel comes back while it should and goes away when it is told to.  *)
TunnelLives == ShutdownExits /\ Reconnects
=============================================================================
