------------------------------ MODULE MitmConns ------------------------------
(***************************************************************************)
(* The MITM front's connection table (client/mitm/mod.rs, conn.rs,         *)
(* policy.rs): peeking at the ClientHello, the decision to go live or to   *)
(* hand the socket over untouched, the pump and its pass budget, idle and  *)
(* watchdog timers, the ordered close.  rustls, h2 and the socket are      *)
(* external: what a pass of theirs finds is chosen.  A stream and its      *)
(* exchange are module MitmStream's; here both are counted.                *)
(***************************************************************************)
EXTENDS Integers, FiniteSets

CONSTANTS
  Tcps,          \* sockets
  max_conns, mstream_max, PUMP_CAP,
  INGRESS_CAP,   \* read-ahead while peeking
  MaxRx          \* bound: bytes of one connection

MitmConnsAssumption ==
  /\ {max_conns, mstream_max, PUMP_CAP, INGRESS_CAP, MaxRx} \subseteq Nat \ {0}

VARIABLES
  mc,    \* [Tcps -> connection], its timers and its exchanges with it
  mpc    \* none, or the socket whose pump runs with its passes left

mvars == <<mc, mpc>>

(* timer: the kind MitmConn.timer was armed as; tms: what Timers holds for *)
(* this socket.  rx of got bytes, fed to the acceptor; quiet: nothing came *)
(* since the timer was armed.  goaway, notify, work, fate: history.        *)
Absent ==
  [phase |-> "none", timer |-> "none", cont |-> FALSE, tms |-> {}, rx |-> 0, got |-> 0, fed |-> 0, eof |-> FALSE,
   streams |-> 0, exch |-> 0, watchdog |-> FALSE, quiet |-> TRUE, sock |-> "none",
   goaway |-> "no", notify |-> "no", work |-> FALSE, fate |-> "none"]

MInit == mc = [t \in Tcps |-> Absent] /\ mpc = <<>>

Owned == {t \in Tcps : mc[t].phase # "none"}
Live(c) == c.phase \in {"handshaking", "ready"}
Closing(c) == c.phase \in {"flush_h2", "flush_tls", "done"}

-----------------------------------------------------------------------------
(* Timers *)

Disarm(c, k) == [c EXCEPT !.tms = @ \ {k}]
Arm(c, k) == [Disarm(c, c.timer) EXCEPT !.timer = k, !.tms = @ \cup {k}, !.quiet = TRUE]

(* remove: the entry and both its timers; the socket is the caller's. *)
Remove(c) ==
  [Disarm(Disarm(c, c.timer), "cont") EXCEPT
     !.phase = "none", !.timer = "none", !.cont = FALSE, !.watchdog = FALSE, !.fed = 0, !.eof = FALSE,
     !.work = FALSE]

(* arm_liveness: idle without open streams, else the PING, then the dead   *)
(* deadline (late: that much silence has passed).                          *)
ArmLiveness(c, late) ==
  LET open == c.streams > 0
  IN Arm([c EXCEPT !.watchdog = open], IF ~open THEN "idle" ELSE IF late THEN "dead" ELSE "ping")

(* opaque: the socket leaves the front with its bytes. *)
Opaque(c) == [Remove(c) EXCEPT !.fate = "handoff"]

TcpClose(c) == IF c.sock = "open" THEN [c EXCEPT !.sock = "closing", !.fate = "closed"] ELSE c
TcpAbort(c) == IF c.sock \in {"open", "closing"} THEN [c EXCEPT !.sock = "gone", !.fate = "aborted"] ELSE c

-----------------------------------------------------------------------------
(* Routing *)

(* MitmPolicy::route and what follows it: each check, in order, may send   *)
(* the flow the opaque way.                                                *)
Hello == [sni : {"none", "bad", "ok"}, h2 : BOOLEAN, ignored : BOOLEAN, scope : BOOLEAN, leaf : BOOLEAN, tls : BOOLEAN]

Routed(a) == a.sni = "ok" /\ a.h2 /\ ~a.ignored /\ a.scope

(* decide, go_live: nothing is consumed before the commit point. *)
Decide(c, a) ==
  IF ~Routed(a) \/ ~a.leaf \/ ~a.tls THEN Opaque(c)
  ELSE [Arm(c, "handshake") EXCEPT !.phase = "handshaking", !.rx = @ - c.fed]

-----------------------------------------------------------------------------
(* Ends *)

(* Mutant: the streams go, their exchanges stay. *)
DrainOwnerNone(c) == c

DrainOwner(c) == [c EXCEPT !.exch = 0]

(* end: the exchanges are reset, then the ordered close under its          *)
(* deadline; a socket error only settles.                                  *)
EndConn(c, end) ==
  LET d == [DrainOwner(c) EXCEPT !.streams = 0, !.work = TRUE]
      e == Arm(d, "closing")
  IN CASE ~Live(c) -> c
       [] end = "socket" -> [d EXCEPT !.phase = "done"]
       [] c.phase = "ready" /\ end # "tls" -> [e EXCEPT !.phase = "flush_h2", !.goaway = "due"]
       [] OTHER -> [e EXCEPT !.phase = "flush_tls", !.notify = IF end = "tls" THEN "no" ELSE "queued"]

(* closing_pass: rx is discarded; close_notify waits until the GOAWAY has  *)
(* left the pipe, tcp_close until TLS has nothing left.  closed: h2 has    *)
(* written its GOAWAY; out: the socket took all TLS output.                *)
ClosingPass(c, closed, out) ==
  LET d == [c EXCEPT !.rx = 0]
      g == CASE c.goaway = "no" -> "no"
             [] closed /\ out -> "out"
             [] closed -> "piped"
             [] OTHER -> c.goaway
  IN CASE c.phase = "flush_h2" /\ g = "out" ->
            <<TRUE, [d EXCEPT !.goaway = g, !.notify = "queued", !.phase = "flush_tls"]>>
       [] c.phase = "flush_h2" -> <<g # c.goaway, [d EXCEPT !.goaway = g]>>
       [] c.phase = "flush_tls" /\ out ->
            <<TRUE, TcpClose([d EXCEPT !.phase = "done", !.notify = IF @ = "queued" THEN "out" ELSE @])>>
       [] OTHER -> <<FALSE, d>>

(* pass of a live connection: k bytes go in, the handshake may finish,     *)
(* streams open (refused beyond mstream_max) and end with their exchanges. *)
LivePass(c, k, ready, opened, ended) ==
  LET a == [c EXCEPT !.rx = @ - k, !.quiet = @ /\ k = 0]
      b == IF c.phase = "handshaking" /\ ready THEN [Arm(a, "idle") EXCEPT !.phase = "ready"] ELSE a
      n == IF c.phase = "ready" /\ c.streams + opened <= mstream_max THEN opened ELSE 0
  IN [b EXCEPT !.streams = @ + n - ended, !.exch = @ + n - ended]

-----------------------------------------------------------------------------
(* The pump: passes until one moves nothing or the budget is spent; then   *)
(* the continuation, and the liveness timer if the count crossed zero.     *)

Pump(t, c) == mc' = [mc EXCEPT ![t] = c] /\ mpc' = <<t, PUMP_CAP>>
Quietly(t, c) == mc' = [mc EXCEPT ![t] = c] /\ UNCHANGED mpc
Resting == mpc = <<>>

Settle(c) ==
  LET d == IF c.work /\ ~c.cont THEN [c EXCEPT !.cont = TRUE, !.tms = @ \cup {"cont"}] ELSE c
  IN IF d.phase = "ready" /\ d.watchdog # (d.streams > 0) THEN ArmLiveness(d, FALSE) ELSE d

PumpEnd ==
  /\ ~Resting
  /\ LET t == mpc[1] c == mc[t]
     IN /\ mpc[2] = 0 \/ (~c.work /\ mpc[2] < PUMP_CAP)
        /\ mc' = [mc EXCEPT ![t] = Settle(c)] /\ mpc' = <<>>

PumpPass ==
  /\ ~Resting
  /\ LET t == mpc[1] c == mc[t]
         Step(d, moved) == mc' = [mc EXCEPT ![t] = [d EXCEPT !.work = moved]] /\ mpc' = <<t, mpc[2] - 1>>
     IN /\ mpc[2] > 0 /\ (mpc[2] = PUMP_CAP \/ c.work)
        /\ \/ /\ Live(c)
              /\ \E k \in 0 .. c.rx, ready \in BOOLEAN, opened \in 0 .. 1, ended \in 0 .. c.streams :
                   LET d == LivePass(c, k, ready, opened, ended)
                   IN \/ Step(d, TRUE)
                      \/ d = c /\ Step(d, FALSE)
           \/ Live(c) /\ \E end \in {"tls", "h2"} : Step(EndConn(c, end), TRUE)
           \/ /\ Closing(c)
              /\ \E closed, out \in BOOLEAN :
                   LET r == ClosingPass(c, closed, out) IN Step(r[2], r[1])

-----------------------------------------------------------------------------
(* Callbacks *)

(* on_accepted: at capacity the socket is handed over at once. *)
Accept ==
  /\ Resting
  /\ \E t \in Tcps :
       /\ mc[t].sock = "none"
       /\ Quietly(t, IF Cardinality(Owned) >= max_conns
                     THEN [Absent EXCEPT !.sock = "open", !.fate = "handoff"]
                     ELSE Arm([Absent EXCEPT !.sock = "open", !.phase = "peek"], "peek"))

(* on_tcp_data while peeking: fed up to some byte, where the acceptor has  *)
(* a ClientHello, wants more, or gives up.                                 *)
PeekData ==
  /\ Resting
  /\ \E t \in Tcps :
       LET c == mc[t]
       IN /\ c.phase = "peek" /\ ~c.eof /\ c.rx < INGRESS_CAP /\ c.got < MaxRx
          /\ LET d == [c EXCEPT !.rx = @ + 1, !.got = @ + 1]
                 f == [d EXCEPT !.fed = d.rx]
             IN \/ Quietly(t, Opaque(f))                              \* not TLS
                \/ Quietly(t, IF f.rx >= INGRESS_CAP THEN Opaque(f) ELSE f)
                \/ \E a \in Hello, fed \in c.fed + 1 .. d.rx :
                     LET r == Decide([d EXCEPT !.fed = fed], a)
                     IN IF Live(r) THEN Pump(t, r) ELSE Quietly(t, r)

(* on_tcp_data otherwise. *)
Data ==
  /\ Resting
  /\ \E t \in Tcps :
       LET c == mc[t]
       IN /\ c.phase \notin {"none", "peek"} /\ c.sock = "open" /\ ~c.eof /\ c.got < MaxRx
          /\ Pump(t, [c EXCEPT !.rx = @ + 1, !.got = @ + 1])

(* on_tcp_end(ReadEof) *)
Eof ==
  /\ Resting
  /\ \E t \in Owned :
       LET c == mc[t] d == [c EXCEPT !.eof = TRUE]
       IN /\ c.sock = "open" /\ ~c.eof
          /\ IF c.phase = "peek" THEN Quietly(t, IF c.rx = 0 THEN Remove(TcpClose(d)) ELSE Opaque(d))
             ELSE Pump(t, d)

(* on_tcp_end(Error): the shard has reset the socket. *)
SocketError ==
  /\ Resting
  /\ \E t \in Owned :
       LET c == [mc[t] EXCEPT !.sock = "gone", !.fate = "error", !.rx = 0]
       IN mc[t].sock = "open" /\ Quietly(t, Remove(EndConn(c, "socket")))

(* on_tcp_writable, or an exchange's readiness for a stream. *)
Wakeup == Resting /\ \E t \in Owned : mc[t].sock = "open" /\ mc[t].phase # "peek" /\ Pump(t, mc[t])

(* on_timer *)
Fire ==
  /\ Resting
  /\ \E t \in Tcps : \E k \in mc[t].tms :
       LET c == Disarm(mc[t], k)
       IN CASE k = "cont" -> Pump(t, [c EXCEPT !.cont = FALSE])
            [] k # "cont" /\ c.phase = "none" -> Quietly(t, c)
            [] k # "cont" /\ c.phase = "peek" -> Quietly(t, Opaque(c))
            [] k # "cont" /\ c.phase = "handshaking" -> Pump(t, EndConn(c, "handshake"))
            [] k # "cont" /\ c.phase = "ready" ->
                 Pump(t, IF c.quiet /\ k = "idle" /\ c.streams = 0 THEN EndConn(c, "idle")
                         ELSE IF c.quiet /\ k = "dead" /\ c.streams > 0 THEN EndConn(c, "dead")
                         ELSE ArmLiveness(c, c.quiet /\ k = "ping"))
            [] OTHER -> Quietly(t, Remove(TcpAbort(c)))

(* on_shutdown, for one connection of those it goes through. *)
ShutdownConn ==
  /\ Resting
  /\ \E t \in Owned :
       LET c == mc[t]
       IN \/ c.phase = "peek" /\ Quietly(t, Remove(TcpClose(c)))
          \/ Live(c) /\ Pump(t, EndConn(c, "shutdown"))

MNext ==
  \/ PumpPass \/ PumpEnd \/ Accept \/ PeekData \/ Data \/ Eof \/ SocketError \/ Wakeup \/ Fire \/ ShutdownConn

MSpec == MInit /\ [][MNext]_mvars

-----------------------------------------------------------------------------
(* Properties *)

(* Each connection has its one right deadline, whatever phase change armed *)
(* it: the peek, the handshake, idle or watchdog by its open streams, the  *)
(* close; and none outlives its connection.                                *)
OneDeadline ==
  Resting => \A t \in Tcps :
    LET c == mc[t]
    IN /\ c.tms = (IF c.phase = "none" THEN {} ELSE {c.timer}) \cup (IF c.cont THEN {"cont"} ELSE {})
       /\ c.phase = "none" => ~c.cont
       /\ CASE c.phase = "none" -> c.timer = "none"
            [] c.phase = "peek" -> c.timer = "peek"
            [] c.phase = "handshaking" -> c.timer = "handshake"
            [] c.phase = "ready" -> IF c.streams > 0 THEN c.timer \in {"ping", "dead"} ELSE c.timer = "idle"
            [] OTHER -> c.timer = "closing"

(* Exchanges belong to streams of live connections, within the limits.     *)
ExchangesOwned ==
  /\ Cardinality(Owned) <= max_conns
  /\ \A t \in Tcps : mc[t].exch = mc[t].streams /\ mc[t].streams <= mstream_max
                      /\ (~Live(mc[t]) => mc[t].exch = 0)

(* A socket goes the opaque way with every byte it ever received.          *)
HandoffWhole == \A t \in Tcps : mc[t].fate = "handoff" => (mc[t].rx = mc[t].got /\ mc[t].sock = "open")

(* The GOAWAY is never overtaken by close_notify, nor that by the close.   *)
OrderedClose ==
  \A t \in Tcps :
    /\ mc[t].notify # "no" => mc[t].goaway \in {"no", "out"}
    /\ (mc[t].fate = "closed" /\ mc[t].phase = "done") => mc[t].notify # "queued"

(* Work a pump leaves behind is taken up by its continuation.              *)
LeftoverContinues == Resting => \A t \in Owned : mc[t].work => mc[t].cont

(* The table's books, and what browsers see of it. *)
ConnsOwned == OneDeadline /\ ExchangesOwned
ConnsOrderly == HandoffWhole /\ OrderedClose /\ LeftoverContinues
=============================================================================
