------------------------------- MODULE Relay -------------------------------
(***************************************************************************)
(* One flow relay: a QUIC stream bound to a TCP socket by the shard        *)
(* (mq-runtime/src/shard/relay.rs, with settle_relay and pump_relays of    *)
(* shard/mod.rs and the event routing of shard/routing.rs).                *)
(*                                                                         *)
(* The shard is single threaded: a handler runs to its end.  Handlers are  *)
(* therefore functions on a flow p = [r, s, k, dead]:                      *)
(*    r     the Relay struct                                               *)
(*    s     the stream as xquic keeps it (external)                        *)
(*    k     the TCP socket as the kernel keeps it (external)               *)
(*    dead  whether the shard's dead_streams has an entry for the stream   *)
(* and an action applies one of them.  Bytes are counted, not stored.      *)
(*                                                                         *)
(* s.arrived/s.got: bytes the peer delivered / the relay has read (the     *)
(* reply the app queued before the relay started is counted in both);      *)
(* s.room: bytes xquic accepts now; s.wantW: it owes a StreamWritable;     *)
(* s.acc/s.finAcc: what it has accepted.  k.sent/k.taken/k.out: bytes the  *)
(* TCP peer wrote / the relay read / the relay wrote back.                 *)
(***************************************************************************)
EXTENDS Naturals, Sequences, RingBuf

CONSTANTS
  RELAY_BUF,   \* capacity of each direction's buffer
  MaxUp,       \* bound: bytes the TCP peer ever writes
  MaxDown,     \* bound: bytes that ever arrive on the stream
  Faults       \* whether resets, socket errors and connection loss happen

ASSUME RelayAssumption ==
  /\ RELAY_BUF \in Nat \ {0}
  /\ MaxUp \in Nat
  /\ MaxDown \in Nat
  /\ Faults \in BOOLEAN

VARIABLES
  relay,     \* p.r
  stream,    \* p.s
  tcp,       \* p.k
  dead,      \* p.dead
  evq,       \* the transport's events for this stream and connection, oldest first
  driving,   \* a drive of the shard is dispatching events
  closed     \* this dispatch pass has seen the stream's StreamClosed

vars == <<relay, stream, tcp, dead, evq, driving, closed>>

Flow == [r |-> relay, s |-> stream, k |-> tcp, dead |-> dead]

Become(p) ==
  /\ relay' = p.r
  /\ stream' = p.s
  /\ tcp' = p.k
  /\ dead' = p.dead

Least(a, b) == IF a <= b THEN a ELSE b

----------------------------------------------------------------------------
(* Predicates of the Relay struct. *)

Open(r) == r.state = "Open"

(* The relay is still in the shard's tcp and streams tables. *)
Owned(p) == p.k.fate = "open"

FinOwed(r) == r.readEof /\ IsEmpty(r.toQuic) /\ ~r.finSent

(* Mutant: SHUT_WR as soon as the peer's FIN is read. *)
ShutWrOwedAtFin(r) == r.finSeen /\ ~r.writeShut

(* shut_wr_requested is set and followed by tcp_write_shut in the same     *)
(* handler (take_owed_shutdown, shutdown_done): one flag stands for both.  *)
ShutWrOwed(r) == r.finSeen /\ IsEmpty(r.toTcp) /\ ~r.writeShut

IsRunnable(r) ==
  /\ Open(r)
  /\ \/ ~IsEmpty(r.toQuic) /\ r.writable
     \/ r.readable /\ Space(RELAY_BUF, r.toTcp) > 0 /\ ~r.gone
     \/ r.probe
     \/ FinOwed(r) /\ r.writable
     \/ ShutWrOwed(r)

WantsRead(r) ==
  Open(r) /\ ~r.readEof /\ r.writable /\ Space(RELAY_BUF, r.toQuic) > 0

WantsWrite(r) == Open(r) /\ ~IsEmpty(r.toTcp)

----------------------------------------------------------------------------
(* What xquic answers.  A released stream is stale for every call; a reset *)
(* one fails reads, a stopped one fails writes.                            *)

SendFails(s) == s.cond \in {"stopped", "released"}

RecvFails(s) == s.cond \in {"reset", "released"}

AllRead(s) == s.peerFin /\ s.got = s.arrived

----------------------------------------------------------------------------
(* The steps of a handler, as functions on a flow. *)

AbortRelay(p) == IF Open(p.r) THEN [p EXCEPT !.r.state = "Abort"] ELSE p

(* Mutant: the FIN of the peer read counts as passed on. *)
CheckCleanAtFin(p) ==
  IF Open(p.r) /\ p.r.finSent /\ p.r.finSeen
  THEN [p EXCEPT !.r.state = "Clean"]
  ELSE p

CheckClean(p) ==
  IF Open(p.r) /\ p.r.finSent /\ p.r.writeShut /\ IsEmpty(p.r.toTcp)
  THEN [p EXCEPT !.r.state = "Clean"]
  ELSE p

(* pump step (0): the zero-capacity recv. *)
ResetProbe(p) ==
  IF ~(Open(p.r) /\ p.r.probe) THEN p
  ELSE IF RecvFails(p.s) THEN AbortRelay([p EXCEPT !.r.probe = FALSE])
  ELSE IF AllRead(p.s)
  THEN [p EXCEPT !.r = [p.r EXCEPT !.probe = FALSE, !.finSeen = TRUE, !.readable = FALSE],
                 !.s.finRead = TRUE]
  ELSE [p EXCEPT !.r.probe = FALSE]

(* Mutant: a short send drops what was not accepted. *)
SendDataLossy(p) ==
  LET n == Least(p.s.room, RLen(p.r.toQuic))
  IN  IF ~(Open(p.r) /\ p.r.writable /\ ~IsEmpty(p.r.toQuic)) THEN p
      ELSE IF SendFails(p.s) THEN AbortRelay(p)
      ELSE [p EXCEPT !.r.toQuic = EmptyRing,
                     !.s = [p.s EXCEPT !.room = @ - n, !.acc = @ + n]]

(* xquic accepts n of the buffered bytes, and the FIN with the last one.   *)
Accepted(p, n) ==
  LET full == n = RLen(p.r.toQuic)
      fin  == p.r.readEof /\ full
  IN  [p EXCEPT !.r = [p.r EXCEPT !.toQuic = Consume(@, n), !.writable = full,
                                !.finSent = @ \/ fin],
                !.s = [p.s EXCEPT !.room = @ - n, !.acc = @ + n,
                                !.finAcc = @ \/ fin, !.wantW = ~full]]

(* The data loop of pump_to_quic.  The buffer is linear and never larger   *)
(* than the budget, so one send offers all of it and the loop ends there:  *)
(* everything accepted, or stream_writable cleared, or aborted.            *)
SendData(p) ==
  IF ~(Open(p.r) /\ p.r.writable /\ RLen(p.r.toQuic) > 0) THEN p
  ELSE IF SendFails(p.s) THEN AbortRelay(p)
  ELSE Accepted(p, Least(p.s.room, RLen(p.r.toQuic)))

(* The FIN-only write that closes an already drained direction. *)
SendFin(p) ==
  IF ~(Open(p.r) /\ p.r.writable /\ FinOwed(p.r)) THEN p
  ELSE IF SendFails(p.s) THEN AbortRelay(p)
  ELSE IF p.s.room = 0 /\ ~p.s.finFree
  THEN [p EXCEPT !.r.writable = FALSE, !.s.wantW = TRUE]
  ELSE [p EXCEPT !.r.finSent = TRUE, !.s.finAcc = TRUE]

PumpToQuic(p) == SendFin(SendData(p))

(* The relay has read n bytes, and the FIN if they are the last ones; the  *)
(* latch stays set only if the buffer's tail was used up first.            *)
Received(p, n) ==
  LET fin == p.s.peerFin /\ p.s.got + n = p.s.arrived
  IN  [p EXCEPT !.r = [p.r EXCEPT !.toTcp = Commit(@, n), !.finSeen = @ \/ fin,
                                !.readable = ~fin /\ n = Space(RELAY_BUF, p.r.toTcp)],
                !.s = [p.s EXCEPT !.got = @ + n, !.finRead = @ \/ fin]]

(* The loop of pump_to_tcp: reads until the buffer's tail is used up, the  *)
(* stream is drained (Blocked clears the latch) or its FIN comes.          *)
PumpToTcp(p) ==
  IF ~(Open(p.r) /\ p.r.readable /\ Space(RELAY_BUF, p.r.toTcp) > 0 /\ ~p.r.gone) THEN p
  ELSE IF RecvFails(p.s) THEN AbortRelay(p)
  ELSE Received(p, Least(Space(RELAY_BUF, p.r.toTcp), p.s.arrived - p.s.got))

PumpAll(p) == CheckClean(PumpToTcp(PumpToQuic(ResetProbe(p))))

(* Mutant: no probe is owed for a readable the relay cannot act on. *)
OnReadableNoProbe(p) ==
  IF p.r.gone THEN p ELSE [p EXCEPT !.r.readable = ~p.r.finSeen]

(* on_stream_event. *)
OnReadable(p) ==
  IF p.r.gone THEN p
  ELSE [p EXCEPT !.r = [p.r EXCEPT
           !.readable = ~p.r.finSeen,
           !.probe = @ \/ p.r.finSeen \/ Space(RELAY_BUF, p.r.toTcp) = 0]]

OnWritable(p) == [p EXCEPT !.r.writable = TRUE]

OnStreamClosed(p) ==
  IF p.r.finSeen /\ p.r.finSent
  THEN CheckClean([p EXCEPT
         !.r = [p.r EXCEPT !.gone = TRUE, !.readable = FALSE, !.probe = FALSE]])
  ELSE AbortRelay(p)

OnStreamEvent(p, e) ==
  IF ~Open(p.r) THEN p
  ELSE CASE e = "R"  -> OnReadable(p)
         [] e = "W"  -> OnWritable(p)
         [] e = "C"  -> OnStreamClosed(p)
         [] e = "CC" -> AbortRelay(p)

(* settle_relay, part one: an owed SHUT_WR is issued and done at once. *)
IssueShutdown(p) ==
  IF Open(p.r) /\ ShutWrOwed(p.r)
  THEN CheckClean([p EXCEPT !.r.writeShut = TRUE, !.k.shut = TRUE])
  ELSE p

(* stream_reset abandons a live stream; xquic then closes it. *)
StreamReset(s) == IF s.cond = "released" THEN s ELSE [s EXCEPT !.abandoned = TRUE]

(* Mutant: a dead entry only for an aborted relay. *)
RetireCleanForgets(p) ==
  IF Open(p.r) THEN p
  ELSE [p EXCEPT !.dead = @ \/ p.r.state = "Abort",
                 !.s = IF p.r.state = "Abort" THEN StreamReset(@) ELSE @,
                 !.k.fate = IF p.r.state = "Abort" THEN "abort" ELSE "close"]

(* Mutant: a dead entry even when the StreamClosed was already consumed. *)
RetireAlwaysDead(p) ==
  IF Open(p.r) THEN p
  ELSE [p EXCEPT !.dead = TRUE,
                 !.s = IF p.r.state = "Abort" THEN StreamReset(@) ELSE @,
                 !.k.fate = IF p.r.state = "Abort" THEN "abort" ELSE "close"]

(* settle_relay, part two: an ended relay leaves the tables. *)
Retire(p) ==
  IF Open(p.r) THEN p
  ELSE [p EXCEPT !.dead = @ \/ ~p.r.gone,
                 !.s = IF p.r.state = "Abort" THEN StreamReset(@) ELSE @,
                 !.k.fate = IF p.r.state = "Abort" THEN "abort" ELSE "close"]

Settle(p) == IF Owned(p) THEN Retire(IssueShutdown(p)) ELSE p

----------------------------------------------------------------------------
(* Relay::start: what the app read ahead from TCP (pre), what it queued    *)
(* for TCP followed by what it read ahead from the stream (q), whether TCP *)
(* had ended (eof) and whether the stream's FIN was read (fin).            *)

Start(pre, eof, q, fin) ==
  [toQuic |-> Commit(EmptyRing, pre), toTcp |-> Commit(EmptyRing, q),
   readable |-> ~fin, writable |-> TRUE, finSeen |-> fin, gone |-> FALSE,
   probe |-> FALSE, readEof |-> eof, writeShut |-> FALSE, finSent |-> FALSE,
   state |-> "Open"]

StreamAtStart(q, fin, room, finFree) ==
  [arrived |-> q, got |-> q, peerFin |-> fin, finRead |-> fin, room |-> room,
   wantW |-> FALSE, finFree |-> finFree, acc |-> 0, finAcc |-> FALSE,
   cond |-> "live", abandoned |-> FALSE, connUp |-> TRUE]

TcpAtStart(pre, eof) ==
  [sent |-> pre, taken |-> pre, eof |-> eof, out |-> 0, shut |-> FALSE,
   fate |-> "open"]

Init ==
  /\ \E pre \in 0..Least(RELAY_BUF, MaxUp), q \in 0..Least(RELAY_BUF, MaxDown),
        eof, fin, finFree \in BOOLEAN, room \in 0..RELAY_BUF :
       /\ relay = Start(pre, eof, q, fin)
       /\ stream = StreamAtStart(q, fin, room, finFree)
       /\ tcp = TcpAtStart(pre, eof)
  /\ dead = FALSE
  /\ evq \in {<<>>, <<"R">>}
  /\ driving = FALSE
  /\ closed = FALSE

----------------------------------------------------------------------------
(* Driver inputs: TCP reads and writes of this socket. *)

Idle == ~driving

(* tcp_rx_commit(Bytes(n)). *)
RxBytes(p, n) ==
  CheckClean(PumpToQuic([p EXCEPT !.r.toQuic = Commit(@, n), !.k.taken = @ + n]))

TcpRx ==
  /\ Idle /\ Owned(Flow) /\ WantsRead(relay)
  /\ \E n \in 1..Least(Space(RELAY_BUF, relay.toQuic), tcp.sent - tcp.taken) :
       Become(Settle(RxBytes(Flow, n)))
  /\ UNCHANGED <<evq, driving, closed>>

(* tcp_rx_commit(Eof). *)
RxEof(p) == CheckClean(PumpToQuic([p EXCEPT !.r.readEof = TRUE]))

TcpRxEof ==
  /\ Idle /\ Owned(Flow) /\ WantsRead(relay)
  /\ tcp.eof /\ tcp.sent = tcp.taken
  /\ Become(Settle(RxEof(Flow)))
  /\ UNCHANGED <<evq, driving, closed>>

(* tcp_tx_commit(Bytes(n)). *)
TxBytes(p, n) == [p EXCEPT !.r.toTcp = Consume(@, n), !.k.out = @ + n]

TcpTx ==
  /\ Idle /\ Owned(Flow) /\ WantsWrite(relay)
  /\ \E n \in 1..RLen(relay.toTcp) : Become(Settle(TxBytes(Flow, n)))
  /\ UNCHANGED <<evq, driving, closed>>

(* tcp_rx_commit(Error), tcp_tx_commit(Error), or on_tcp_error: the poller *)
(* reports an error of the socket whatever the relay waits for.            *)
TcpError ==
  /\ Faults
  /\ Idle /\ Owned(Flow)
  /\ Become(Settle(AbortRelay(Flow)))
  /\ UNCHANGED <<evq, driving, closed>>

----------------------------------------------------------------------------
(* A drive of the shard: dispatch every queued event, then pump. *)

DriveBegin ==
  /\ Idle
  /\ driving' = TRUE
  /\ UNCHANGED <<relay, stream, tcp, dead, evq, closed>>

(* A stream event: to the relay, or dropped if the stream is dead (the     *)
(* third case, to the app, is what LateEventsDropped excludes).            *)
DispatchStream ==
  /\ driving /\ evq # <<>> /\ Head(evq) # "CC"
  /\ Become(IF Owned(Flow) THEN Settle(OnStreamEvent(Flow, Head(evq))) ELSE Flow)
  /\ closed' = (closed \/ (Head(evq) = "C" /\ (Owned(Flow) \/ dead)))
  /\ evq' = Tail(evq)
  /\ UNCHANGED driving

(* ConnClosed sweeps the relays of the connection and its dead entries. *)
SweepConn(p) == [Settle(OnStreamEvent(p, "CC")) EXCEPT !.dead = FALSE]

DispatchConnClosed ==
  /\ driving /\ evq # <<>> /\ Head(evq) = "CC"
  /\ Become(SweepConn(Flow))
  /\ evq' = Tail(evq)
  /\ UNCHANGED <<driving, closed>>

PumpRelay(p) ==
  Settle(IF Owned(p) /\ IsRunnable(p.r) THEN PumpAll(p) ELSE p)

(* End of the pass: the dead entry of a closed stream goes, then pump. *)
DriveEnd ==
  /\ driving /\ evq = <<>>
  /\ Become(PumpRelay([Flow EXCEPT !.dead = @ /\ ~closed]))
  /\ driving' = FALSE
  /\ closed' = FALSE
  /\ UNCHANGED evq

----------------------------------------------------------------------------
(* The environment: TCP peer, QUIC peer and xquic, between drives.  A      *)
(* level event is queued at most once, and only for a live, not abandoned  *)
(* stream (mq-transport/src/events.rs).                                    *)

Queued(e) == \E i \in DOMAIN evq : evq[i] = e

PushLevel(e) ==
  evq' = IF stream.abandoned \/ stream.cond = "released" \/ Queued(e)
         THEN evq ELSE Append(evq, e)

TcpPeerWrites ==
  /\ Idle /\ ~tcp.eof /\ tcp.sent < MaxUp
  /\ tcp' = [tcp EXCEPT !.sent = @ + 1]
  /\ UNCHANGED <<relay, stream, dead, evq, driving, closed>>

TcpPeerEnds ==
  /\ Idle /\ ~tcp.eof
  /\ tcp' = [tcp EXCEPT !.eof = TRUE]
  /\ UNCHANGED <<relay, stream, dead, evq, driving, closed>>

Arrives ==
  /\ Idle /\ stream.cond \in {"live", "stopped"} /\ ~stream.peerFin
  /\ stream.arrived < MaxDown
  /\ stream' = [stream EXCEPT !.arrived = @ + 1]
  /\ PushLevel("R")
  /\ UNCHANGED <<relay, tcp, dead, driving, closed>>

PeerFin ==
  /\ Idle /\ stream.cond \in {"live", "stopped"} /\ ~stream.peerFin
  /\ stream' = [stream EXCEPT !.peerFin = TRUE]
  /\ PushLevel("R")
  /\ UNCHANGED <<relay, tcp, dead, driving, closed>>

(* Flow-control credit; the owed StreamWritable is raised with it. *)
Credit ==
  /\ Idle /\ stream.cond # "released" /\ stream.room < RELAY_BUF
  /\ stream' = [stream EXCEPT !.room = @ + 1, !.wantW = FALSE]
  /\ IF stream.wantW THEN PushLevel("W") ELSE UNCHANGED evq
  /\ UNCHANGED <<relay, tcp, dead, driving, closed>>

(* xquic may also notify without need. *)
Renotify ==
  /\ Idle
  /\ \E e \in {"R", "W"} : PushLevel(e)
  /\ UNCHANGED <<relay, stream, tcp, dead, driving, closed>>

PeerResets ==
  /\ Faults
  /\ Idle /\ stream.cond = "live"
  /\ stream' = [stream EXCEPT !.cond = "reset"]
  /\ PushLevel("R")
  /\ UNCHANGED <<relay, tcp, dead, driving, closed>>

(* STOP_SENDING: no event of this stream reaches the relay. *)
PeerStops ==
  /\ Faults
  /\ Idle /\ stream.cond = "live" /\ ~stream.finAcc
  /\ stream' = [stream EXCEPT !.cond = "stopped"]
  /\ UNCHANGED <<relay, tcp, dead, evq, driving, closed>>

(* on_stream_close: xquic frees a stream both sides of which are terminal, *)
(* at the earliest inside the stream_reset that abandoned it.              *)
StreamReleased ==
  /\ stream.cond # "released"
  /\ stream.abandoned \/ (Idle /\ stream.finAcc /\ stream.finRead)
  /\ stream' = [stream EXCEPT !.cond = "released"]
  /\ evq' = Append(evq, "C")
  /\ UNCHANGED <<relay, tcp, dead, driving, closed>>

(* The connection closes: its streams are released first. *)
ConnLost ==
  /\ Faults
  /\ Idle /\ stream.connUp
  /\ stream' = [stream EXCEPT !.cond = "released", !.connUp = FALSE]
  /\ evq' = evq \o (IF stream.cond = "released" THEN <<"CC">> ELSE <<"C", "CC">>)
  /\ UNCHANGED <<relay, tcp, dead, driving, closed>>

Env == \/ TcpPeerWrites \/ TcpPeerEnds \/ Arrives \/ PeerFin \/ Credit
       \/ Renotify \/ PeerResets \/ PeerStops \/ StreamReleased \/ ConnLost

Shard == \/ TcpRx \/ TcpRxEof \/ TcpTx \/ TcpError
         \/ DriveBegin \/ DispatchStream \/ DispatchConnClosed \/ DriveEnd

Next == Env \/ Shard

Spec == Init /\ [][Next]_vars

(* The driver calls drive in a loop and a drive ends: driving alternates.  *)
(* Nothing is assumed of the sockets or of the peers.                      *)
DriveFairness == WF_driving(driving' = ~driving)

FairSpec == Spec /\ DriveFairness

(* The driver polls the socket, and xquic grants credit to a blocked sender *)
(* and releases a finished stream: while one of these steps is possible    *)
(* again and again, one is taken again and again.  Each happens finitely   *)
(* often in a flow, so none is starved.  (The guards and effects of TcpRx,  *)
(* TcpRxEof and TcpTx are spelled out: TLC need not evaluate ENABLED of a   *)
(* whole handler.)                                                         *)
CanRx == Idle /\ Owned(Flow) /\ WantsRead(relay) /\ (tcp.taken < tcp.sent \/ tcp.eof)

CanTx == Idle /\ Owned(Flow) /\ WantsWrite(relay)

Moved ==
  \/ tcp'.taken > tcp.taken \/ tcp'.out > tcp.out \/ (relay'.readEof /\ ~relay.readEof)
  \/ Credit \/ StreamReleased

MoveFairness ==
  []<>(CanRx \/ CanTx \/ ENABLED Credit \/ ENABLED StreamReleased) => []<><<Moved>>_vars

LiveSpec == FairSpec /\ MoveFairness

----------------------------------------------------------------------------
(* Properties. *)

RelayRecords ==
  [toQuic : Ring(RELAY_BUF), toTcp : Ring(RELAY_BUF),
   readable : BOOLEAN, writable : BOOLEAN, finSeen : BOOLEAN, gone : BOOLEAN,
   probe : BOOLEAN, readEof : BOOLEAN, writeShut : BOOLEAN, finSent : BOOLEAN,
   state : {"Open", "Clean", "Abort"}]

StreamRecords ==
  [arrived : Nat, got : Nat, peerFin : BOOLEAN, finRead : BOOLEAN,
   room : Nat, wantW : BOOLEAN, finFree : BOOLEAN, acc : Nat,
   finAcc : BOOLEAN, cond : {"live", "reset", "stopped", "released"},
   abandoned : BOOLEAN, connUp : BOOLEAN]

TcpRecords ==
  [sent : Nat, taken : Nat, eof : BOOLEAN, out : Nat, shut : BOOLEAN,
   fate : {"open", "close", "abort"}]

TypeOK ==
  /\ relay \in RelayRecords
  /\ stream \in StreamRecords
  /\ tcp \in TcpRecords
  /\ dead \in BOOLEAN
  /\ evq \in Seq({"R", "W", "C", "CC"})
  /\ driving \in BOOLEAN
  /\ closed \in BOOLEAN

(* No byte is lost, duplicated or made up by the relay: what it read from  *)
(* one side and has not passed on is exactly what its buffer holds, and a  *)
(* FIN or SHUT_WR is sent only behind the last byte of a finished source.  *)
Faithful(p) ==
  /\ p.k.taken <= p.k.sent /\ p.s.got <= p.s.arrived
  /\ RLen(p.r.toQuic) + p.s.acc = p.k.taken
  /\ RLen(p.r.toTcp) + p.k.out = p.s.got
  /\ p.s.finAcc => p.k.eof /\ p.s.acc = p.k.sent
  /\ p.k.shut => p.s.peerFin /\ p.k.out = p.s.arrived

BytesConserved == Faithful(Flow)

(* relay.rs RelayEnd::Clean "Both directions finished": the socket is      *)
(* closed gracefully only when each side has every byte and the end mark   *)
(* of the other, however FINs, closes and buffer drains interleave.        *)
CleanComplete ==
  tcp.fate = "close" => /\ stream.finAcc /\ stream.acc = tcp.sent /\ tcp.eof
                        /\ tcp.shut /\ tcp.out = stream.arrived

(* shard/routing.rs "late events for a closed relay dropped": while a      *)
(* stream event is queued, the relay owns the stream or a dead entry does. *)
(* And that entry does not leak: its StreamClosed is still to come.        *)
LateEventsDropped ==
  /\ (\E e \in {"R", "W", "C"} : Queued(e)) => Owned(Flow) \/ dead
  /\ dead => stream.cond # "released" \/ Queued("C") \/ closed \/ Queued("CC")

(* relay.rs is_runnable "else it spins": a drive leaves no runnable relay, *)
(* and none with write interest that has nothing to write.                 *)
PumpQuiesces == [][DriveEnd => ~IsRunnable(relay')]_vars

(* relay.rs reset_probe: a peer reset ends the relay even when it reads    *)
(* nothing (read side finished, or to_tcp full and the client not reading) *)
(* as long as the shard keeps driving; unless both FINs had passed already *)
(* and the stream closed, when only TCP is left to drain.                  *)
ResetNoticed == stream.cond = "reset" ~> tcp.fate # "open" \/ relay.gone

(* The pump neither spins nor sleeps through a reset. *)
FlowLives == PumpQuiesces /\ ResetNoticed

(* With both sources finished and no fault, the flow ends, and clean.      *)
Completes == (tcp.eof /\ stream.peerFin) ~> tcp.fate = "close"

(* shard dead_streams: an entry does not outlive the stream forever. *)
DeadReclaimed == dead ~> ~dead

(* The relay implements the two-way half-close pipe of FlowPipe. *)
Pipe == INSTANCE FlowPipe WITH
  up   <- [in |-> tcp.sent, inFin |-> tcp.eof,
           out |-> stream.acc, outFin |-> stream.finAcc],
  down <- [in |-> stream.arrived, inFin |-> stream.peerFin,
           out |-> tcp.out, outFin |-> tcp.shut],
  end  <- tcp.fate

(* What a flow promises (FlowPipe.PipeSpec), kept by the relay: bytes pass  *)
(* in order and once, a side sees the end only behind the last byte, and a  *)
(* graceful close comes only when both sides have seen it.                  *)
ImplementsPipe == Pipe!PipeSpec

=============================================================================
