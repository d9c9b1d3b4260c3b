------------------------------ MODULE TlsPump ------------------------------
(***************************************************************************)
(* One origin connection's bytes, from the shard's socket buffer through   *)
(* rustls and the in-shard pipe to hyper and back: the app-owned socket    *)
(* (shard/tcp.rs, shard/inputs.rs), the pipe and its wakers                *)
(* (tls_pipe/pipe.rs), the rustls pump with its bounded staging            *)
(* (tls_pipe/tls_io.rs) and the origin pump's rounds                       *)
(* (server/origin/pump.rs).                                                *)
(*                                                                         *)
(* A byte is a number, its place in its direction; a TLS record holds one  *)
(* byte and 0 is a close_notify.  hyper and rustls are external: rustls    *)
(* takes at most TlsRead records per read_tls; hyper, whenever it is       *)
(* polled, reads some bytes and then either parks on the pipe, is held by  *)
(* the gateway's backpressure or has woken itself.                         *)
(***************************************************************************)
EXTENDS Integers, Sequences, SequencesExt

CONSTANTS
  PIPE_CAP, SLICE, TCP_BUF, PUMP_CAP,
  TlsRead,      \* records one read_tls takes
  TlsBuf,       \* rustls's own limit on unsent plaintext
  NIn, NOut     \* bounds: the bytes the origin and hyper send

TlsPumpAssumption ==
  /\ {PIPE_CAP, SLICE, TCP_BUF, PUMP_CAP, TlsRead, TlsBuf} \subseteq Nat \ {0}
  /\ SLICE <= PIPE_CAP /\ SLICE <= TCP_BUF
  /\ NIn \in Nat /\ NOut \in Nat

VARIABLES
  tls,    \* the connection is https
  sock,   \* AppTcp and the far end: rx, eof, tx, want (want_writable), alive
  conn,   \* OriginConn: rustls, out, tcp_eof, rx_blocked, in the table or closing
  pipe,   \* PipeState
  hyper,  \* what hyper read and has still to write
  pump,   \* the pump's place: at, rounds, changed; dirty and the Pump timer
  peer    \* the origin: bytes it sent, its close, what reached it

tvars == <<tls, sock, conn, pipe, hyper, pump, peer>>

(* AppTcp::new, TlsIo::new and the connection it serves, pipe(). *)
SockInit == [rx |-> <<>>, eof |-> FALSE, tx |-> <<>>, want |-> FALSE, alive |-> TRUE]
ConnInit == [plain |-> <<>>, cn |-> FALSE, seen |-> FALSE, sendq |-> <<>>, out |-> <<>>,
             tcp_eof |-> FALSE, blocked |-> FALSE, live |-> TRUE]
PipeInit == [rx |-> <<>>, tx |-> <<>>, eof |-> FALSE, dead |-> FALSE,
             rpark |-> FALSE, wpark |-> FALSE]

Init ==
  /\ tls \in BOOLEAN
  /\ sock = SockInit /\ conn = ConnInit /\ pipe = PipeInit
  /\ hyper = [got |-> <<>>, end |-> "none", left |-> <<>>, held |-> FALSE, wrote |-> 0]
  /\ pump = [at |-> "idle", rounds |-> 0, changed |-> FALSE, dirty |-> FALSE, timer |-> FALSE]
  /\ peer = [sent |-> 0, closed |-> FALSE, net |-> <<>>, wire |-> <<>>]

CN == 0
MinOf(a, b) == IF a <= b THEN a ELSE b
Take(s, n) == SubSeq(s, 1, MinOf(n, Len(s)))
Drop(s, n) == SubSeq(s, n + 1, Len(s))

-----------------------------------------------------------------------------
(* The pipe (tls_pipe/pipe.rs).  x is a record of conn, pipe, pump and sock *)
(* that the handlers below pass along.                                     *)

X == [c |-> conn, p |-> pipe, d |-> pump.dirty, s |-> sock, moved |-> FALSE]

WakeReader(x) == [x EXCEPT !.d = @ \/ x.p.rpark, !.p.rpark = FALSE]

RxRoom(x) == PIPE_CAP - Len(x.p.rx)

(* push_rx: up to PIPE_CAP. *)
PushRx(x, bytes) ==
  LET n == MinOf(Len(bytes), RxRoom(x))
      y == [x EXCEPT !.p.rx = @ \o Take(bytes, n), !.moved = @ \/ n > 0]
  IN IF n > 0 THEN WakeReader(y) ELSE x

SetEof(x) ==
  IF x.p.eof THEN x ELSE WakeReader([x EXCEPT !.p.eof = TRUE, !.moved = TRUE])

(* with_tx: exactly the n accepted bytes leave tx. *)
WithTx(x, n) ==
  [x EXCEPT !.p.tx = Drop(@, n), !.p.wpark = @ /\ n = 0, !.d = @ \/ (n > 0 /\ x.p.wpark)]

MarkDead(x) ==
  [x EXCEPT !.p.dead = TRUE, !.d = @ \/ x.p.rpark \/ x.p.wpark,
            !.p.rpark = FALSE, !.p.wpark = FALSE]

-----------------------------------------------------------------------------
(* TlsIo (tls_pipe/tls_io.rs). *)

WantsRead(x) == x.c.plain = <<>> /\ ~x.c.cn

(* read_tls and process_new_packets: records up to a close_notify. *)
ReadTls(x) ==
  LET in == Take(x.s.rx, TlsRead)
      cn == SelectInSeq(in, LAMBDA r : r = CN)
      data == IF cn = 0 THEN in ELSE SubSeq(in, 1, cn - 1)
  IN [x EXCEPT !.s.rx = Drop(@, Len(in)), !.c.plain = @ \o data,
               !.c.cn = @ \/ cn # 0, !.moved = TRUE]

(* drain: plaintext into the pipe while it has room; the end of the        *)
(* plaintext, by close_notify or by an EOF rustls has seen, publishes EOF. *)
Drain(x) ==
  LET n == MinOf(Len(x.c.plain), RxRoom(x))
      y == [PushRx(x, Take(x.c.plain, n)) EXCEPT !.c.plain = Drop(@, n)]
  IN IF /\ RxRoom(y) > 0
        /\ y.c.cn \/ y.c.seen
     THEN SetEof(y) ELSE y

RECURSIVE ReadLoop(_)
ReadLoop(x) ==
  IF WantsRead(x) /\ x.s.rx # <<>> THEN ReadLoop(Drain(ReadTls(x))) ELSE x

(* input: the buffered plaintext first; an empty read_tls marks the EOF    *)
(* inside rustls once the socket's bytes are used up.                      *)
Input(x) ==
  LET y == ReadLoop(Drain(x))
  IN IF x.c.tcp_eof /\ y.s.rx = <<>>
     THEN Drain([y EXCEPT !.c.seen = TRUE]) ELSE y

(* tcp_write: all or nothing; a refusal with bytes queued owes a callback. *)
TcpWriteFits(x, n) == x.s.alive /\ Len(x.s.tx) + n <= TCP_BUF
TcpRefused(x) == [x EXCEPT !.s.want = @ \/ (x.s.alive /\ x.s.tx # <<>>)]

(* Mutant: what does not fit is dropped. *)
RECURSIVE FlushOutLossy(_)
FlushOutLossy(x) ==
  LET chunk == Take(x.c.out, SLICE)
  IN IF x.c.out = <<>> THEN x
     ELSE IF TcpWriteFits(x, Len(chunk))
          THEN FlushOutLossy([x EXCEPT !.s.tx = @ \o chunk, !.c.out = Drop(@, Len(chunk)),
                                       !.moved = TRUE])
          ELSE TcpRefused([x EXCEPT !.c.out = <<>>])

(* flush_out: whole slices of out until one does not fit. *)
RECURSIVE FlushOut(_)
FlushOut(x) ==
  LET chunk == Take(x.c.out, SLICE)
  IN IF x.c.out = <<>> THEN x
     ELSE IF TcpWriteFits(x, Len(chunk))
          THEN FlushOut([x EXCEPT !.s.tx = @ \o chunk, !.c.out = Drop(@, Len(chunk)),
                                  !.moved = TRUE])
          ELSE TcpRefused(x)

(* write_tls into a sink that takes what the staging has room for; rustls  *)
(* keeps the rest.                                                         *)
Stage(x) ==
  LET n == MinOf(Len(x.c.sendq), PIPE_CAP - Len(x.c.out))
  IN [x EXCEPT !.c.out = @ \o Take(x.c.sendq, n), !.c.sendq = Drop(@, n),
               !.moved = @ \/ n > 0]

(* output's loop: write_tls into the staging while it has room, then a     *)
(* slice of plaintext into rustls, until the staging is full or nothing    *)
(* was fed.                                                                *)
RECURSIVE FeedLoop(_)
FeedLoop(x) ==
  LET y == Stage(x)
      k == MinOf(MinOf(SLICE, Len(y.p.tx)), TlsBuf - Len(y.c.sendq))
  IN IF Len(y.c.out) >= PIPE_CAP \/ k = 0 THEN y
     ELSE FeedLoop([WithTx(y, k) EXCEPT !.c.sendq = @ \o Take(y.p.tx, k), !.moved = TRUE])

Output(x) == FlushOut(FeedLoop(x))

-----------------------------------------------------------------------------
(* The origin pump (server/origin/pump.rs). *)

(* move_in: a plain connection hands the socket's bytes over directly.     *)
MoveIn(x) ==
  IF tls THEN Input(x)
  ELSE LET n == MinOf(Len(x.s.rx), RxRoom(x))
           y == [PushRx(x, Take(x.s.rx, n)) EXCEPT !.s.rx = Drop(@, n)]
       IN IF y.c.tcp_eof /\ y.s.rx = <<>> THEN SetEof(y) ELSE y

TcpToPipe(x) ==
  IF ~x.c.live THEN [x EXCEPT !.c.blocked = RxRoom(x) = 0]
  ELSE LET y == MoveIn(x) IN [y EXCEPT !.c.blocked = RxRoom(y) = 0]

RECURSIVE PlainOut(_)
PlainOut(x) ==
  LET chunk == Take(x.p.tx, SLICE)
  IN IF chunk = <<>> THEN x
     ELSE IF TcpWriteFits(x, Len(chunk))
          THEN PlainOut([WithTx(x, Len(chunk)) EXCEPT !.s.tx = @ \o chunk, !.moved = TRUE])
          ELSE TcpRefused(x)

PipeToTcp(x) ==
  IF ~x.c.live THEN x ELSE IF tls THEN Output(x) ELSE PlainOut(x)

(* rx_movable: step 1 stopped for lack of room and hyper has freed some. *)
RxMovable(x) == x.c.live /\ x.c.blocked /\ RxRoom(x) > 0

(* The socket is useless: class E, the exchange's record keeps the conn.   *)
RemoveE(x) == [MarkDead(x) EXCEPT !.c.live = FALSE]

Put(x) == /\ conn' = x.c /\ pipe' = x.p /\ sock' = x.s

(* Every routed callback ends in a pump. *)
Enter == pump' = [pump EXCEPT !.at = "in", !.rounds = 0, !.changed = FALSE, !.dirty = FALSE]

PumpIn ==
  /\ pump.at = "in"
  /\ LET x == TcpToPipe(X)
     IN Put(x) /\ pump' = [pump EXCEPT !.at = "hyper", !.dirty = x.d, !.changed = @ \/ x.moved]
  /\ UNCHANGED <<tls, hyper, peer>>

(* poll_read_with and poll_write_inner, as hyper calls them when polled:   *)
(* n bytes read and every byte it has room for written.  Having read some, *)
(* hyper parks on an empty pipe, has woken itself, or its consumer holds.  *)
PumpHyper ==
  /\ pump.at = "hyper"
  /\ IF pipe.dead \/ hyper.end # "none"
     THEN /\ hyper' = [hyper EXCEPT !.end = IF @ = "none" THEN "error" ELSE @]
          /\ pump' = [pump EXCEPT !.at = "out"]
          /\ UNCHANGED pipe
     ELSE \E n \in 0 .. Len(pipe.rx), hold \in BOOLEAN, framed \in BOOLEAN :
          LET rest == Drop(pipe.rx, n)
              w == MinOf(Len(hyper.left), PIPE_CAP - Len(pipe.tx))
              atEnd == ~hyper.held /\ ~hold /\ rest = <<>>
          IN /\ IF hyper.held THEN n = 0 /\ hold /\ ~framed
                              ELSE /\ pipe.rx # <<>> => n > 0
                                   /\ (hold \/ framed) => n > 0
             /\ hyper' = [hyper EXCEPT !.got = @ \o Take(pipe.rx, n), !.held = hold,
                            !.end = IF atEnd /\ pipe.eof THEN "eof" ELSE @,
                            !.left = Drop(@, w)]
             /\ pipe' = [pipe EXCEPT !.rx = rest,
                           !.rpark = @ \/ (atEnd /\ ~pipe.eof),
                           !.tx = @ \o Take(hyper.left, w), !.wpark = @ \/ w < Len(hyper.left)]
             /\ pump' = [pump EXCEPT !.at = "out", !.changed = @ \/ framed,
                           !.dirty = @ \/ (~hold /\ rest # <<>>)]
  /\ UNCHANGED <<tls, sock, conn, peer>>

(* Step 3 and the repeat rule: another round while anything moved or the   *)
(* waker fired; at PUMP_CAP a zero-delay timer re-enters.                  *)
PumpOut ==
  /\ pump.at = "out"
  /\ LET x == PipeToTcp(X)
         again == pump.changed \/ x.moved \/ RxMovable(x) \/ x.d
         capped == pump.rounds + 1 = PUMP_CAP
     IN /\ Put(x)
        /\ pump' = [pump EXCEPT !.at = IF again /\ ~capped THEN "in" ELSE "idle",
                      !.rounds = IF again /\ ~capped THEN @ + 1 ELSE 0,
                      !.changed = FALSE, !.dirty = FALSE, !.timer = @ \/ (again /\ capped)]
  /\ UNCHANGED <<tls, hyper, peer>>

-----------------------------------------------------------------------------
(* What the driver and the gateway call while no pump runs. *)

Idle == pump.at = "idle"

(* tcp_rx_commit, bytes or EOF: only with read interest. *)
ReadInterest == sock.alive /\ ~sock.eof /\ Len(sock.rx) < PIPE_CAP

RxCommit ==
  /\ Idle /\ ReadInterest /\ peer.net # <<>>
  /\ \E n \in 1 .. MinOf(Len(peer.net), PIPE_CAP - Len(sock.rx)) :
       /\ sock' = [sock EXCEPT !.rx = @ \o Take(peer.net, n)]
       /\ peer' = [peer EXCEPT !.net = Drop(@, n)]
  /\ Enter /\ UNCHANGED <<tls, conn, pipe, hyper>>

RxEof ==
  /\ Idle /\ ReadInterest /\ peer.closed /\ peer.net = <<>>
  /\ sock' = [sock EXCEPT !.eof = TRUE]
  /\ conn' = [conn EXCEPT !.tcp_eof = TRUE]
  /\ Enter /\ UNCHANGED <<tls, pipe, hyper, peer>>

(* tcp_tx_commit: on_tcp_writable once the buffer drained, when owed. *)
TxCommit ==
  /\ Idle /\ sock.alive /\ sock.tx # <<>>
  /\ \E n \in 1 .. Len(sock.tx) :
       /\ peer' = [peer EXCEPT !.wire = @ \o Take(sock.tx, n)]
       /\ LET owed == n = Len(sock.tx) /\ sock.want
          IN /\ sock' = [sock EXCEPT !.tx = Drop(@, n), !.want = @ /\ ~owed]
             /\ IF owed THEN Enter ELSE UNCHANGED pump
  /\ UNCHANGED <<tls, conn, pipe, hyper>>

(* on_tcp_error, or a fatal TLS error: the conn leaves the table. *)
TcpError ==
  /\ Idle /\ sock.alive /\ conn.live
  /\ LET x == RemoveE(X) IN conn' = x.c /\ pipe' = x.p
  /\ sock' = [sock EXCEPT !.alive = FALSE, !.tx = <<>>, !.rx = <<>>, !.want = FALSE]
  /\ Enter /\ UNCHANGED <<tls, hyper, peer>>

PumpTimer ==
  /\ Idle /\ pump.timer
  /\ pump' = [pump EXCEPT !.at = "in", !.timer = FALSE, !.dirty = FALSE]
  /\ UNCHANGED <<tls, sock, conn, pipe, hyper, peer>>

(* H3Writable: the gateway drained what held the body (Origin::resume). *)
Resume ==
  /\ Idle /\ hyper.held
  /\ hyper' = [hyper EXCEPT !.held = FALSE]
  /\ Enter /\ UNCHANGED <<tls, sock, conn, pipe, peer>>

(* More request bytes for hyper to write. *)
Request ==
  /\ Idle /\ hyper.wrote < NOut
  /\ \E n \in 1 .. NOut - hyper.wrote :
       hyper' = [hyper EXCEPT !.left = @ \o [i \in 1 .. n |-> hyper.wrote + i], !.wrote = @ + n]
  /\ Enter /\ UNCHANGED <<tls, sock, conn, pipe, peer>>

(* The origin sends, and closes with or without a close_notify. *)
OriginSends ==
  /\ Idle /\ ~peer.closed /\ peer.sent < NIn
  /\ peer' = [peer EXCEPT !.sent = @ + 1, !.net = Append(@, peer.sent + 1)]
  /\ UNCHANGED <<tls, sock, conn, pipe, hyper, pump>>

OriginCloses ==
  /\ Idle /\ ~peer.closed
  /\ \E notify \in BOOLEAN :
       /\ notify => tls
       /\ peer' = [peer EXCEPT !.closed = TRUE, !.net = IF notify THEN Append(@, CN) ELSE @]
  /\ UNCHANGED <<tls, sock, conn, pipe, hyper, pump>>

PumpStep == PumpIn \/ PumpHyper \/ PumpOut
Next ==
  \/ PumpStep \/ RxCommit \/ RxEof \/ TxCommit \/ TcpError \/ PumpTimer
  \/ Resume \/ Request \/ OriginSends \/ OriginCloses

Spec == Init /\ [][Next]_tvars

-----------------------------------------------------------------------------
(* Properties *)

DataOf(s) == SelectSeq(s, LAMBDA r : r # CN)
Upto(n) == [i \in 1 .. n |-> i]

(* No byte is lost, repeated or reordered on its way through the socket    *)
(* buffer, rustls, the staging and the pipe, in either direction, however  *)
(* the partial writes and full buffers fall (tls_io.rs, pipe.rs, pump.rs). *)
BytesInOrder ==
  conn.live =>
    /\ hyper.got \o pipe.rx \o conn.plain \o DataOf(sock.rx) \o DataOf(peer.net) = Upto(peer.sent)
    /\ peer.wire \o sock.tx \o conn.out \o conn.sendq \o pipe.tx \o hyper.left = Upto(hyper.wrote)

(* hyper sees a clean end of the origin's stream only after every byte the *)
(* origin sent before it (EOF published once nothing is left below).       *)
EofAfterEverything == (hyper.end = "eof") => (hyper.got = Upto(peer.sent) /\ peer.closed)

(* Once the pump has returned and no Pump timer is due, nothing that can   *)
(* move is left waiting: bytes and the end below the pipe wait only on a   *)
(* full pipe whose reader is held by the gateway, bytes for the origin     *)
(* only on a socket that owes a writable callback (PUMP_CAP, rx_movable).  *)
(* The exchange of a removed connection has failed even if it was parked.  *)
NothingStranded ==
  (Idle /\ ~pump.timer /\ hyper.end = "none") =>
    /\ conn.live
    /\ (pipe.rx # <<>> \/ pipe.eof) => hyper.held
    /\ (conn.plain # <<>> \/ (sock.rx # <<>> /\ ~conn.cn)) => Len(pipe.rx) = PIPE_CAP
    /\ (conn.tcp_eof /\ sock.rx = <<>> /\ ~pipe.eof) => Len(pipe.rx) = PIPE_CAP
    /\ (pipe.tx \o conn.sendq \o conn.out # <<>>) => (sock.want /\ sock.tx # <<>>)
=============================================================================
