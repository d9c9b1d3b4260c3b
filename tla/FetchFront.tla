----------------------------- MODULE FetchFront -----------------------------
(***************************************************************************)
(* The client's fetch front (client/gateway/mod.rs, head.rs, download.rs): *)
(* one local HTTP/1 socket whose request becomes one H3 exchange.  w.f is  *)
(* its GwReq, w.t the app-owned socket of the shard (shard/tcp.rs), w.q    *)
(* and w.x the exchange (module Exchange).  One handler is one step.       *)
(***************************************************************************)
EXTENDS Exchange

CONSTANTS
  DL_CHUNK,      \* bytes per upload copy and download read
  TCP_BUF,       \* send and receive buffer; the framing of a chunk, a head
                 \* and a terminator each count 1
  MaxUpload      \* bound: bytes the local client sends after its head

ASSUME FetchAssumption ==
  /\ DL_CHUNK \in Nat \ {0} /\ MaxUpload \in Nat
  /\ TCP_BUF \in Nat /\ TCP_BUF >= DL_CHUNK + 1

VARIABLE w

(* A frame of the reply: a head, body bytes (framed by 1 when chunked), a  *)
(* chunk terminator.                                                       *)
NoFrame == [head |-> 0, n |-> 0, pad |-> 0, term |-> 0]
HeadFrame == [NoFrame EXCEPT !.head = 1]
BodyFrame(n, chunked) == [NoFrame EXCEPT !.n = n, !.pad = IF chunked THEN 1 ELSE 0]
TermFrame == [NoFrame EXCEPT !.term = 1]
Size(fr) == fr.head + fr.n + fr.pad + fr.term

(* AppTcp: rx, tx counted; peer: what the local client still sends.  The   *)
(* rest is history: the reply as written, and how the socket ended.        *)
Socket0(n) ==
  [st |-> "open", rx |-> 0, eof |-> FALSE, tx |-> 0, want |-> FALSE, peer |-> n,
   heads |-> 0, body |-> 0, terms |-> 0, synth |-> FALSE, ended |-> "no"]

(* Gateway::on_accepted: a Head with its timer. *)
GwReq0 ==
  [k |-> "head", timer |-> TRUE, started |-> FALSE, chunked |-> FALSE, pending |-> NoFrame,
   declared |-> 0, opened |-> FALSE, read |-> 0, clean |-> FALSE]   \* history

FInit == \E n \in 0 .. MaxUpload : w = [q |-> NoRequest, x |-> NoExch, f |-> GwReq0, t |-> Socket0(n)]

-----------------------------------------------------------------------------
(* The socket *)

(* tcp_write: all or nothing; <<written, w>>. *)
TcpWrite(v, fr) ==
  IF v.t.st = "open" /\ v.t.tx + Size(fr) <= TCP_BUF
  THEN <<TRUE, [v EXCEPT !.t.tx = @ + Size(fr), !.t.heads = @ + fr.head, !.t.body = @ + fr.n,
                         !.t.terms = @ + fr.term]>>
  ELSE <<FALSE, [v EXCEPT !.t.want = @ \/ (v.t.st = "open" /\ v.t.tx > 0)]>>

TcpClose(v) ==
  IF v.t.st # "open" THEN v
  ELSE [v EXCEPT !.t.ended = "close", !.t.st = IF v.t.tx = 0 THEN "gone" ELSE "closing", !.t.rx = 0]

TcpAbort(v) ==
  IF v.t.st = "gone" THEN v ELSE [v EXCEPT !.t.ended = "abort", !.t.st = "gone", !.t.rx = 0, !.t.tx = 0]

DiscardRx(v) == [v EXCEPT !.t.rx = 0]

(* reply_close: nothing was written before. *)
ReplyClose(v) == TcpClose([TcpWrite(v, HeadFrame)[2] EXCEPT !.t.heads = 0, !.t.synth = TRUE])

-----------------------------------------------------------------------------
(* The request *)

Gone(v) == [v EXCEPT !.f.k = "none", !.f.timer = FALSE, !.f.pending = NoFrame]

(* remove: cancel a Head timer; reset an open exchange. *)
RemoveReq(v) == Gone(IF v.f.k = "open" THEN Fail(v) ELSE v)

AbortReq(v) == RemoveReq(TcpAbort(v))

SynthReply(v) == RemoveReq(ReplyClose(v))

(* flush of a Finishing request: pending, then the terminator, then close. *)
FlushReq(v) ==
  LET a == IF v.f.pending = NoFrame THEN <<TRUE, v>> ELSE TcpWrite(v, v.f.pending)
      b == IF v.f.chunked THEN TcpWrite(a[2], TermFrame) ELSE a
  IN CASE ~a[1] -> a[2]
       [] v.f.chunked /\ ~b[1] -> [b[2] EXCEPT !.f.pending = TermFrame, !.f.chunked = FALSE]
       [] OTHER -> TcpClose(Gone(b[2]))

(* The download loop: read while nothing is pending. *)
RECURSIVE BodyLoop(_)
BodyLoop(v) ==
  LET r == ReadBody(v, DL_CHUNK)
      y == [r[3] EXCEPT !.f.read = @ + r[2]]
      wr == IF r[2] > 0 THEN TcpWrite(y, BodyFrame(r[2], v.f.chunked)) ELSE <<TRUE, y>>
      z == IF wr[1] THEN wr[2] ELSE [wr[2] EXCEPT !.f.pending = BodyFrame(r[2], v.f.chunked)]
  IN CASE v.f.pending # NoFrame -> v
       [] r[1] = "wait" -> v
       [] r[1] = "fail" -> AbortReq(y)
       [] r[1] = "last" -> FlushReq([z EXCEPT !.f.k = "finishing", !.f.clean = TRUE])
       [] OTHER -> BodyLoop(z)

(* download: the head first; render says whether render_head accepts it. *)
Download(v, render) ==
  LET r == ReadHead(v)
      y == [r[2] EXCEPT !.f.started = TRUE, !.f.chunked = ~v.q.hd.has_cl]
      wr == TcpWrite(y, HeadFrame)
  IN CASE v.f.k # "open" -> v
       [] v.f.started -> BodyLoop(v)
       [] r[1] = "wait" -> v
       [] r[1] = "fail" \/ ~render -> SynthReply(r[2])
       [] OTHER -> BodyLoop(IF wr[1] THEN wr[2] ELSE [wr[2] EXCEPT !.f.pending = HeadFrame])

(* SendOut::Done: discard the rest and pull the response. *)
UploadOver(v, render) == Download(DiscardRx(v), render)

(* upload: offer what tcp_rx holds. *)
RECURSIVE Upload(_, _)
Upload(v, render) ==
  LET s == SendBody(v, XMin(v.t.rx, DL_CHUNK), FALSE)
  IN CASE v.f.k # "open" \/ v.t.rx = 0 -> v
       [] s[1] = "accepted" -> Upload([s[3] EXCEPT !.t.rx = @ - s[2]], render)
       [] s[1] = "blocked" -> s[3]
       [] OTHER -> UploadOver(s[3], render)

(* head_data once the head is complete or bad: a listener reply, a reject  *)
(* (fetch_head, no tunnel, or open), or the exchange with its body length. *)
HeadData(v, reply, r, len, render) ==
  LET a == [v EXCEPT !.f.timer = FALSE]
      o == OpenExch(a, IF len = 0 THEN "empty" ELSE "known", len, r)
  IN IF reply \/ r # "ok" THEN Gone(ReplyClose(IF reply THEN a ELSE o))
     ELSE Upload([o EXCEPT !.f.k = "open", !.f.opened = TRUE, !.f.declared = len], render)

-----------------------------------------------------------------------------
(* Callbacks *)

(* The driver read n bytes: on_tcp_data.  In Head the read completes the   *)
(* head, and n are the body bytes behind it.                               *)
TcpData ==
  /\ w.t.st = "open" /\ ~w.t.eof
  /\ \E n \in 0 .. XMin(TCP_BUF - w.t.rx, w.t.peer), render \in BOOLEAN :
       LET v == [w EXCEPT !.t.rx = @ + n, !.t.peer = @ - n]
       IN \/ /\ w.f.k = "head"
             /\ \E reply \in BOOLEAN, r \in {"ok", "send_error", "refused"}, len \in 0 .. MaxUpload :
                  w' = HeadData(v, reply, r, len, render)
          \/ n > 0 /\ w.f.k = "open" /\ w' = Upload(v, render)
          \/ n > 0 /\ w.f.k = "finishing" /\ w' = DiscardRx(v)

(* on_tcp_end(ReadEof), whatever the client has not sent by then. *)
TcpEof ==
  /\ w.t.st = "open" /\ ~w.t.eof /\ w.t.rx < TCP_BUF
  /\ LET v == [w EXCEPT !.t.eof = TRUE, !.t.peer = 0]
         u == UploadEof(v, v.t.rx)
     IN w' = CASE w.f.k = "head" -> TcpClose(Gone(v))
               [] w.f.k = "open" /\ ~u[1] -> AbortReq(u[2])
               [] OTHER -> v

(* on_tcp_end(Error): the shard has closed the socket; a closing one is    *)
(* not told.                                                               *)
TcpError ==
  /\ w.t.st # "gone"
  /\ LET v == [w EXCEPT !.t.st = "gone", !.t.rx = 0, !.t.tx = 0, !.t.ended = "error"]
     IN w' = IF w.t.st = "open" THEN RemoveReq(v) ELSE v

(* The driver wrote everything: the close completes, or on_tcp_writable    *)
(* comes if it is owed, which is after a write of head or body.  A partial *)
(* write changes nothing an app sees.                                      *)
TcpDrained ==
  /\ w.t.st # "gone" /\ w.t.tx > 0
  /\ LET v == [w EXCEPT !.t.tx = 0, !.t.want = FALSE]
         p == TcpWrite(v, v.f.pending)
     IN w' = CASE w.t.st = "closing" -> [v EXCEPT !.t.st = "gone"]
               [] ~w.t.want -> v
               [] w.f.k = "open" /\ p[1] -> Download([p[2] EXCEPT !.f.pending = NoFrame], TRUE)
               [] w.f.k = "open" -> p[2]
               [] w.f.k = "finishing" -> FlushReq(v)
               [] OTHER -> v

(* Readiness from the core, for an exchange it knows: on_ready. *)
H3Readable ==
  /\ w.q.rev
  /\ LET v == [w EXCEPT !.q.rev = FALSE]
     IN \E render \in BOOLEAN : w' = IF w.x.on THEN Download(v, render) ELSE v

H3Writable ==
  /\ w.q.wev
  /\ LET v == [w EXCEPT !.q.wev = FALSE]
     IN \E render \in BOOLEAN : w' = IF w.x.on THEN Upload(v, render) ELSE v

H3Closed ==
  /\ w.q.cev
  /\ LET v == OnClosed([w EXCEPT !.q.cev = FALSE, !.q.rev = FALSE, !.q.wev = FALSE])
     IN \E render \in BOOLEAN : w' = IF w.x.on THEN Download(v, render) ELSE v

HeadTimer == w.f.timer /\ w' = ReplyClose(Gone(w))

Shutdown == w.f.k # "none" /\ w' = AbortReq(w)

Peer == \E q \in PeerMoves(w.q, w.x) : w' = [w EXCEPT !.q = q]

FNext ==
  \/ TcpData \/ TcpEof \/ TcpError \/ TcpDrained
  \/ H3Readable \/ H3Writable \/ H3Closed \/ HeadTimer \/ Shutdown \/ Peer

FSpec == FInit /\ [][FNext]_w

-----------------------------------------------------------------------------
(* Properties *)

(* Truncation is visible: a local socket is closed gracefully only behind  *)
(* a whole answer: the head, every byte read of a response that ended      *)
(* cleanly, the terminator iff it is chunked; or an error reply in place   *)
(* of everything.  Anything else ends in a reset.                          *)
TruncationVisible ==
  w.t.ended = "close" /\ w.f.opened =>
    \/ w.t.synth /\ w.t.heads + w.t.body + w.t.terms = 0
    \/ /\ w.f.clean /\ w.t.heads = 1 /\ w.t.body = w.f.read
       /\ w.t.terms = IF w.q.hd.has_cl THEN 0 ELSE 1
       /\ (w.q.hd.cl # NoLen /\ w.q.hd.applies) => w.t.body >= w.q.hd.cl

(* The upload's FIN is honest and its bytes are the client's: the server   *)
(* sees the end of a body only after exactly the declared length.          *)
FetchUploadHonest ==
  /\ w.q.ofin => w.q.sent = w.f.declared
  /\ w.q.sent <= w.f.declared
  /\ (w.x.on /\ w.x.up = "known") => w.x.rem = w.f.declared - w.q.sent

(* No request without an owner: the exchange exists exactly while the      *)
(* front is Open, and a request whose exchange is gone was reset, ended on *)
(* both sides, or is closed already.                                       *)
NoOwnerless ==
  /\ w.x.on <=> w.f.k = "open"
  /\ w.f.timer <=> w.f.k = "head"
  /\ (w.q.slot /\ ~w.x.on) => (w.q.reset \/ (w.q.ofin /\ w.f.clean))
  /\ w.t.st # "open" => w.f.k = "none"

(* Nothing is left undone without a wake-up on the way: upload bytes wait  *)
(* for credit, a frame for the socket to drain, and what can be read of    *)
(* the response for its event.                                             *)
FetchNotStuck ==
  /\ (w.f.k = "open" /\ w.t.rx > 0) =>
       (w.q.wev \/ w.q.cev \/ ~w.q.slot \/ (w.q.wantw /\ w.q.room = 0))
  /\ (w.f.pending # NoFrame \/ w.f.k = "finishing") => (w.t.want /\ w.t.tx > 0)
  /\ (w.f.k = "open" /\ w.f.pending = NoFrame) =>
       /\ w.x.down \in {"await", "body"}
       /\ (w.q.inb > 0 \/ w.q.infin \/ w.q.rerr) => (w.q.rev \/ w.q.cev)

(* Both directions are honest toward their reader. *)
FetchHonest == TruncationVisible /\ FetchUploadHonest

(* Every request has an owner, and every owner a wake-up for its work. *)
FetchLives == NoOwnerless /\ FetchNotStuck
=============================================================================
