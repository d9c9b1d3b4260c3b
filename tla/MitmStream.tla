----------------------------- MODULE MitmStream -----------------------------
(***************************************************************************)
(* One h2 stream of a MITM connection and its H3 exchange                  *)
(* (client/mitm/stream.rs): w.s is the MStream, w.b the h2 stream as its   *)
(* calls see it (external), w.q and w.x the exchange (module Exchange).    *)
(* Every callback of the connection ends in a pump, whose passes step the  *)
(* stream until a pass moves nothing; a pump that runs out of passes goes  *)
(* on from its continuation timer (module MitmConns).                      *)
(***************************************************************************)
EXTENDS Exchange

CONSTANTS
  DL_CHUNK,      \* one download read
  MaxUpload,     \* bound: bytes the browser sends (this many or none)
  MaxWindow      \* h2 send window at a time

ASSUME MitmStreamAssumption == {DL_CHUNK, MaxWindow} \subseteq Nat \ {0} /\ MaxUpload \in Nat

VARIABLES w, spc

svars == <<w, spc>>

(* The browser's side: left to send, queued in h2, ended, reset by it; the *)
(* send window and whether capacity is reserved; what went out.            *)
Stream0(n) ==
  [left |-> n, avail |-> 0, eos |-> FALSE, cancelled |-> FALSE, win |-> 0, resv |-> FALSE,
   released |-> 0, answer |-> "none", dsent |-> 0, end |-> FALSE, rst |-> FALSE]

MStream0 ==
  [ex |-> FALSE, up |-> "done", carry |-> 0, blocked |-> FALSE, down |-> "done", h3_ready |-> FALSE,
   opened |-> FALSE, bodiless |-> FALSE, read |-> 0, clean |-> FALSE]   \* history

(* MStream::open: map_request rejected it, open failed, or it is retained. *)
SInit ==
  \E n \in {0, MaxUpload}, body \in {"empty", "known", "unknown"}, r \in {"ok", "send_error", "refused"} :
    /\ body = "empty" => n = 0
    /\ LET z == [q |-> NoRequest, x |-> NoExch, s |-> MStream0, b |-> [Stream0(n) EXCEPT !.eos = body = "empty"]]
           o == OpenExch(z, body, n, r)
       IN w = IF r # "ok" THEN [o EXCEPT !.b.answer = "reject", !.b.end = TRUE]
              ELSE [o EXCEPT !.s.ex = TRUE, !.s.opened = TRUE, !.s.down = "await",
                             !.s.up = IF body = "empty" THEN "done" ELSE "recv"]
    /\ spc = "idle"

-----------------------------------------------------------------------------
(* Settlement *)

(* The send handle goes with its reservation. *)
Dropped(v) == [v EXCEPT !.s.down = "done", !.b.resv = FALSE]

(* cancel: the exchange is reset, both sides dropped. *)
Cancel(v) == Dropped([(IF v.s.ex THEN Fail(v) ELSE v) EXCEPT !.s.ex = FALSE, !.s.up = "done", !.s.carry = 0])

Ended(v) == [v EXCEPT !.s.ex = FALSE, !.s.up = "done", !.s.carry = 0]

(* Mutant: a failed body ends like a whole one. *)
FailBodyQuietly(v) == Dropped([Ended(v) EXCEPT !.b.end = TRUE])

(* fail: RST_STREAM. *)
FailBody(v) == Dropped([Ended(v) EXCEPT !.b.rst = TRUE])

(* finish: the tail with END_STREAM. *)
FinishBody(v, n) == Dropped([Ended(v) EXCEPT !.b.dsent = @ + n, !.b.end = TRUE, !.s.clean = TRUE])

-----------------------------------------------------------------------------
(* Upload *)

(* upload: the carry, then what poll_data gives, then the FIN; credit goes *)
(* back for what the tunnel took.  <<moved, w>>.                           *)
RECURSIVE UploadLoop(_, _)
UploadLoop(v, moved) ==
  LET fin == v.s.carry = 0                      \* reached only once poll_data gave None
      r == SendBody(v, v.s.carry, fin)
      y == r[3]
  IN CASE ~v.s.ex \/ v.s.up # "recv" \/ v.s.blocked -> <<moved, v>>
       [] v.s.carry = 0 /\ v.b.cancelled -> <<TRUE, Cancel(v)>>
       [] v.s.carry = 0 /\ v.b.avail > 0 -> UploadLoop([v EXCEPT !.s.carry = v.b.avail, !.b.avail = 0], moved)
       [] v.s.carry = 0 /\ ~v.b.eos -> <<moved, v>>
       [] r[1] = "blocked" -> <<moved, [y EXCEPT !.s.blocked = TRUE]>>
       [] r[1] = "done" ->
            <<TRUE, [y EXCEPT !.b.released = @ + v.s.carry, !.s.carry = 0, !.s.up = "done"]>>
       [] OTHER ->
            LET z == [y EXCEPT !.s.carry = @ - r[2], !.b.released = @ + r[2]]
            IN IF fin THEN <<TRUE, [z EXCEPT !.s.up = "done"]>> ELSE UploadLoop(z, moved \/ r[2] > 0)

-----------------------------------------------------------------------------
(* Download *)

(* drain of a bodiless response: one chunk per step. *)
DrainBody(v) ==
  LET r == ReadBody(v, DL_CHUNK)
  IN CASE v.b.cancelled -> <<TRUE, Cancel(v)>>
       [] r[1] = "data" -> <<TRUE, r[3]>>
       [] r[1] = "wait" -> <<FALSE, r[3]>>
       [] OTHER -> <<TRUE, Dropped(Ended(r[3]))>>

Unreserved(v) == [v EXCEPT !.b.resv = FALSE]

(* body, once step 3 passed: one read within window and budget, and the    *)
(* look at what follows it.                                                *)
Payload(v, room) ==
  LET r == ReadBody(v, XMin(v.b.win, DL_CHUNK))
      y == [r[3] EXCEPT !.s.read = @ + r[2]]
  IN CASE ~room -> <<FALSE, Unreserved(v)>>
       [] v.b.win = 0 -> <<FALSE, [v EXCEPT !.b.resv = TRUE]>>
       [] r[1] = "data" -> <<TRUE, Unreserved([y EXCEPT !.b.dsent = @ + r[2], !.b.win = @ - r[2]])>>
       [] r[1] = "last" -> <<TRUE, FinishBody(y, r[2])>>
       [] r[1] = "fail" -> <<TRUE, FailBody(y)>>
       [] OTHER -> <<FALSE, Unreserved([v EXCEPT !.s.h3_ready = FALSE])>>

(* Mutant: the terminal probe waits for the readiness gate and capacity. *)
BodyNoProbe(v, room) ==
  CASE v.b.cancelled -> <<TRUE, Cancel(v)>>
    [] ~v.s.h3_ready -> <<FALSE, Unreserved(v)>>
    [] OTHER -> Payload(v, room)

(* body: cancel, the terminal probe with an empty buffer, the readiness    *)
(* gate, the payload.                                                      *)
Body(v, room) ==
  LET p == ReadBody(v, 0)
  IN CASE v.b.cancelled -> <<TRUE, Cancel(v)>>
       [] p[1] = "last" -> <<TRUE, FinishBody(p[3], 0)>>
       [] p[1] = "fail" -> <<TRUE, FailBody(p[3])>>
       [] ~v.s.h3_ready -> <<FALSE, Unreserved(v)>>
       [] OTHER -> Payload(v, room)

(* await_head: an error is answered, a head h2 refuses is reset; maps is   *)
(* whether map_response and send_response accept it, bodiless HEAD, 204    *)
(* and 304.                                                                *)
AwaitHead(v, room, maps, bodiless) ==
  LET r == ReadHead(v)
      y == [r[2] EXCEPT !.s.h3_ready = TRUE, !.s.bodiless = bodiless, !.b.answer = "head"]
  IN CASE v.b.cancelled -> <<TRUE, Cancel(v)>>
       [] r[1] = "wait" -> <<FALSE, v>>
       [] r[1] = "fail" -> <<TRUE, Dropped([Ended(r[2]) EXCEPT !.b.answer = "reject", !.b.end = TRUE])>>
       [] ~maps -> <<TRUE, Cancel([r[2] EXCEPT !.b.rst = TRUE])>>
       [] bodiless -> <<TRUE, DrainBody([y EXCEPT !.s.down = "drain", !.b.end = TRUE])[2]>>
       [] OTHER -> <<TRUE, Body([y EXCEPT !.s.down = "body"], room)[2]>>

DownloadStep(v, room, maps, bodiless) ==
  CASE ~v.s.ex -> <<FALSE, v>>
    [] v.s.down = "await" -> AwaitHead(v, room, maps, bodiless)
    [] v.s.down = "body" -> Body(v, room)
    [] v.s.down = "drain" -> DrainBody(v)
    [] OTHER -> <<FALSE, v>>

(* step: the upload, then the download. *)
StepStream(v, room, maps, bodiless) ==
  LET u == UploadLoop(v, FALSE)
      d == DownloadStep(u[2], room, maps, bodiless)
  IN <<u[1] \/ d[1], d[2]>>

-----------------------------------------------------------------------------
(* A pump pass of the connection: room is out_has_room of the TLS output,  *)
(* which on_tcp_writable restores ("stalled" waits for it).                *)
Pass ==
  /\ spc = "pump"
  /\ \E room, maps, bodiless \in BOOLEAN :
       /\ (bodiless => ~w.q.hd.applies)           \* HEAD, 204, 304: no body check
       /\ LET r == StepStream(w, room, maps, bodiless)
          IN /\ w' = r[2]
             /\ spc' = IF r[1] THEN "pump" ELSE IF room THEN "idle" ELSE "stalled"

Callback(v) == spc # "pump" /\ w' = v /\ spc' = "pump"

Writable == spc = "stalled" /\ Callback(w)

(* h2 frames of the browser, read by the pass: DATA, END_STREAM, RST,      *)
(* window.  With a content-length h2 admits exactly that many bytes.       *)
BrowserData ==
  w.s.ex /\ ~w.b.eos /\ ~w.b.cancelled
    /\ \/ \E n \in 1 .. w.b.left : Callback([w EXCEPT !.b.left = @ - n, !.b.avail = @ + n])
       \/ w.b.left = 0 /\ Callback([w EXCEPT !.b.eos = TRUE])
BrowserCancels == w.s.ex /\ ~w.b.cancelled /\ Callback([w EXCEPT !.b.cancelled = TRUE])
BrowserWindow == w.s.ex /\ w.b.win < MaxWindow /\ Callback([w EXCEPT !.b.win = @ + 1])

(* on_ready from the core. *)
SReadable ==
  w.q.rev /\ LET v == [w EXCEPT !.q.rev = FALSE] IN Callback(IF w.x.on THEN [v EXCEPT !.s.h3_ready = TRUE] ELSE v)
SWritable ==
  w.q.wev /\ LET v == [w EXCEPT !.q.wev = FALSE] IN Callback(IF w.x.on THEN [v EXCEPT !.s.blocked = FALSE] ELSE v)
SClosed ==
  w.q.cev /\ LET v == OnClosed([w EXCEPT !.q.cev = FALSE, !.q.rev = FALSE, !.q.wev = FALSE])
             IN Callback(IF w.x.on THEN [v EXCEPT !.s.h3_ready = TRUE] ELSE v)

SPeer == spc # "pump" /\ \E q \in PeerMoves(w.q, w.x) : w' = [w EXCEPT !.q = q] /\ UNCHANGED spc

SNext ==
  \/ Pass \/ Writable \/ BrowserData \/ BrowserCancels \/ BrowserWindow
  \/ SReadable \/ SWritable \/ SClosed \/ SPeer

SSpec == SInit /\ [][SNext]_svars

-----------------------------------------------------------------------------
(* Properties *)

(* The browser sees END_STREAM after a body only when the response ended   *)
(* cleanly, met its content-length and every byte read was sent before it; *)
(* a body that failed ends in RST_STREAM.                                  *)
EndStreamHonest ==
  /\ (w.b.end /\ w.b.answer = "head" /\ ~w.s.bodiless) =>
       /\ w.s.clean /\ ~w.b.rst
       /\ w.b.dsent = w.s.read
       /\ (w.q.hd.cl # NoLen /\ w.q.hd.applies) => w.b.dsent >= w.q.hd.cl
  /\ w.b.dsent <= w.s.read

(* Credit goes back to the browser only for bytes the tunnel took, no byte *)
(* is lost between them while the upload runs, and the request's FIN means *)
(* that the browser ended its body and all of it went out.                 *)
UploadPaced ==
  /\ w.s.up = "recv" => w.b.released = w.q.sent
  /\ (w.q.ofin /\ w.s.opened) => (w.s.carry = 0 /\ w.b.avail = 0 /\ w.b.left = 0)

(* One end for both: the core's record exists exactly while the stream     *)
(* holds it, a stream without one is settled, with an answer, a reset or   *)
(* the browser's own cancel, and its request was reset or is over.         *)
SettledTogether ==
  /\ w.x.on <=> w.s.ex
  /\ ~w.s.ex => (w.s.up = "done" /\ w.s.down = "done" /\ (w.b.end \/ w.b.rst \/ w.b.cancelled))
  /\ (w.q.slot /\ ~w.x.on /\ w.s.opened) => (w.q.reset \/ w.q.ofin)

(* Between pumps nothing waits without a wake-up on the way: upload bytes  *)
(* for credit, response bytes for their event, the window or the socket; a *)
(* cancel, an end without bytes or a failure waits for none of these; and  *)
(* capacity is reserved only for a body that has bytes to send.            *)
StreamNotStuck ==
  spc # "pump" =>
    /\ (w.s.ex /\ w.s.up = "recv" /\ (w.s.carry > 0 \/ w.b.avail > 0 \/ w.b.eos)) =>
         (w.s.blocked /\ (w.q.wev \/ w.q.cev \/ ~w.q.slot \/ (w.q.wantw /\ w.q.room = 0)))
    /\ w.b.cancelled => ~w.s.ex
    /\ (w.s.ex /\ w.s.down # "await" /\ w.q.slot) =>
         /\ w.x.down = "body"
         /\ (w.q.infin /\ w.q.inb = 0) => w.q.rev
         /\ (w.q.inb > 0 /\ ~w.q.rev) =>
               (w.s.down = "body" /\ (spc = "stalled" \/ (w.b.win = 0 /\ w.b.resv)))
    /\ w.b.resv => (w.s.down = "body" /\ w.s.h3_ready)

(* Both directions are honest toward their reader. *)
StreamHonest == EndStreamHonest /\ UploadPaced

(* Both ends settle together, and until then each has a wake-up for its    *)
(* work.                                                                   *)
StreamLives == SettledTogether /\ StreamNotStuck
=============================================================================
