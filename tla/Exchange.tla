------------------------------ MODULE Exchange ------------------------------
(***************************************************************************)
(* The pull-based exchange core both client fronts share                   *)
(* (client/exchange/mod.rs): one H3 request `q` as its calls see it, and   *)
(* the core's record `x` of it.  The fronts (FetchFront, MitmStream) carry *)
(* both in one record w and apply these operators; a result is a tuple     *)
(* ending in the new w.  Bytes are counted.                                *)
(*                                                                         *)
(* The H3 request is external: readiness is signalled when something       *)
(* arrives or when credit comes after a short send, a send takes what the  *)
(* credit allows, the FIN may come early, and H3Closed may come any time   *)
(* (the connection went), after which every call is Stale.                 *)
(***************************************************************************)
EXTENDS Integers

CONSTANTS
  MaxBody,       \* bound: response body bytes
  MaxRoom,       \* H3 send credit at a time
  NoLen          \* no content-length

ASSUME ExchangeAssumption == MaxBody \in Nat /\ MaxRoom \in Nat \ {0}

XMin(a, b) == IF a < b THEN a ELSE b

NoRequest ==
  [slot |-> FALSE, serr |-> FALSE, rerr |-> FALSE, room |-> 0, wantw |-> FALSE, sent |-> 0, ofin |-> FALSE,
   reset |-> FALSE, head |-> "none", hd |-> [cl |-> NoLen, has_cl |-> FALSE, applies |-> TRUE, fin |-> FALSE],
   total |-> 0, inb |-> 0, infin |-> FALSE, rev |-> FALSE, wev |-> FALSE, cev |-> FALSE]

NoExch ==
  [on |-> FALSE, live |-> FALSE, up |-> "done", rem |-> 0, down |-> "await", cl |-> NoLen,
   delivered |-> 0, fin |-> FALSE, applies |-> TRUE]

-----------------------------------------------------------------------------
(* The transport's calls *)

H3Reset(w) == [w EXCEPT !.q.reset = @ \/ w.q.slot]

(* h3_send_body / h3_finish: <<"ok" | "blocked" | "error", taken, w>>. *)
H3Send(w, n, fin) ==
  LET k == XMin(n, w.q.room)
  IN CASE ~w.q.slot -> <<"blocked", 0, w>>                \* Stale
       [] w.q.serr -> <<"error", 0, w>>
       [] n > 0 /\ k = 0 -> <<"blocked", 0, [w EXCEPT !.q.wantw = TRUE]>>
       [] OTHER -> <<"ok", k, [w EXCEPT !.q.sent = @ + k, !.q.room = @ - k, !.q.ofin = fin /\ k = n,
                                        !.q.wantw = @ \/ k < n]>>

(* h3_recv_body into a buffer of cap bytes: the fin comes with the last    *)
(* byte; <<"ok" | "blocked" | "error", n, fin, w>>.                        *)
H3Recv(w, cap) ==
  LET n == XMin(cap, w.q.inb)
      fin == w.q.infin /\ n = w.q.inb
  IN CASE ~w.q.slot -> <<"blocked", 0, FALSE, w>>
       [] w.q.rerr -> <<"error", 0, FALSE, w>>
       [] n = 0 /\ ~fin -> <<"blocked", 0, FALSE, w>>
       [] OTHER -> <<"ok", n, fin, [w EXCEPT !.q.inb = @ - n]>>

-----------------------------------------------------------------------------
(* Exchanges *)

(* Mutant: a failed exchange is only forgotten. *)
FailForgets(w) == [w EXCEPT !.x = NoExch]

(* fail, reset, drain_owner: h3_reset while live, then remove. *)
Fail(w) == [(IF w.x.on /\ w.x.live THEN H3Reset(w) ELSE w) EXCEPT !.x = NoExch]

(* open: the head goes out whole, with the FIN iff there is no body; any   *)
(* send error resets.  body is "empty", "unknown" or a length; r is what   *)
(* open_h3_request / h3_send_headers answered.                             *)
OpenExch(w, body, len, r) ==
  LET none == body = "empty" \/ (body = "known" /\ len = 0)
      a == [w EXCEPT !.q = [NoRequest EXCEPT !.slot = TRUE, !.ofin = none],
                     !.x = [NoExch EXCEPT !.on = TRUE, !.live = TRUE,
                                          !.up = IF none THEN "done" ELSE IF body = "known" THEN "known" ELSE "streaming",
                                          !.rem = IF body = "known" THEN len ELSE 0]]
  IN CASE r = "ok" -> a
       [] r = "send_error" -> [H3Reset([w EXCEPT !.q = [NoRequest EXCEPT !.slot = TRUE]]) EXCEPT !.x = NoExch]
       [] OTHER -> w                                      \* header too long, or no request opened

(* What send_body offers of n bytes. *)
Taken(x, n) == IF x.up = "known" THEN XMin(n, x.rem) ELSE n

(* send_body: <<"accepted" | "blocked" | "done", n, w>>. *)
SendBody(w, n, fin) ==
  LET take == Taken(w.x, n)
      f == IF w.x.up = "known" THEN take = w.x.rem ELSE fin
      s == H3Send(w, take, f)
  IN CASE ~w.x.on \/ w.x.up = "done" -> <<"done", 0, w>>
       [] take = 0 /\ ~f -> <<"accepted", 0, w>>
       [] s[1] = "blocked" -> <<"blocked", 0, s[3]>>
       [] s[1] = "error" ->
            <<"done", 0, [H3Reset(w) EXCEPT !.x.live = FALSE, !.x.up = "done", !.x.down = "failed"]>>
       [] f /\ s[2] = take -> <<"accepted", n, [s[3] EXCEPT !.x.up = "done", !.x.rem = 0]>>
       [] OTHER -> <<"accepted", s[2], [s[3] EXCEPT !.x.rem = IF w.x.up = "known" THEN @ - s[2] ELSE @]>>

(* upload_eof: short of a known length the exchange is reset.  <<ok, w>>. *)
UploadEof(w, buffered) ==
  IF w.x.on /\ w.x.up = "known" /\ buffered < w.x.rem THEN <<FALSE, Fail(w)>> ELSE <<TRUE, w>>

(* on_event for H3Closed, which then reads as Readable. *)
OnClosed(w) ==
  IF ~w.x.on THEN w
  ELSE [w EXCEPT !.x.live = FALSE, !.x.up = "done",
                 !.x.down = CASE @ = "await" -> "closed_before_head"
                              [] @ = "body" /\ ~w.x.fin -> "failed"
                              [] OTHER -> @]

(* read_head: <<"head" | "wait" | "fail", w>>. *)
ReadHead(w) ==
  CASE ~w.x.on -> <<"fail", w>>
    [] w.x.down \in {"closed_before_head", "failed"} -> <<"fail", Fail(w)>>
    [] w.x.down = "body" -> <<"wait", w>>
    [] ~w.q.slot -> <<"wait", w>>
    [] w.q.rerr \/ w.q.head = "bad" -> <<"fail", Fail(w)>>
    [] w.q.head # "ready" -> <<"wait", w>>
    [] OTHER -> <<"head", [w EXCEPT !.q.head = "read", !.x.down = "body", !.x.cl = w.q.hd.cl,
                         !.x.applies = w.q.hd.applies, !.x.fin = w.q.hd.fin]>>

(* body_check_applies and the content-length: end rule 1. *)
Short(x, delivered) == x.applies /\ x.cl # NoLen /\ delivered < x.cl

(* read_body: <<"data" | "last" | "wait" | "fail", n, w>>; an early        *)
(* response resets the upload.                                             *)
ReadBody(w, cap) ==
  LET s == IF w.x.fin THEN <<"ok", 0, TRUE, w>> ELSE H3Recv(w, cap)
      d == w.x.delivered + s[2]
      y == s[4]
  IN CASE ~w.x.on -> <<"fail", 0, w>>
       [] w.x.down \in {"await", "closed_before_head"} -> <<"wait", 0, w>>
       [] w.x.down = "failed" \/ s[1] = "error" -> <<"fail", 0, Fail(w)>>
       [] s[1] = "blocked" -> <<"wait", 0, w>>
       [] ~s[3] -> <<"data", s[2], [y EXCEPT !.x.delivered = d]>>
       [] Short(w.x, d) -> <<"fail", 0, Fail(y)>>
       [] OTHER -> <<"last", s[2], [(IF w.x.up # "done" THEN H3Reset(y) ELSE y) EXCEPT !.x = NoExch]>>

-----------------------------------------------------------------------------
(* What the tunnel, the server and the origin may do to the request: the   *)
(* possible next values of q.  A FIN may come at any length.               *)

(* HeadCollector: a head with its content-length (1 or MaxBody) if it has  *)
(* just one that parses; applies is body_check_applies of it.              *)
RespHeads ==
  {hd \in [cl : {NoLen, 1, MaxBody}, has_cl : BOOLEAN, applies : BOOLEAN, fin : BOOLEAN] :
     hd.cl # NoLen => hd.has_cl}

HeadArrives(q) ==
  IF q.head # "none" \/ q.rerr THEN {}
  ELSE {[q EXCEPT !.head = "bad", !.rev = TRUE]}
       \cup {[q EXCEPT !.head = "ready", !.hd = hd, !.infin = hd.fin, !.rev = TRUE] : hd \in RespHeads}

BodyArrives(q) ==
  IF q.head \notin {"ready", "read"} \/ q.infin \/ q.rerr THEN {}
  ELSE {[q EXCEPT !.total = @ + n, !.inb = @ + n, !.infin = f, !.rev = TRUE] :
          n \in 1 .. MaxBody - q.total, f \in BOOLEAN}
       \cup {[q EXCEPT !.infin = TRUE, !.rev = TRUE]}

Told(q) == [q EXCEPT !.wev = @ \/ q.wantw, !.wantw = FALSE]

(* A request no exchange owns is only looked at for its H3Closed, and an   *)
(* upload that is over for neither credit nor STOP_SENDING.                *)
PeerMoves(q, x) ==
  IF ~q.slot THEN {}
  ELSE {[q EXCEPT !.slot = FALSE, !.cev = TRUE]}
       \cup (IF x.on THEN HeadArrives(q) \cup BodyArrives(q) ELSE {})
       \cup (IF ~x.on \/ q.rerr \/ q.infin THEN {} ELSE {[q EXCEPT !.rerr = TRUE, !.rev = TRUE]})
       \cup (IF ~x.on \/ x.up = "done" THEN {}
             ELSE {[Told(q) EXCEPT !.serr = TRUE], [Told(q) EXCEPT !.room = XMin(@ + 1, MaxRoom)]})
=============================================================================
