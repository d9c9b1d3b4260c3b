---------------------------- MODULE GatewayRelay ----------------------------
(***************************************************************************)
(* One H3 request at the server's gateway (server/gateway/mod.rs,          *)
(* intake.rs): the intake decision, the upload from h3_recv_body into the  *)
(* UploadBuf hyper polls (origin/body.rs), the origin's response relayed   *)
(* to h3_send_headers / h3_send_body / h3_finish, and the error answers    *)
(* (origin/errors.rs).  The bridge's records are OriginPool's; here it is  *)
(* one exchange: its future, its body and `held`.                          *)
(*                                                                         *)
(* The request's H3 side is external and does what H3Request shows: a      *)
(* readable or writable edge is signalled once, sends take what fits.      *)
(* Bytes are counted.  A pump runs between a callback and its settling.    *)
(***************************************************************************)
EXTENDS Integers

CONSTANTS
  UPLOAD_CAP,    \* bound of the upload buffer
  SLICE,         \* bytes per h3_recv_body and per body frame
  MaxBody,       \* bound: request body bytes
  MaxResp,       \* bound: response body bytes
  MaxRoom,       \* H3 send credit at a time
  masquerade,
  NoLen          \* no content-length

GatewayAssumption ==
  /\ {UPLOAD_CAP, SLICE, MaxRoom} \subseteq Nat \ {0}
  /\ {MaxBody, MaxResp} \subseteq Nat /\ masquerade \in BOOLEAN

VARIABLES
  h,     \* the H3 request as the gateway's calls see it
  g,     \* GwReq with its UploadBuf, and the bridge's exchange
  gpc    \* "idle", or "pump"

gvars == <<h, g, gpc>>

Lens(n) == {NoLen} \cup 0 .. n
LeastOf(a, b) == IF a < b THEN a ELSE b

(* The peer's request: body bytes it will send, and the readable side; the *)
(* send credit and what went out (heads, status, body bytes, FIN, reset).  *)
H3Side ==
  [left : 0 .. MaxBody, inb : {0}, fin : {FALSE}, err : {FALSE}, rev : {FALSE},
   room : {0}, wantw : {FALSE}, wev : {FALSE}, dead : {FALSE},
   heads : {0}, status : {0}, bytes : {0}, ofin : {FALSE}, reset : {FALSE}]

(* GwReq at its H3Request event, its UploadBuf, and no exchange yet. *)
GwReq0 ==
  [st |-> "intake", authed |-> FALSE, recvd |-> 0, head |-> 0, pending |-> 0, fin_due |-> FALSE,
   cl |-> NoLen, data |-> 0, fin |-> FALSE, aborted |-> FALSE, want |-> FALSE, yielded |-> 0,
   x |-> "none", held |-> FALSE, delivered |-> 0, ocl |-> NoLen, applies |-> TRUE, clean |-> FALSE,
   waits |-> FALSE, told |-> FALSE,   \* history: hyper's last body poll was Pending / at the end
   token |-> FALSE]                   \* history: the section carried the server's token

GInit == h \in H3Side /\ g = GwReq0 /\ gpc = "idle"

-----------------------------------------------------------------------------
(* The two sides travel together through a handler: z.h and z.g. *)
Z == [h |-> h, g |-> g]

(* drain: read and discard what is readable. *)
DrainH3(z) == [z EXCEPT !.h.inb = 0]

(* GwCore::finish: an upload that has not reached its fin is aborted. *)
Finish(z) ==
  DrainH3(IF z.g.st = "gone" THEN z
          ELSE [z EXCEPT !.g.aborted = @ \/ (z.g.st = "origin" /\ ~z.g.fin), !.g.st = "done"])

H3Reset(z) == [z EXCEPT !.h.reset = @ \/ ~z.h.ofin, !.h.dead = TRUE]

(* GwCore::reset: only a live exchange. *)
ResetReq(z) == IF z.g.st = "origin" THEN Finish(H3Reset(z)) ELSE z

(* h3_send_headers: refused once our side is over; Blocked when r says so. *)
SendHeaders(z, status, fin, r) ==
  IF z.h.dead \/ r # "ok" THEN z
  ELSE [z EXCEPT !.h.heads = @ + 1, !.h.status = status, !.h.ofin = fin]

(* GwCore::send_error: one answer; a bare 404 under masquerade.  Blocked   *)
(* is treated as sent.                                                     *)
SendError(z, status, r) ==
  LET s == IF masquerade /\ ~z.g.authed THEN 404 ELSE status
      y == SendHeaders(z, s, TRUE, r)
  IN IF z.g.st \in {"done", "gone"} THEN z
     ELSE Finish(IF z.h.dead THEN H3Reset(y) ELSE y)

-----------------------------------------------------------------------------
(* Intake *)

Rejected(authed, status) == [authed |-> authed, status |-> status]

(* decide: the order of the checks is what an unauthenticated peer sees;   *)
(* status 0 admits.                                                        *)
Decide(c) ==
  CASE c.bad_header -> Rejected(FALSE, 400)
    [] c.bad_cl     -> Rejected(FALSE, 400)
    [] ~c.auth      -> Rejected(FALSE, 403)
    [] ~c.fields    -> Rejected(TRUE, 400)
    [] ~c.target    -> Rejected(TRUE, 400)
    [] OTHER        -> Rejected(TRUE, 0)

(* What Capture::each makes of a header section; the length is the one     *)
(* content-length that parsed.                                             *)
Sections ==
  [bad_header : BOOLEAN, bad_cl : BOOLEAN, auth : BOOLEAN, fields : BOOLEAN,
   target : BOOLEAN, cl : Lens(MaxBody)]

(* Gateway::intake once a section was read: FIN on it wins over any        *)
(* content-length; start is whether origin.start accepted it.              *)
Intake(z, c, start, r) ==
  LET d == Decide(c)
      a == [z EXCEPT !.g.authed = d.authed, !.g.token = c.auth]
      none == z.h.left = 0 /\ z.h.inb = 0 /\ z.h.fin
  IN IF d.status # 0 THEN SendError(a, d.status, r)
     ELSE IF ~start THEN SendError(a, 502, r)
     ELSE [a EXCEPT !.g.st = "origin", !.g.x = "wait", !.g.fin = none,
                    !.g.cl = IF none THEN NoLen ELSE c.cl]

-----------------------------------------------------------------------------
(* Upload *)

(* The CL check of fill, on the bytes received so far. *)
BadLength(cl, recvd, fin) == cl # NoLen /\ (recvd > cl \/ (fin /\ recvd < cl))

(* GwCore::fill: h3_recv_body until Blocked, the cap or fin, as one read;  *)
(* err: a receive error ended it (the caller may cancel the exchange).     *)
FillErr(z) == z.g.st = "origin" /\ z.h.err /\ ~z.g.fin /\ ~z.g.aborted /\ z.g.data < UPLOAD_CAP

Fill(z) ==
  LET n == LeastOf(UPLOAD_CAP - z.g.data, z.h.inb)
      fin == z.h.fin /\ n = z.h.inb
      y == [z EXCEPT !.h.inb = @ - n, !.g.recvd = @ + n]
  IN IF z.g.st # "origin" \/ z.g.fin \/ z.g.aborted \/ z.g.data = UPLOAD_CAP THEN z
     ELSE IF z.h.err THEN ResetReq(z)
     ELSE IF n = 0 /\ ~fin THEN z
     ELSE IF BadLength(z.g.cl, y.g.recvd, fin) THEN ResetReq(y)
     ELSE [y EXCEPT !.g.data = @ + n, !.g.fin = fin]

(* Origin::cancel: the record ends. *)
CancelExchange(z) == [z EXCEPT !.g.x = IF @ = "none" THEN @ ELSE "ended"]

(* Gateway::upload, on H3Readable. *)
UploadReadable(z) == IF FillErr(z) THEN CancelExchange(Fill(z)) ELSE Fill(z)

(* UploadBody::poll_frame, by hyper: <<what it is answered, new state>>. *)
PollFrame(z) ==
  LET n == LeastOf(z.g.data, SLICE)
  IN CASE z.g.aborted -> <<"err", z>>
       [] z.g.data = 0 /\ z.g.fin -> <<"end", [z EXCEPT !.g.told = TRUE, !.g.waits = FALSE]>>
       [] z.g.data = 0 -> <<"pending", [z EXCEPT !.g.want = TRUE, !.g.waits = TRUE]>>
       [] OTHER -> <<"frame", [z EXCEPT !.g.data = @ - n, !.g.yielded = @ + n, !.g.waits = FALSE]>>

-----------------------------------------------------------------------------
(* Response *)

(* h3_send_body: takes what the credit allows, arming H3Writable when      *)
(* short; <<taken, new state>>, and nothing once our side is over.         *)
SendBody(z, n) ==
  LET k == LeastOf(n, z.h.room)
  IN <<k, [z EXCEPT !.h.bytes = @ + k, !.h.room = @ - k, !.h.wantw = @ \/ k < n]>>

(* send_out: the held head, then pending, then h3_finish when due. *)
SendOut(z, r) ==
  LET y == IF z.g.head # 0 THEN [SendHeaders(z, z.g.head, FALSE, r) EXCEPT !.g.head = 0] ELSE z
      b == SendBody(y, y.g.pending)
      w == [b[2] EXCEPT !.g.pending = @ - b[1]]
  IN CASE z.h.dead /\ (z.g.head # 0 \/ z.g.pending > 0 \/ z.g.fin_due) -> <<"err", z>>
       [] z.g.head # 0 /\ r = "blocked" -> <<"wait", [z EXCEPT !.h.wantw = TRUE]>>
       [] w.g.pending > 0 -> <<"wait", w>>
       [] OTHER -> <<"all", [w EXCEPT !.h.ofin = @ \/ z.g.fin_due]>>

(* GwCore::flush; H3Writable then resumes the bridge if all is out. *)
Flush(z, r) ==
  LET f == SendOut(z, r)
  IN CASE z.g.st # "origin" -> z
       [] f[1] = "err" -> ResetReq(z)
       [] f[1] = "all" /\ z.g.fin_due -> Finish(f[2])
       [] OTHER -> f[2]

FlushedAll(z, r) == z.g.st = "origin" /\ SendOut(z, r)[1] = "all"

(* on_response: :status clamped to 100..599, sent at once or held. *)
Clamp(status) == IF status \in 100 .. 599 THEN status ELSE 502

OnResponse(z, status, cl, applies, r) ==
  LET y == [z EXCEPT !.g.x = "body", !.g.ocl = cl, !.g.applies = applies]
  IN IF z.g.st # "origin" THEN y ELSE Flush([y EXCEPT !.g.head = Clamp(status)], r)

(* on_body_frame of n bytes: what is not taken waits in pending, and the   *)
(* bridge holds the record.                                                *)
OnBodyFrame(z, n) ==
  LET y == [z EXCEPT !.g.delivered = @ + n]
      b == IF z.g.head # 0 THEN <<0, y>> ELSE SendBody(y, n)
  IN CASE z.g.st # "origin" -> y                  \* discarded
       [] z.g.head = 0 /\ z.h.dead -> ResetReq(y)
       [] OTHER -> [b[2] EXCEPT !.g.pending = @ + n - b[1], !.g.held = b[1] < n]

(* Mutant: a body short of its content-length ends in a FIN. *)
OnBodyEndTrusting(z, r) ==
  LET y == [z EXCEPT !.g.x = "ended", !.g.clean = TRUE]
  IN IF z.g.st # "origin" THEN y ELSE Flush([y EXCEPT !.g.fin_due = TRUE], r)

(* on_body_end, with the body check. *)
OnBodyEnd(z, r) ==
  LET y == [z EXCEPT !.g.x = "ended", !.g.clean = TRUE]
  IN CASE z.g.st # "origin" -> y
       [] z.g.applies /\ z.g.ocl # NoLen /\ z.g.delivered < z.g.ocl -> ResetReq(y)
       [] OTHER -> Flush([y EXCEPT !.g.fin_due = TRUE], r)

(* errors.rs: hyper's classes, as map_error ranks them, to curl codes. *)
MapError(class, after_head, proto, rx) ==
  CASE after_head \/ proto = "h2" -> 56
    [] class = "too_large" -> 0                \* upstream-protocol
    [] class = "incomplete" /\ rx = 0 -> 52
    [] class = "parse" -> 8
    [] OTHER -> 56

StatusFromCurl(n) == IF n = 28 THEN 504 ELSE 502

(* A failure before the head: an exchange's, or of the connect phase       *)
(* (resolve, connect, timeout, TLS, verification).                         *)
FailureCodes ==
  {MapError(class, FALSE, proto, rx) : class \in {"too_large", "incomplete", "parse", "other"},
                                       proto \in {"h1", "h2"}, rx \in {0, 1}}
    \cup {6, 7, 28, 35, 60}

(* on_failure: an answer before the head, a reset after it. *)
OnFailure(z, code, r) ==
  LET after_head == z.g.x = "body"
      y == [z EXCEPT !.g.x = "ended"]
  IN IF after_head THEN ResetReq(y) ELSE SendError(y, StatusFromCurl(code), r)

-----------------------------------------------------------------------------
(* Callbacks: H3 events, each followed by a pump. *)

GCall(z) == h' = z.h /\ g' = z.g /\ gpc' = "pump"
Replies == {"ok", "blocked"}

H3Readable ==
  /\ gpc = "idle" /\ h.rev
  /\ LET z == [Z EXCEPT !.h.rev = FALSE]
     IN CASE g.st = "intake" ->
               \/ GCall(z)                                  \* no section yet
               \/ \E r \in Replies : GCall(SendError(z, 400, r))
               \/ \E c \in Sections, start \in BOOLEAN, r \in Replies :
                    GCall(UploadReadable(Intake(z, c, start, r)))
          [] g.st = "origin" -> GCall(UploadReadable(z))
          [] g.st = "done" -> GCall(DrainH3(z))
          [] OTHER -> GCall(z)

H3Writable ==
  /\ gpc = "idle" /\ h.wev
  /\ \E r \in Replies :
       LET z == [Z EXCEPT !.h.wev = FALSE]
           y == Flush(z, r)
       IN GCall(IF FlushedAll(z, r) THEN [y EXCEPT !.g.held = FALSE] ELSE y)

H3ClosedEv ==
  /\ gpc = "idle" /\ (h.dead \/ h.err \/ h.ofin)
  /\ g.st # "gone"
  /\ GCall([CancelExchange(Z) EXCEPT !.g.st = "gone"])

GShutdown ==
  /\ gpc = "idle" /\ g.st # "gone"
  /\ GCall(Finish(H3Reset(CancelExchange(Z))))

-----------------------------------------------------------------------------
(* The pump: hyper polls the upload, the bridge refills it, the response   *)
(* comes in.  It ends once a round changes nothing: no refill is due.      *)

GPump(z) == gpc = "pump" /\ h' = z.h /\ g' = z.g /\ UNCHANGED gpc

HyperPolls ==
  /\ g.x \in {"wait", "body"} /\ ~g.told
  /\ LET p == PollFrame(Z)
     IN IF p[1] = "err" THEN GPump(OnFailure(Z, 56, "ok")) ELSE GPump(p[2])

(* refill, want_h3: the buffers hyper found empty are filled again. *)
Refill ==
  /\ g.want
  /\ LET z == [Z EXCEPT !.g.want = FALSE]
     IN GPump(IF g.x = "ended" THEN z ELSE Fill(z))

Response ==
  /\ g.x = "wait"
  /\ \E status \in {200, 600}, cl \in Lens(MaxResp), applies \in BOOLEAN, r \in Replies :
       GPump(OnResponse(Z, status, cl, applies, r))

BodyFrame ==
  /\ g.x = "body" /\ ~g.held
  /\ \E n \in 1 .. SLICE : g.delivered + n <= MaxResp /\ GPump(OnBodyFrame(Z, n))

BodyEnd == g.x = "body" /\ ~g.held /\ \E r \in Replies : GPump(OnBodyEnd(Z, r))

ExchangeFails ==
  /\ g.x \in {"wait", "body"} /\ (g.x = "body" => ~g.held)
  /\ \E code \in FailureCodes, r \in Replies : GPump(OnFailure(Z, code, r))

(* The last round changed nothing: every refill was asked for, and a hyper *)
(* that waits for the body polled what the refill brought.                 *)
GSettle ==
  /\ gpc = "pump" /\ ~g.want
  /\ (g.waits /\ g.x # "ended") => (g.data = 0 /\ ~g.fin /\ ~g.aborted)
  /\ gpc' = "idle" /\ UNCHANGED <<h, g>>

-----------------------------------------------------------------------------
(* The peer and the transport. *)

GPeer(x) == gpc = "idle" /\ h' = x /\ UNCHANGED <<g, gpc>>
Open == g.st # "gone" /\ ~h.err

(* Bytes of the request arrive, with or without its FIN. *)
PeerSends ==
  /\ Open /\ ~h.fin
  /\ \E n \in 0 .. h.left, f \in BOOLEAN :
       /\ f => n = h.left
       /\ n > 0 \/ f
       /\ GPeer([h EXCEPT !.left = @ - n, !.inb = @ + n, !.fin = f, !.rev = TRUE])

(* The peer resets its side, or the connection goes: sends fail too. *)
PeerFails ==
  /\ Open /\ ~h.fin
  /\ \E d \in BOOLEAN : GPeer([h EXCEPT !.err = TRUE, !.rev = TRUE, !.dead = @ \/ d])

(* STOP_SENDING: our next send fails. *)
PeerStops == Open /\ ~h.dead /\ GPeer([h EXCEPT !.dead = TRUE, !.wev = @ \/ h.wantw, !.wantw = FALSE])

(* Credit comes; a short send is told. *)
PeerCredits ==
  Open /\ h.room < MaxRoom /\ GPeer([h EXCEPT !.room = @ + 1, !.wev = @ \/ h.wantw, !.wantw = FALSE])

GNext ==
  \/ H3Readable \/ H3Writable \/ H3ClosedEv \/ GShutdown
  \/ HyperPolls \/ Refill \/ Response \/ BodyFrame \/ BodyEnd \/ ExchangeFails \/ GSettle
  \/ PeerSends \/ PeerFails \/ PeerStops \/ PeerCredits

GSpec == GInit /\ [][GNext]_gvars

-----------------------------------------------------------------------------
(* Properties *)

(* Never a fake FIN: a relayed response ends in FIN only when the origin's *)
(* body ended cleanly, met its content-length and every byte of it went    *)
(* out before, and a request that was reset gets no FIN.                   *)
NoFakeFin ==
  /\ (h.ofin /\ g.delivered > 0) => g.clean
  /\ (h.ofin /\ g.clean) => /\ h.bytes = g.delivered /\ g.pending = 0
                            /\ (g.applies /\ g.ocl # NoLen) => g.delivered >= g.ocl
  /\ ~(h.ofin /\ h.reset)
  /\ (g.clean /\ g.st = "origin") => g.fin_due

(* The origin is shown the end of an upload only when the peer's whole     *)
(* body went to it, as long as its content-length says; no byte is lost or *)
(* invented between H3 and hyper while the relay lives.                    *)
UploadHonest ==
  /\ g.told => (g.yielded = g.recvd /\ g.data = 0 /\ (g.cl # NoLen => g.yielded = g.cl))
  /\ (g.told /\ g.recvd > 0) => (h.fin /\ h.left = 0)
  /\ g.cl # NoLen => g.yielded <= g.cl
  /\ (g.st = "origin" /\ ~g.aborted) => g.recvd = g.yielded + g.data
  /\ g.data <= UPLOAD_CAP

(* No relay stalls with work it could do: between callbacks, output waits  *)
(* only while the credit is gone or its H3Writable is on the way; the      *)
(* bridge holds a record only behind held output; hyper waits for body     *)
(* bytes only while H3 has none or an H3Readable is on the way.            *)
RelayNotStuck ==
  (gpc = "idle" /\ g.st = "origin") =>
    /\ (g.head # 0 \/ g.pending > 0 \/ g.fin_due) =>
         (h.wev \/ (h.wantw /\ (h.room = 0 \/ g.head # 0)))
    /\ g.held => (g.head # 0 \/ g.pending > 0)
    /\ (g.waits /\ g.x # "ended") => (h.rev \/ (h.inb = 0 /\ ~h.fin /\ ~h.err))

(* A request gets one answer; under masquerade one whose token was not     *)
(* accepted sees nothing but a 404; and a 4xx comes from the intake alone, *)
(* never after the origin was contacted.                                   *)
AnswersHonest ==
  /\ h.heads <= 1
  /\ (masquerade /\ ~g.token) => h.status \in {0, 404}
  /\ g.x # "none" => (g.authed /\ h.status \in {0, 200, 502, 504})
=============================================================================
