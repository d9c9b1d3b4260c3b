----------------------------- MODULE H3Request -----------------------------
(***************************************************************************)
(* One HTTP/3 request of one connection in the H3 layer (mq-h3): a         *)
(* decorator of the transport that runs an h3wire connection and serves    *)
(* requests from it.  Its user, "the gateway", is an HTTP bridge.          *)
(*                                                                         *)
(* Every method runs to its end, so methods are functions on               *)
(*    h = [q, c, w, x, out]                                                *)
(*    q    the Req struct (q.in: it is in `reqs`)                          *)
(*    c    the parts of H3Conn and H3Wire that concern the request         *)
(*    w    h3wire's state of the stream (external)                         *)
(*    x    the transport's stream (external)                               *)
(*    out  the OutQueue                                                    *)
(* and an action applies one of them.  The inner transport's events `ev`   *)
(* are all dispatched at the end of every method (drive_inner), so the     *)
(* gateway never runs between an arrival and its dispatch.                 *)
(*                                                                         *)
(* What arrives is a sequence of tokens: "H" the HEADERS the gateway sees, *)
(* "D" a byte of DATA, "X" a malformed frame (h3wire aborts the request),  *)
(* "C" a connection error.  Trailers, informational heads and uni streams  *)
(* are left out.                                                           *)
(***************************************************************************)
EXTENDS Integers, Sequences, SequencesExt

CONSTANTS
  BOOT_READ,   \* tokens read at once by the bootstrap
  BodyBuf,     \* the gateway's buffer for h3_recv_body
  HeadBytes,   \* bytes of the HEADERS frame we send
  UploadLen,   \* bound: body bytes the gateway sends
  MaxBody,     \* bound: body bytes the peer sends
  MaxGrants,   \* bound: bytes the transport ever has room for
  MaxBatch,    \* bound: transport events of one drive
  MaxFaults    \* bound: malformed messages, resets, stops, losses of the connection

VARIABLES
  client,   \* our role: never changes
  h,        \* the H3 layer, h3wire and the stream
  ev,       \* events of the inner transport, oldest first
  peer,     \* what the peer still may do on the stream
  gw        \* what the gateway was told and has done

h3vars == <<client, h, ev, peer, gw>>

Lesser(a, b) == IF a <= b THEN a ELSE b

NoFrame == [on |-> FALSE, prefix |-> 0, left |-> 0, end |-> FALSE]

(* Req::new; before open_req or NewStream there is none. *)
NewReq(cl) ==
  [in |-> TRUE, known |-> cl, core |-> ~cl, booted |-> FALSE, block |-> FALSE,
   terminal |-> "none", handed |-> FALSE, codePending |-> FALSE, deferred |-> FALSE,
   carry |-> <<>>, carryFin |-> FALSE, finRead |-> FALSE, closed |-> FALSE,
   frame |-> NoFrame, coalesced |-> FALSE, latched |-> FALSE, wanted |-> FALSE,
   stopped |-> FALSE]

NewConn ==
  [live |-> TRUE, closing |-> FALSE, gone |-> FALSE, h3Closed |-> FALSE,
   core |-> FALSE, fins |-> FALSE, routed |-> FALSE, dirty |-> FALSE]

(* snd: our send side; hdr: queued HEADERS bytes; due: bytes of the DATA   *)
(* frame announced and not yet reported written.                           *)
NewWire ==
  [snd |-> "idle", hdr |-> 0, hdrFin |-> FALSE, due |-> 0, endDue |-> FALSE,
   rcv |-> "head", block |-> FALSE, dead |-> FALSE, events |-> <<>>, acts |-> <<>>]

(* credit: bytes the transport accepts now; want: it owes a StreamWritable;*)
(* pay: payload bytes accepted; used: something was sent.                  *)
NewStream ==
  [inq |-> <<>>, fin |-> FALSE, reset |-> FALSE, read |-> FALSE, gone |-> FALSE,
   credit |-> 0, want |-> FALSE, pay |-> 0, used |-> FALSE,
   finOut |-> FALSE, rstOut |-> FALSE, stopOut |-> FALSE, closeOut |-> FALSE]

Aborted(q) == q.terminal = "aborted"

----------------------------------------------------------------------------
(* OutQueue: a level event already queued is not queued twice. *)

Level == {"H3Readable", "H3Writable"}

PushOut(hh, e) ==
  IF e \in Level /\ \E i \in DOMAIN hh.out : hh.out[i] = e THEN hh
  ELSE [hh EXCEPT !.out = Append(@, e)]

----------------------------------------------------------------------------
(* The transport's stream. *)

RecvX(x, cap) ==
  IF x.gone THEN [x |-> x, toks |-> <<>>, fin |-> FALSE, err |-> "Stale"]
  ELSE IF x.reset
  THEN [x |-> [x EXCEPT !.read = TRUE, !.inq = <<>>], toks |-> <<>>, fin |-> FALSE, err |-> "Reset"]
  ELSE IF x.inq = <<>> /\ ~x.fin
  THEN [x |-> x, toks |-> <<>>, fin |-> FALSE, err |-> "Blocked"]
  ELSE LET n == Lesser(cap, Len(x.inq))
           fin == x.fin /\ n = Len(x.inq)
       IN [x |-> [x EXCEPT !.inq = SubSeq(@, n + 1, Len(@)), !.read = @ \/ fin],
           toks |-> SubSeq(x.inq, 1, n), fin |-> fin, err |-> "ok"]

SendX(x, n, fin, pay) ==
  IF x.gone THEN [x |-> x, n |-> 0, err |-> "Stale"]
  ELSE IF x.rstOut THEN [x |-> x, n |-> 0, err |-> "Reset"]
  ELSE IF x.credit = 0 THEN [x |-> [x EXCEPT !.want = TRUE], n |-> 0, err |-> "Blocked"]
  ELSE LET k == Lesser(n, x.credit)
       IN [x |-> [x EXCEPT !.credit = @ - k, !.want = @ \/ k < n, !.used = TRUE,
                           !.pay = IF pay THEN @ + k ELSE @, !.finOut = @ \/ (fin /\ k = n)],
           n |-> k, err |-> "ok"]

----------------------------------------------------------------------------
(* h3wire. *)

SendOver(w) == w.snd = "reset" \/ (w.snd = "ended" /\ w.hdr = 0)

DropSend(w) == [w EXCEPT !.snd = "reset", !.hdr = 0, !.due = 0]

WithAct(w, a) == [w EXCEPT !.acts = Append(@, a)]

WithEvent(w, e) == [w EXCEPT !.events = Append(@, e)]

ResetOurs(w) == IF SendOver(w) THEN w ELSE WithAct(DropSend(w), "ResetStream")

WireSent(w, n) ==
  LET v == [w EXCEPT !.hdr = @ - n]
  IN IF v.hdr = 0 /\ v.hdrFin THEN WithAct(v, "FinishStream") ELSE v

WireDataWritten(w, n) ==
  LET v == [w EXCEPT !.due = @ - n]
  IN IF v.due = 0 /\ v.endDue THEN WithAct([v EXCEPT !.snd = "ended"], "FinishStream") ELSE v

WireSendData(w, n, end) ==
  IF w.dead THEN [w |-> w, err |-> "Conn"]
  ELSE IF w.snd \in {"idle", "reset"} \/ (w.snd = "ended" /\ w.hdr = 0) THEN [w |-> w, err |-> "Reset"]
  ELSE IF w.hdr > 0 THEN [w |-> w, err |-> "Blocked"]
  ELSE IF n = 0 THEN [w |-> WithAct([w EXCEPT !.snd = "ended"], "FinishStream"), err |-> "ok"]
  ELSE [w |-> [w EXCEPT !.due = n + 1, !.endDue = end], err |-> "ok"]

WireAbort(w) ==
  IF w.dead THEN w
  ELSE LET v == ResetOurs(w)
       IN IF v.rcv = "done" THEN v
          ELSE WithEvent(WithAct([v EXCEPT !.rcv = "done"], "StopSending"), "StreamAborted")

WireResetReceived(w) ==
  IF w.dead THEN w
  ELSE LET v == ResetOurs(w)
       IN IF v.rcv = "done" THEN v ELSE WithEvent([v EXCEPT !.rcv = "done"], "StreamAborted")

WireStopReceived(w) ==
  IF w.dead \/ SendOver(w) THEN w
  ELSE WithEvent(WithAct(DropSend(w), "ResetStream"), "SendStopped")

WireFin(w) ==
  CASE w.rcv = "body" -> WithEvent([w EXCEPT !.rcv = "done"], "Finished")
    [] w.rcv = "head" -> WireAbort(w)
    [] OTHER -> w

(* Recv of a slice: one head, a run of body, or nothing more.  A held      *)
(* block pauses the stream.                                                *)
BodyRun(s) ==
  LET stops == {i \in DOMAIN s : s[i] # "D"}
  IN IF stops = {} THEN Len(s) ELSE (CHOOSE i \in stops : \A j \in stops : i <= j) - 1

WireRecv(w, s, fin) ==
  LET End(v, n) == IF fin /\ n = Len(s) THEN WireFin(v) ELSE v
  IN IF w.dead THEN [w |-> w, kind |-> "err", n |-> 0]
     ELSE IF w.block THEN [w |-> w, kind |-> "paused", n |-> 0]
     ELSE IF s = <<>> THEN [w |-> End(w, 0), kind |-> "consumed", n |-> 0]
     ELSE IF Head(s) = "C"
     THEN [w |-> WithAct(WithEvent([w EXCEPT !.dead = TRUE], "Closed"), "CloseConnection"),
           kind |-> "err", n |-> 0]
     ELSE IF Head(s) = "X" THEN [w |-> End(WireAbort(w), 1), kind |-> "consumed", n |-> 1]
     ELSE IF Head(s) = "H"
     THEN [w |-> End(WithEvent([w EXCEPT !.rcv = "body", !.block = TRUE], "Headers"), 1),
           kind |-> "consumed", n |-> 1]
     ELSE LET n == BodyRun(s) IN [w |-> End(w, n), kind |-> "body", n |-> n]

----------------------------------------------------------------------------
(* Closing a request and its connection. *)

SettleConn(hh) ==
  IF hh.c.gone /\ ~hh.q.in THEN [hh EXCEPT !.c.live = FALSE, !.w.dead = TRUE] ELSE hh

CloseReq(hh) ==
  IF ~hh.q.in THEN hh
  ELSE LET k == [hh EXCEPT !.q.in = FALSE, !.w.block = @ /\ ~hh.q.block]
       IN IF hh.q.known THEN PushOut(k, "H3Closed") ELSE k

MaybeClose(hh) ==
  LET q == hh.q
  IN IF ~q.in \/ ~q.closed \/ (q.known /\ ~q.handed /\ ~Aborted(q)) THEN hh
     ELSE SettleConn(CloseReq(hh))

StopSend(hh) ==
  LET k == [hh EXCEPT !.q.stopped = TRUE, !.q.frame = NoFrame, !.q.latched = FALSE]
  IN IF hh.q.known THEN PushOut(k, "H3Writable") ELSE k

(* Retirement read: discards what is left until FIN, the reset or Blocked. *)
RetireRead(hh) ==
  LET x == hh.x
      end == ~x.gone /\ (x.reset \/ x.fin)
  IN IF x.gone THEN hh
     ELSE [hh EXCEPT !.x = [x EXCEPT !.inq = <<>>, !.read = @ \/ end], !.q.finRead = @ \/ end]

----------------------------------------------------------------------------
(* dispatch: h3wire's events.  The record also says whether a retirement   *)
(* read is owed.                                                           *)

(* Mutant: a terminal event wakes only a gateway whose head is pending. *)
NotifyEndBooted(hh) ==
  LET k == [hh EXCEPT !.q.booted = TRUE]
  IN IF hh.q.known /\ ~hh.q.handed /\ hh.q.booted THEN PushOut(k, "H3Readable") ELSE k

NotifyEnd(hh) ==
  LET k == [hh EXCEPT !.q.booted = TRUE]
  IN IF hh.q.known /\ ~hh.q.handed THEN PushOut(k, "H3Readable") ELSE k

OnHeaders(hh) ==
  LET k == [hh EXCEPT !.q.block = TRUE, !.q.booted = TRUE, !.q.known = TRUE]
  IN PushOut(IF hh.q.known THEN k ELSE PushOut(k, "H3Request"), "H3Readable")

OnAborted(hh) ==
  NotifyEnd([hh EXCEPT !.w.block = @ /\ ~hh.q.block,
                       !.q = [hh.q EXCEPT !.terminal = "aborted", !.block = FALSE, !.carry = <<>>,
                                          !.carryFin = FALSE, !.codePending = FALSE]])

DispatchOne(d, e) ==
  LET hh == d.h
  IN CASE e = "Closed" ->
            LET k == [hh EXCEPT !.c.h3Closed = TRUE]
            IN [d EXCEPT !.h = IF k.c.gone THEN SettleConn(CloseReq(k)) ELSE k]
       [] e = "Headers" /\ ~hh.q.in -> [d EXCEPT !.h.w.block = FALSE]
       [] ~hh.q.in -> d
       [] e = "Headers" -> [d EXCEPT !.h = OnHeaders(hh)]
       [] e = "SendStopped" -> [d EXCEPT !.h = StopSend(hh)]
       [] e = "Finished" -> [d EXCEPT !.h = NotifyEnd([hh EXCEPT !.q.terminal = "finished"])]
       [] OTHER -> [h |-> OnAborted(hh), retire |-> d.retire \/ ~hh.q.finRead]

DispatchRetire(hh) ==
  IF ~hh.c.live THEN hh
  ELSE LET d == FoldLeft(DispatchOne, [h |-> [hh EXCEPT !.w.events = <<>>], retire |-> FALSE],
                         hh.w.events)
       IN IF d.retire /\ d.h.c.routed THEN RetireRead(d.h) ELSE d.h

----------------------------------------------------------------------------
(* service: pending FINs, actions, core bytes, actions. *)

RetryFins(hh) ==
  IF ~(hh.c.live /\ hh.c.fins) THEN hh
  ELSE LET r == SendX(hh.x, 0, TRUE, FALSE)
       IN [hh EXCEPT !.x = r.x, !.c.fins = r.err = "Blocked"]

FinishStream(hh) ==
  IF hh.q.in /\ hh.q.coalesced THEN [hh EXCEPT !.q.coalesced = FALSE]
  ELSE LET r == SendX(hh.x, 0, TRUE, FALSE)
       IN [hh EXCEPT !.x = r.x, !.c.fins = @ \/ r.err = "Blocked"]

ActOne(hh, a) ==
  IF hh.c.closing THEN hh
  ELSE IF a = "CloseConnection" THEN [hh EXCEPT !.c.closing = TRUE, !.x.closeOut = TRUE]
  ELSE IF ~hh.c.routed THEN hh
  ELSE CASE a = "FinishStream" -> FinishStream(hh)
         [] a = "ResetStream" -> [hh EXCEPT !.x.rstOut = @ \/ ~hh.x.gone, !.c.fins = FALSE]
         [] OTHER -> [hh EXCEPT !.x.stopOut = @ \/ ~hh.x.gone]

ActAll(k) == IF ~k.c.live THEN k ELSE FoldLeft(ActOne, [k EXCEPT !.w.acts = <<>>], k.w.acts)

RunActions(hh) == ActAll(DispatchRetire(hh))

(* try_finish: the latched finish, once no HEADERS byte is queued. *)
TryFinish(hh) ==
  IF ~hh.q.latched THEN [h |-> hh, err |-> "ok"]
  ELSE LET r == WireSendData(hh.w, 0, TRUE)
       IN IF r.err = "Blocked" THEN [h |-> hh, err |-> "ok"]
          ELSE [h |-> [hh EXCEPT !.w = r.w, !.q.latched = FALSE], err |-> r.err]

Wanted(k) ==
  LET v == [k EXCEPT !.q.wanted = FALSE]
  IN IF k.q.wanted /\ k.q.known THEN PushOut(v, "H3Writable") ELSE v

Drained(hh) == IF hh.q.in THEN Wanted(TryFinish(hh).h) ELSE hh

(* flush: returns whether bytes wait on the transport. *)
Flushed(hh, r) ==
  LET k == [hh EXCEPT !.x = r.x, !.w = IF r.n > 0 THEN WireSent(@, r.n) ELSE @]
  IN [h |-> IF k.w.hdr = 0 THEN Drained([k EXCEPT !.c.core = FALSE]) ELSE k,
      short |-> r.err = "Blocked" \/ (r.err = "ok" /\ r.n < hh.w.hdr)]

Flush(hh) ==
  IF ~hh.c.live \/ hh.c.closing \/ ~hh.c.core THEN [h |-> hh, short |-> FALSE]
  ELSE Flushed(hh, IF hh.w.hdr = 0 THEN [x |-> hh.x, n |-> 0, err |-> "ok"]
                   ELSE SendX(hh.x, hh.w.hdr, hh.q.in /\ hh.q.coalesced, FALSE))

StillDirty(k, short) == [k EXCEPT !.c.dirty = k.c.live /\ (short \/ k.c.fins)]

Settle(f) == StillDirty(RunActions(f.h), f.short)

Service(hh) == Settle(Flush(RunActions(RetryFins(hh))))

(* drive_inner before its events, of which there are none between methods. *)
DriveInner(hh) == IF hh.c.dirty THEN Service(hh) ELSE hh

Touch(hh) == [hh EXCEPT !.c.dirty = @ \/ hh.q.in]

----------------------------------------------------------------------------
(* Receiving. *)

PeerReset(hh) ==
  IF ~hh.q.in \/ Aborted(hh.q) THEN hh
  ELSE LET k == IF hh.c.live THEN [hh EXCEPT !.w = WireResetReceived(@)] ELSE hh
       IN IF k.q.terminal = "finished" THEN StopSend(k) ELSE k

RECURSIVE Feed(_, _, _)

(* One carry slice given to h3wire; the FIN goes with the whole rest. *)
Deferred(hh, finFed) ==
  IF finFed /\ hh.q.in /\ hh.q.deferred THEN PeerReset([hh EXCEPT !.q.deferred = FALSE]) ELSE hh

Fed(hh, r, finFed) ==
  Deferred(DispatchRetire([hh EXCEPT !.w = r.w, !.q.carry = SubSeq(@, r.n + 1, Len(@)),
                                     !.q.carryFin = @ /\ ~finFed]), finFed)

AfterRecv(hh, r, finFed, cap, boot) ==
  LET body == IF r.kind = "body" THEN r.n ELSE 0
  IN IF ~hh.c.live THEN [h |-> hh, n |-> 0, err |-> "Conn"]
     ELSE IF r.kind = "err" THEN [h |-> [hh EXCEPT !.w = r.w, !.q.carry = <<>>], n |-> 0, err |-> "Conn"]
     ELSE IF r.kind = "paused" THEN [h |-> hh, n |-> 0, err |-> "ok"]
     ELSE IF body > 0 \/ (r.n = 0 /\ ~finFed) THEN [h |-> Fed(hh, r, finFed), n |-> body, err |-> "ok"]
     ELSE Feed(Fed(hh, r, finFed), cap, boot)

FeedSlice(hh, cap, boot) ==
  LET n == Lesser(Len(hh.q.carry), cap)
      fin == hh.q.carryFin /\ n = Len(hh.q.carry)
      r == WireRecv(hh.w, SubSeq(hh.q.carry, 1, n), fin)
  IN AfterRecv(hh, r, fin /\ r.n = n, cap, boot)

(* boot: stops at the gateway-visible block; else a body pull of at most   *)
(* cap, which stops at the first payload.                                  *)
Feed(hh, cap, boot) ==
  LET q == hh.q
      r == RecvX(hh.x, cap)
      reset == r.err = "Reset"
  IN IF ~q.in THEN [h |-> hh, n |-> 0, err |-> "Stale"]
     ELSE IF q.terminal # "none" \/ q.codePending \/ (boot /\ q.booted)
     THEN [h |-> hh, n |-> 0, err |-> "ok"]
     ELSE IF q.carry # <<>> \/ q.carryFin THEN FeedSlice(hh, cap, boot)
     ELSE IF r.err # "ok"
     THEN [h |-> [hh EXCEPT !.x = r.x, !.q.codePending = reset, !.q.finRead = reset],
           n |-> 0, err |-> r.err]
     ELSE FeedSlice([hh EXCEPT !.x = r.x, !.q.carry = r.toks, !.q.carryFin = r.fin,
                               !.q.finRead = r.fin], cap, boot)

(* h3_recv_headers. *)
RecvHeaders(hh) ==
  LET q == hh.q
      fin == q.terminal = "finished"
      k == [hh EXCEPT !.w.block = FALSE, !.q.block = FALSE, !.q.handed = @ \/ fin]
      p == IF q.carry # <<>> \/ q.carryFin THEN PushOut(k, "H3Readable") ELSE k
  IN IF ~(q.in /\ q.known) THEN [h |-> hh, n |-> 0, fin |-> FALSE, err |-> "Stale"]
     ELSE IF Aborted(q) \/ q.codePending
     THEN [h |-> [hh EXCEPT !.q.handed = TRUE], n |-> 0, fin |-> FALSE, err |-> "Reset"]
     ELSE IF ~q.block THEN [h |-> hh, n |-> 0, fin |-> FALSE, err |-> "Blocked"]
     ELSE IF ~hh.c.live \/ hh.w.dead THEN [h |-> hh, n |-> 0, fin |-> FALSE, err |-> "Conn"]
     ELSE [h |-> DriveInner(MaybeClose(p)), n |-> 0, fin |-> fin, err |-> "ok"]

(* What h3_recv_body answers after the feed f, and leaves behind. *)
RecvResult(f) ==
  LET q == f.h.q
  IN IF Aborted(q) \/ q.codePending THEN [n |-> 0, fin |-> FALSE, err |-> "Reset"]
     ELSE IF f.err = "ok" /\ q.terminal = "finished" THEN [n |-> f.n, fin |-> TRUE, err |-> "ok"]
     ELSE IF f.err = "ok" /\ f.n = 0 THEN [n |-> 0, fin |-> FALSE, err |-> "Blocked"]
     ELSE [n |-> f.n, fin |-> FALSE, err |-> f.err]

Received(hh, o) ==
  [h |-> DriveInner(MaybeClose([hh EXCEPT !.q.handed = @ \/ o.fin \/ o.err = "Reset"])),
   n |-> o.n, fin |-> o.fin, err |-> o.err]

AfterFeed(hh, f) ==
  IF ~(hh.q.in /\ hh.q.known) \/ ~f.h.q.in THEN [h |-> f.h, n |-> 0, fin |-> FALSE, err |-> "Stale"]
  ELSE IF ~hh.q.booted THEN [h |-> hh, n |-> 0, fin |-> FALSE, err |-> "Blocked"]
  ELSE Received(f.h, RecvResult(f))

RecvBody(hh) == AfterFeed(hh, Feed(hh, BodyBuf, FALSE))

----------------------------------------------------------------------------
(* Sending. *)

SendHeaders(hh, fin) ==
  LET q == hh.q
      ok == ~hh.w.dead /\ hh.w.snd = "idle"
      k == [hh EXCEPT !.q.core = TRUE, !.q.coalesced = fin, !.c.core = TRUE,
                      !.w = [hh.w EXCEPT !.snd = IF fin THEN "ended" ELSE "open",
                                         !.hdr = HeadBytes, !.hdrFin = fin]]
  IN IF ~(q.in /\ q.known) THEN [h |-> hh, err |-> "Stale"]
     ELSE IF Aborted(q) \/ q.stopped THEN [h |-> hh, err |-> "Reset"]
     ELSE IF ~hh.c.live THEN [h |-> hh, err |-> "Conn"]
     ELSE IF ~ok THEN [h |-> DriveInner(hh), err |-> IF hh.w.dead THEN "Conn" ELSE "Reset"]
     ELSE [h |-> DriveInner(k), err |-> "ok"]

(* write_frame: the prefix, then payload of the n re-offered bytes. *)
Wrote(hh, a, b) ==
  LET g == [hh.q.frame EXCEPT !.prefix = @ - a, !.left = @ - b.n]
      written == a + b.n
  IN [h |-> [hh EXCEPT !.x = b.x, !.q.frame = IF g.prefix = 0 /\ g.left = 0 THEN NoFrame ELSE g,
                       !.w = IF written > 0 THEN WireDataWritten(@, written) ELSE @],
      n |-> b.n, err |-> IF b.err = "Blocked" THEN "ok" ELSE b.err]

Payload(hh, a, n) ==
  LET take == IF a.n = hh.q.frame.prefix THEN Lesser(n, hh.q.frame.left) ELSE 0
  IN Wrote(hh, a.n, IF take = 0 THEN [x |-> a.x, n |-> 0, err |-> a.err] ELSE SendX(a.x, take, FALSE, TRUE))

WriteFrame(hh, n) ==
  Payload(hh, IF hh.q.frame.prefix = 0 THEN [x |-> hh.x, n |-> 0, err |-> "ok"]
              ELSE SendX(hh.x, hh.q.frame.prefix, FALSE, FALSE), n)

(* A new DATA frame for the rest of what is offered; n bytes were accepted *)
(* by the frame before it.                                                 *)
Started(f, n) ==
  [h |-> f.h, n |-> n + f.n,
   err |-> IF n > 0 THEN "ok" ELSE IF f.err = "ok" /\ f.n = 0 THEN "Blocked" ELSE f.err]

StartFrame(hh, n, rest, fin) ==
  LET r == WireSendData(hh.w, rest, fin)
      k == [hh EXCEPT !.w = r.w,
                      !.q.frame = [on |-> TRUE, prefix |-> 1, left |-> rest, end |-> fin]]
  IN IF r.err # "ok"
     THEN [h |-> IF r.err = "Blocked" /\ n = 0 THEN [hh EXCEPT !.q.wanted = TRUE] ELSE hh, n |-> n,
           err |-> IF n > 0 THEN "ok" ELSE r.err]
     ELSE Started(WriteFrame(k, rest), n)

(* Mutant: a finish is sent at once, past the HEADERS bytes still queued.  *)
LatchFinishNow(hh, n) ==
  [h |-> [hh EXCEPT !.w = WithAct([hh.w EXCEPT !.snd = "ended"], "FinishStream")], n |-> n, err |-> "ok"]

LatchFinish(hh, n) ==
  LET r == TryFinish([hh EXCEPT !.q.latched = TRUE])
  IN [h |-> r.h, n |-> n, err |-> r.err]

(* body: continue the frame in flight, then start the next. *)
BodyAfter(hh, f, len, fin) ==
  LET q == hh.q
      rest == len - f.n
  IN IF q.stopped \/ hh.c.gone
     THEN [h |-> hh, n |-> IF client THEN len ELSE 0, err |-> IF client THEN "ok" ELSE "Reset"]
     ELSE IF Aborted(q) THEN [h |-> hh, n |-> 0, err |-> "Reset"]
     ELSE IF f.err # "ok" THEN [h |-> f.h, n |-> 0, err |-> f.err]
     ELSE IF f.h.q.frame.on THEN [h |-> f.h, n |-> f.n, err |-> IF f.n = 0 THEN "Blocked" ELSE "ok"]
     ELSE IF q.frame.on /\ q.frame.end THEN [h |-> f.h, n |-> f.n, err |-> "ok"]
     ELSE IF rest = 0 THEN IF fin THEN LatchFinish(f.h, f.n) ELSE [h |-> f.h, n |-> f.n, err |-> "ok"]
     ELSE StartFrame(f.h, f.n, rest, fin)

Body(hh, len, fin) ==
  BodyAfter(hh, IF hh.q.frame.on THEN WriteFrame(hh, len) ELSE [h |-> hh, n |-> 0, err |-> "ok"], len, fin)

Driven(b) == [b EXCEPT !.h = DriveInner(b.h)]

(* h3_send_body, and h3_finish with nothing to send. *)
SendBody(hh, len, fin) ==
  IF ~(hh.q.in /\ hh.q.known) THEN [h |-> hh, n |-> 0, err |-> "Stale"]
  ELSE IF ~hh.c.live THEN [h |-> hh, n |-> 0, err |-> "Conn"]
  ELSE Driven(Body(hh, len, fin))

(* h3_reset: h3wire's abort, or the raw stream's reset while h3wire holds  *)
(* no state for the request.                                               *)
ResetReq(hh) ==
  LET a == IF hh.q.core THEN IF hh.c.live THEN [hh EXCEPT !.w = WireAbort(@)] ELSE hh
           ELSE IF Aborted(hh.q) \/ hh.x.gone THEN hh
           ELSE [RetireRead(hh) EXCEPT !.x.rstOut = TRUE, !.x.stopOut = TRUE, !.x.read = TRUE]
      b == [a EXCEPT !.q.terminal = "aborted", !.q.handed = TRUE]
  IN IF ~(hh.q.in /\ hh.q.known) THEN hh ELSE DriveInner(MaybeClose(b))

----------------------------------------------------------------------------
(* Events of the inner transport. *)

(* Mutant: a reset is passed to h3wire past a FIN that is still carried. *)
OnPeerResetAtOnce(hh) ==
  RetireRead(IF hh.q.in /\ hh.q.core /\ ~Aborted(hh.q)
             THEN PeerReset([hh EXCEPT !.q.codePending = FALSE]) ELSE hh)

OnPeerReset(hh) ==
  LET k == [hh EXCEPT !.q.codePending = FALSE]
  IN RetireRead(IF ~(hh.q.in /\ hh.q.core) \/ Aborted(hh.q) THEN hh
                ELSE IF hh.q.carryFin THEN [k EXCEPT !.q.deferred = TRUE]
                ELSE PeerReset(k))

OnReadable(hh) ==
  LET q == hh.q
  IN IF ~q.in \/ q.codePending THEN hh
     ELSE IF Aborted(q) THEN RetireRead(hh)
     ELSE IF ~q.booted THEN Feed(hh, BOOT_READ, TRUE).h
     ELSE IF q.known /\ ~q.handed THEN PushOut(hh, "H3Readable")
     ELSE hh

OnStreamClosed(hh) ==
  LET k == [hh EXCEPT !.c.routed = FALSE, !.c.fins = FALSE, !.q.closed = TRUE, !.q.codePending = FALSE]
      v == IF hh.q.codePending THEN DispatchRetire([k EXCEPT !.w = WireResetReceived(@)]) ELSE k
  IN IF hh.q.in THEN MaybeClose(v) ELSE [hh EXCEPT !.c.routed = FALSE, !.c.fins = FALSE]

OnStreamEvent(hh, e) ==
  CASE e = "StreamReadable" -> OnReadable(hh)
    [] e = "StreamPeerReset" -> OnPeerReset(hh)
    [] e = "StreamWritable" -> IF hh.q.in /\ hh.q.known THEN PushOut(hh, "H3Writable") ELSE hh
    [] e = "StreamStopSending" -> [hh EXCEPT !.w = WireStopReceived(@)]
    [] OTHER -> OnStreamClosed(hh)

(* A client's response that is complete but not delivered outlives the     *)
(* connection.                                                             *)
Retained(hh) ==
  /\ client /\ ~hh.c.h3Closed
  /\ hh.q.known /\ ~hh.q.handed
  /\ hh.q.carryFin \/ hh.q.terminal = "finished"

OnConnClosed(hh) ==
  LET k == [hh EXCEPT !.c = [hh.c EXCEPT !.gone = TRUE, !.closing = TRUE, !.fins = FALSE, !.routed = FALSE],
                      !.q.closed = hh.q.in]
  IN IF ~hh.c.live THEN hh ELSE SettleConn(IF Retained(k) THEN k ELSE CloseReq(k))

(* Readiness of a released stream is dropped, closes are not. *)
OnEvent(hh, e) ==
  IF e = "ConnClosed" THEN PushOut(OnConnClosed(hh), e)
  ELSE IF ~hh.c.routed \/ (hh.x.gone /\ e # "StreamClosed") THEN hh
  ELSE Service(OnStreamEvent(hh, e))

----------------------------------------------------------------------------
H3Init ==
  /\ client \in BOOLEAN
  /\ h = [q |-> [NewReq(client) EXCEPT !.in = FALSE], c |-> NewConn, w |-> NewWire,
          x |-> NewStream, out |-> <<>>]
  /\ ev = <<>>
  /\ peer = [toks |-> 0, head |-> FALSE, grants |-> 0, stop |-> FALSE, faults |-> 0]
  /\ gw = [has |-> FALSE, rd |-> FALSE, wr |-> TRUE, head |-> FALSE, body |-> 0, end |-> "none",
           snd |-> "none", up |-> 0, pend |-> 0, closed |-> 0, reset |-> FALSE]

----------------------------------------------------------------------------
(* Arrivals at the inner transport. *)

MayFail == peer.faults < MaxFaults

Failed == [peer EXCEPT !.faults = @ + 1]

Reachable == Len(ev) < MaxBatch /\ h.c.routed /\ ~h.x.gone /\ (client => h.x.used) /\ h.c.live

Queue(e) == ev' = IF e \in {"StreamReadable", "StreamWritable"} /\ \E i \in DOMAIN ev : ev[i] = e
                  THEN ev ELSE Append(ev, e)

PeerSends(k) ==
  /\ Reachable /\ ~h.x.fin /\ ~h.x.reset
  /\ IF k = "D" THEN peer.head /\ peer.toks < MaxBody ELSE k = "H" => ~peer.head
  /\ h' = [h EXCEPT !.x.inq = Append(@, k)]
  /\ peer' = [peer EXCEPT !.toks = CASE k = "D" -> @ + 1 [] k = "H" -> @ [] OTHER -> MaxBody,
                          !.head = @ \/ k = "H",
                          !.faults = IF k \in {"X", "C"} THEN @ + 1 ELSE @]
  /\ k \in {"X", "C"} => MayFail /\ peer.toks < MaxBody
  /\ Queue("StreamReadable")
  /\ UNCHANGED <<client, gw>>

PeerFins ==
  /\ Reachable /\ ~h.x.fin /\ ~h.x.reset
  /\ h' = [h EXCEPT !.x.fin = TRUE]
  /\ Queue("StreamReadable")
  /\ UNCHANGED <<client, peer, gw>>

(* xquic reports the abort, and the stream as readable, in either order. *)
PeerResets ==
  /\ Reachable /\ ~h.x.reset /\ MayFail
  /\ peer' = Failed
  /\ h' = [h EXCEPT !.x.reset = TRUE]
  /\ ev' \in {ev \o <<"StreamReadable", "StreamPeerReset">>, ev \o <<"StreamPeerReset", "StreamReadable">>}
  /\ UNCHANGED <<client, gw>>

PeerStops ==
  /\ Reachable /\ ~peer.stop /\ ~h.x.rstOut /\ MayFail
  /\ peer' = [Failed EXCEPT !.stop = TRUE]
  /\ Queue("StreamStopSending")
  /\ UNCHANGED <<client, h, gw>>

Granted ==
  /\ Len(ev) < MaxBatch /\ h.c.routed /\ ~h.x.gone /\ h.x.credit = 0 /\ peer.grants < MaxGrants
  /\ \E n \in 1 .. 2 :
       /\ peer.grants + n <= MaxGrants
       /\ peer' = [peer EXCEPT !.grants = @ + n]
       /\ h' = [h EXCEPT !.x.credit = @ + n, !.x.want = FALSE]
  /\ IF h.x.want THEN Queue("StreamWritable") ELSE UNCHANGED ev
  /\ UNCHANGED <<client, gw>>

StreamOver ==
  /\ h.c.routed /\ ~h.x.gone /\ h.x.read /\ (h.x.finOut \/ h.x.rstOut)
  /\ h' = [h EXCEPT !.x.gone = TRUE]
  /\ Queue("StreamClosed")
  /\ UNCHANGED <<client, peer, gw>>

(* xquic destroys a connection's streams with it. *)
ConnOver ==
  /\ h.c.live /\ ~h.c.gone /\ ~\E i \in DOMAIN ev : ev[i] = "ConnClosed"
  /\ MayFail \/ h.x.closeOut \/ ~h.q.in
  /\ peer' = IF MayFail THEN Failed ELSE peer
  /\ h' = [h EXCEPT !.x.gone = TRUE]
  /\ ev' = (IF h.c.routed /\ ~h.x.gone THEN Append(ev, "StreamClosed") ELSE ev) \o <<"ConnClosed">>
  /\ UNCHANGED <<client, gw>>

(* The end of drive_inner: all events of the inner queue. *)
DriveEvents ==
  /\ ev # <<>>
  /\ h' = FoldLeft(OnEvent, h, ev)
  /\ ev' = <<>>
  /\ UNCHANGED <<client, peer, gw>>

----------------------------------------------------------------------------
(* The gateway: reads when it was told to, until Blocked. *)

Idle == ev = <<>> /\ gw.has /\ gw.closed = 0

OpenReq ==
  /\ client /\ ~gw.has /\ ev = <<>> /\ h.c.live /\ ~h.c.gone
  /\ h' = DriveInner([h EXCEPT !.q = NewReq(TRUE), !.c.routed = TRUE])
  /\ gw' = [gw EXCEPT !.has = TRUE]
  /\ UNCHANGED <<client, ev, peer>>

PeerOpens ==
  /\ ~client /\ ~h.c.routed /\ ~h.x.gone /\ ev = <<>> /\ h.c.live
  /\ h' = [h EXCEPT !.q = NewReq(FALSE), !.c.routed = TRUE]
  /\ UNCHANGED <<client, ev, peer, gw>>

(* poll_event: the next event that is a close or still live. *)
LiveOut(e) ==
  CASE e = "H3Readable" -> h.q.in /\ ~h.q.handed
    [] e \in {"H3Request", "H3Writable"} -> h.q.in
    [] OTHER -> TRUE

Poll ==
  /\ ev = <<>> /\ h.out # <<>>
  /\ LET e == Head(h.out)
     IN /\ h' = [h EXCEPT !.out = Tail(@)]
        /\ gw' = IF ~LiveOut(e) THEN gw
                 ELSE CASE e = "H3Request" -> [gw EXCEPT !.has = TRUE]
                        [] e = "H3Readable" -> [gw EXCEPT !.rd = TRUE]
                        [] e = "H3Writable" -> [gw EXCEPT !.wr = TRUE]
                        [] e = "H3Closed" -> [gw EXCEPT !.closed = @ + 1]
                        [] OTHER -> gw
  /\ UNCHANGED <<client, ev, peer>>

Told(g, r) ==
  IF r.err = "Blocked" THEN [g EXCEPT !.rd = FALSE]
  ELSE IF r.err # "ok" THEN [g EXCEPT !.rd = FALSE, !.end = IF r.err = "Reset" THEN "reset" ELSE "lost"]
  ELSE [g EXCEPT !.body = @ + r.n, !.end = IF r.fin THEN "fin" ELSE @, !.rd = ~r.fin]

GwRecv ==
  /\ Idle /\ gw.rd /\ gw.end = "none"
  /\ \E r \in {IF gw.head THEN RecvBody(Touch(h)) ELSE RecvHeaders(Touch(h))} :
        /\ h' = r.h
        /\ gw' = [Told(gw, r) EXCEPT !.head = @ \/ r.err = "ok"]
  /\ UNCHANGED <<client, ev, peer>>

GwSendHeaders(fin) ==
  /\ Idle /\ gw.snd = "none"
  /\ fin => UploadLen = 0 \/ client
  /\ \E r \in {SendHeaders(Touch(h), fin)} :
        /\ h' = r.h
        /\ gw' = [gw EXCEPT !.snd = CASE r.err # "ok" -> "failed" [] fin -> "done" [] OTHER -> "open"]
  /\ UNCHANGED <<client, ev, peer>>

(* It re-offers its whole pending buffer, which only grows. *)
GwSendBody(len, fin) ==
  /\ Idle /\ gw.snd = "open" /\ gw.wr
  /\ len \in gw.pend .. UploadLen - gw.up /\ (fin => len = UploadLen - gw.up) /\ len > 0
  /\ \E r \in {SendBody(Touch(h), len, fin)} :
        LET all == r.err = "ok" /\ r.n = len IN
        /\ h' = r.h
        /\ gw' = [gw EXCEPT !.snd = CASE r.err \notin {"ok", "Blocked"} -> "failed"
                                      [] all /\ fin -> "done" [] OTHER -> @,
                            !.up = @ + r.n, !.pend = len - r.n, !.wr = all]
  /\ UNCHANGED <<client, ev, peer>>

GwFinish ==
  /\ Idle /\ gw.snd = "open" /\ gw.pend = 0
  /\ \E r \in {SendBody(Touch(h), 0, TRUE)} :
        /\ h' = r.h
        /\ gw' = [gw EXCEPT !.snd = IF r.err = "ok" THEN "done" ELSE "failed"]
  /\ UNCHANGED <<client, ev, peer>>

GwReset ==
  /\ Idle /\ ~gw.reset /\ MayFail
  /\ peer' = Failed
  /\ h' = ResetReq(Touch(h))
  /\ gw' = [gw EXCEPT !.reset = TRUE, !.rd = FALSE, !.snd = IF @ = "done" THEN @ ELSE "failed",
                      !.end = IF @ = "none" THEN "given up" ELSE @]
  /\ UNCHANGED <<client, ev>>

H3Next ==
  \/ \E k \in {"H", "D", "X", "C"} : PeerSends(k)
  \/ PeerFins \/ PeerResets \/ PeerStops \/ Granted \/ StreamOver \/ ConnOver
  \/ DriveEvents
  \/ OpenReq \/ PeerOpens \/ Poll \/ GwRecv
  \/ \E fin \in BOOLEAN : GwSendHeaders(fin)
  \/ \E len \in 1 .. UploadLen, fin \in BOOLEAN : GwSendBody(len, fin)
  \/ GwFinish \/ GwReset

H3Spec == H3Init /\ [][H3Next]_h3vars

----------------------------------------------------------------------------
Queued(e) == \E i \in DOMAIN h.out : h.out[i] = e

Closings == Len(SelectSeq(h.out, LAMBDA e : e = "H3Closed"))

(* No wake-up is lost: a gateway that stopped at Blocked, with no event on *)
(* its way to it, has nothing it could read (a head, a body byte, the end, *)
(* a reset) and, when it waits to write, nothing it could write into: the  *)
(* queued HEADERS, the transport's credit and its notification agree.      *)
NoLostWakeup ==
  Idle /\ h.q.in /\ ~h.w.dead =>
    /\ ~gw.rd /\ ~Queued("H3Readable") /\ gw.end = "none" =>
         /\ ~h.q.block /\ h.q.terminal = "none" /\ ~h.q.codePending
         /\ h.q.carry = <<>> /\ ~h.q.carryFin
         /\ h.x.gone \/ (h.x.inq = <<>> /\ ~h.x.fin /\ ~h.x.reset)
    /\ ~gw.wr /\ ~Queued("H3Writable") /\ gw.snd = "open" =>
         h.x.want \/ Aborted(h.q) \/ h.x.gone \/ h.c.closing

(* A request the gateway knows gets exactly one H3Closed, when it leaves   *)
(* the table and not before (close_req is the only place that sends it).   *)
ClosedExactlyOnce ==
  Closings + gw.closed = IF h.q.known /\ ~h.q.in THEN (IF gw.has \/ ~client THEN 1 ELSE 0) ELSE 0

(* Ends are honest in both directions: the gateway is told `fin` only with *)
(* the whole body in hand and the message well formed, and the peer gets   *)
(* our FIN only behind all the bytes the gateway committed.                *)
EndsAreHonest ==
  /\ gw.end = "fin" => h.x.fin /\ gw.head /\ gw.body = peer.toks
  /\ h.x.finOut => /\ gw.snd = "done"
                   /\ h.x.pay = gw.up
                   /\ h.w.hdr = 0

Complete(hh) ==
  /\ client /\ hh.q.in /\ ~hh.q.handed /\ ~hh.w.dead
  /\ \/ hh.q.terminal = "finished"
     \/ /\ hh.q.terminal = "none" /\ hh.q.carryFin
        /\ \A i \in DOMAIN hh.q.carry : hh.q.carry[i] \notin {"X", "C"}
        /\ hh.w.rcv = "body" \/ \E i \in DOMAIN hh.q.carry : hh.q.carry[i] = "H"

(* A complete response a client has read (its FIN taken from the transport *)
(* behind a head) is delivered with its end: neither a later reset of the  *)
(* peer nor the loss of the connection takes it back (reset_deferred,      *)
(* retained requests); only the gateway can give it up.                    *)
CompleteSurvives ==
  [][Complete(h) /\ ~gw'.reset => Complete(h') \/ gw'.end = "fin"]_h3vars

(* The gateway is told of everything it could act on, and of the end of a   *)
(* request exactly once.                                                    *)
GatewayTold == NoLostWakeup /\ ClosedExactlyOnce
============================================================================
