----------------------------- MODULE OriginPool -----------------------------
(***************************************************************************)
(* The server's origin bridge (server/origin/mod.rs, pump.rs,              *)
(* accounting.rs): requests dialling, assigned to pooled connections or    *)
(* retried, the connections' records, the removal classes and their socket *)
(* action, the settling after every pump and the idle sweep; and as much   *)
(* of the gateway (server/gateway/mod.rs) as the bridge's events reach.    *)
(*                                                                         *)
(* A connection is its id: ids are generational in the code, never reused  *)
(* here.  hyper is external: what a poll finds is any outcome it may give. *)
(* A pump call is the steps between a callback ("idle") and its settling;  *)
(* its rounds poll every connection until nothing changes, so any sequence *)
(* of poll outcomes is one.  Ages are what the sweep finds them to be.     *)
(***************************************************************************)
EXTENDS Integers, FiniteSets

CONSTANTS
  Reqs,         \* H3 requests
  MaxConns,     \* bound: connections ever opened
  MaxFaults,    \* bound: failures of any kind, origin closes, shutdown
  MaxStreams,   \* the most current_max_send_streams() of an h2 origin
  None

Ids == 1 .. MaxConns

(* OriginReq::Connecting: a request on its way to a connection. *)
Waiting == [q : Reqs, ver : {"h1", "any"}, ready : BOOLEAN, retried : BOOLEAN]

ASSUME OriginPoolAssumption ==
  /\ IsFiniteSet(Reqs) /\ {MaxConns, MaxFaults} \subseteq Nat /\ MaxStreams \in Nat \ {0}
  /\ None \notin Waiting \cup Ids \cup {0} \cup {"h1", "h2"}

VARIABLES
  o,    \* Origin, the gateway's requests and the sockets (see OInit)
  pc    \* "idle", or "pump": a pump is running

ovars == <<o, pc>>

(* OriginConn as `connected` makes it: in the pool, its handshake pending. *)
(* sock: open, ended by the bridge or lost to an error; acts: history, the *)
(* actions on a socket the shard still knows.                              *)
NewConn(rec) ==
  [driver |-> "tls", proto |-> None, send |-> FALSE, pending |-> rec, reqs |-> {},
   busy |-> FALSE, active |-> 0, unreleased |-> 0, completed |-> FALSE, due |-> FALSE,
   idle |-> FALSE, rx |-> FALSE, at |-> "pool", sock |-> "open", acts |-> 0]

(* A connection that left the table; its socket's fate is history. *)
Dropped(c) == [at |-> "gone", sock |-> c.sock, acts |-> c.acts]

(* OriginReq::Connecting, while dialling or on its connection. *)
Connecting(q, ver, ready, retried) ==
  [q |-> q, ver |-> ver, ready |-> ready, retried |-> retried]

(* UploadBuf: live counts the UploadBodys hyper owns; empty: the body that *)
(* reached its fin had no byte.                                            *)
NewUpload == [fin |-> FALSE, aborted |-> FALSE, live |-> 0, empty |-> FALSE]

OInit ==
  /\ o = [conns |-> [i \in Ids |-> [at |-> "gone", sock |-> "none", acts |-> 0]],
          next  |-> 1,
          dials |-> [q \in Reqs |-> None],
          by_h3 |-> [q \in Reqs |-> None],   \* None, 0 (Where::Dial) or a connection
          idle_timer |-> FALSE,
          gw    |-> [q \in Reqs |-> "new"],  \* new, origin, fin_due, done, gone
          up    |-> [q \in Reqs |-> NewUpload],
          wire  |-> [q \in Reqs |-> 0],      \* history: sends that may have reached an origin
          down  |-> FALSE, faults |-> 0]
  /\ pc = "idle"

Live(b, i) == b.conns[i].at # "gone"
Pooled(b) == {i \in Ids : b.conns[i].at = "pool"}
Closing(b) == {i \in Ids : b.conns[i].at = "closing"}
Assigned(c) == {r \in c.reqs : r.st = "assigned"}

-----------------------------------------------------------------------------
(* Records. *)

(* UploadBuf::abort unless the upload is complete (OriginReq::end, finish). *)
AbortUpload(b, q) == [b EXCEPT !.up[q].aborted = @ \/ ~b.up[q].fin]

(* OriginReq::end: Assigned becomes Ended; clean only with a whole upload. *)
End(b, i, r, clean) ==
  LET u == AbortUpload(b, r.q)
      e == [r EXCEPT !.st = "ended", !.clean = clean /\ ~u.up[r.q].aborted]
  IN [u EXCEPT !.conns[i].reqs = (@ \ {r}) \cup {e}]

(* drop_connecting: the deadline timer and the by_h3 entry go with it, and *)
(* the UploadBody of a request that was handed back.                       *)
DropConnecting(b, p) ==
  [b EXCEPT !.by_h3[p.q] = None, !.up[p.q].live = IF p.ready THEN @ - 1 ELSE @]

(* OriginConn::exchange: an Assigned record, a fresh UploadBody for hyper. *)
Exchange(b, i, q, stored, reused, retried) ==
  LET r == [q |-> q, st |-> "assigned", ph |-> "sent", stored |-> stored, reused |-> reused,
            retried |-> retried, clean |-> FALSE]
      h1 == b.conns[i].proto = "h1"
      d == [b.conns[i] EXCEPT !.reqs = @ \cup {r}, !.active = @ + 1, !.busy = @ \/ h1,
                              !.rx = @ /\ ~h1, !.idle = FALSE]
  IN [b EXCEPT !.conns[i] = d, !.by_h3[q] = i, !.up[q].live = IF stored THEN @ + 1 ELSE @]

(* ev.on_failure at the gateway: an answer before the head, a reset after  *)
(* it; a request no longer at the origin ignores the bridge.               *)
Fail(b, q) ==
  IF b.gw[q] \in {"origin", "fin_due"} THEN AbortUpload([b EXCEPT !.gw[q] = "done"], q) ELSE b

-----------------------------------------------------------------------------
(* Removal (Origin::remove): the pipe is dead, the connection leaves the   *)
(* pool, its class's one socket action; with an Assigned record a class B  *)
(* or E connection waits in `closing`, B's close deferred.                 *)

Act(c) == IF c.sock = "lost" THEN c ELSE [c EXCEPT !.sock = "ended", !.acts = @ + 1]

Remove(c, class) ==
  LET keep == class \in {"B", "E", "Elost"} /\ Assigned(c) # {}
      acted == c.at = "closing" /\ ~c.due
      \* tcp_close for A, B and C, tcp_abort for D, E' and E
      x == IF acted \/ class = "Elost" \/ (class = "B" /\ keep) THEN c ELSE Act(c)
  IN IF c.at = "gone" THEN c
     ELSE IF keep THEN [x EXCEPT !.at = "closing", !.due = class = "B"]
          ELSE Dropped(x)

(* fail_conn: class E', then the pending requester fails. *)
FailConn(b, i) ==
  LET p == b.conns[i].pending
      x == [b EXCEPT !.conns[i] = Remove(@, "Eprime")]
  IN IF p = None THEN x ELSE Fail(DropConnecting(x, p), p.q)

(* Origin::cancel, at H3Closed or a receive error. *)
Cancel(b, q) ==
  LET i == b.by_h3[q]
      x == [b EXCEPT !.by_h3[q] = None]
  IN CASE i = None -> b
       [] i = 0 -> DropConnecting([x EXCEPT !.dials[q] = None], b.dials[q])
       [] OTHER ->
            IF ~Live(b, i) THEN x
            ELSE IF b.conns[i].pending # None /\ b.conns[i].pending.q = q
                 THEN DropConnecting([x EXCEPT !.conns[i] = Remove(@, "D")], b.conns[i].pending)
                 ELSE LET mine == {r \in Assigned(b.conns[i]) : r.q = q}
                      IN IF mine = {} THEN x ELSE End(x, i, CHOOSE r \in mine : TRUE, FALSE)

-----------------------------------------------------------------------------
(* Callbacks.  Every one routed to the bridge ends in a pump. *)

Callback(b) == pc = "idle" /\ o' = b /\ pc' = "pump"

(* The same, for a failure the environment causes. *)
Fault(b) == o.faults < MaxFaults /\ Callback([b EXCEPT !.faults = @ + 1])

Accepts(ver, proto) == ver # "h1" \/ proto = "h1"

(* Mutant: an h1 connection is offered while its record is unsettled. *)
TakesRequestBusy(c) ==
  c.send /\ (c.proto = "h1" \/ c.active < MaxStreams)

(* OriginConn::takes_request, as far as the bridge's own state says: what   *)
(* hyper says besides is in StartReq.                                      *)
TakesRequest(c) ==
  /\ c.send
  /\ CASE c.proto = "h1" -> ~c.busy
       [] OTHER -> c.unreleased = 0 /\ ~c.completed /\ c.active < MaxStreams

(* Origin::start: a pooled connection that takes it, else a dial. *)
StartReq(q, ver, fin) ==
  LET b == [o EXCEPT !.gw[q] = "origin", !.up[q].fin = fin, !.up[q].empty = fin]
      hits == {i \in Pooled(o) : /\ o.conns[i].proto # None
                                 /\ Accepts(ver, o.conns[i].proto)
                                 /\ TakesRequest(o.conns[i])}
  IN /\ o.gw[q] = "new" /\ ~o.down
     /\ \/ \E i \in hits : Callback(Exchange(b, i, q, TRUE, TRUE, FALSE))
        \/ \* no hit: a sender may turn out closed, or not ready (h1), or at a
           \* stream limit its origin has lowered (h2)
           Callback([b EXCEPT !.dials[q] = Connecting(q, ver, FALSE, FALSE), !.by_h3[q] = 0])
        \/ \* StartErr: 502 at once
           Fault([o EXCEPT !.gw[q] = "done"])

(* The H3 body reached its fin. *)
UploadFin(q) ==
  /\ o.gw[q] = "origin" /\ ~o.up[q].fin /\ ~o.up[q].aborted
  /\ \E empty \in BOOLEAN : Callback([o EXCEPT !.up[q].fin = TRUE, !.up[q].empty = empty])

(* The gateway ended the relay itself: a write error or a bad body length  *)
(* (reset), the FIN went out (finish), or the peer's reset (cancel too).   *)
GwEnds(q) ==
  /\ o.gw[q] \in {"origin", "fin_due"}
  /\ LET b == AbortUpload([o EXCEPT !.gw[q] = "done"], q)
     IN (o.gw[q] = "fin_due" /\ Callback(b)) \/ Fault(b) \/ Fault(Cancel(b, q))

H3Closed(q) ==
  /\ o.gw[q] \in {"origin", "fin_due", "done"}
  /\ Callback(Cancel([o EXCEPT !.gw[q] = "gone"], q))

(* on_dial_result and connected; a plain connection starts hyper at once.  *)
DialOk(q, https) ==
  /\ o.dials[q] # None /\ o.next \in Ids
  /\ LET i == o.next
         c == NewConn(o.dials[q])
         b == [o EXCEPT !.dials[q] = None, !.next = @ + 1, !.by_h3[q] = i,
                 !.conns[i] = IF https THEN c ELSE [c EXCEPT !.driver = "hs", !.proto = "h1"]]
     IN Callback(b)

(* A failed dial, or a server name rustls refuses (the socket is aborted). *)
DialErr(q) ==
  /\ o.dials[q] # None
  /\ Fault(Fail(DropConnecting([o EXCEPT !.dials[q] = None], o.dials[q]), q))

(* on_tcp_end(Error): the shard has closed the socket. *)
TcpErr(i) ==
  /\ o.conns[i].sock = "open"
  /\ LET b == [o EXCEPT !.conns[i].sock = "lost"]
     IN IF o.conns[i].at # "pool" THEN pc = "idle" /\ o' = b /\ UNCHANGED pc
        ELSE IF o.conns[i].pending # None THEN Fault(FailConn(b, i))
        ELSE Fault([b EXCEPT !.conns[i] = Remove(@, "Elost")])

(* OriginTimer::Connect. *)
ConnectTimeout(i) ==
  /\ Live(o, i) /\ o.conns[i].pending # None
  /\ Fault(FailConn(o, i))

(* accounting::sweep_class, with the ages the sweep finds: idle for         *)
(* IDLE_MAX, or every record ended and older than one sweep.               *)
SweepClass(c, aged) ==
  IF c.idle /\ aged THEN "A"
  ELSE IF c.unreleased > 0 /\ c.active = c.unreleased /\ aged THEN "E" ELSE "keep"

Sweep ==
  /\ o.idle_timer
  /\ \E old \in SUBSET Pooled(o) :
       LET Swept(i) == LET class == SweepClass(o.conns[i], i \in old)
                       IN IF class = "keep" THEN o.conns[i] ELSE Remove(o.conns[i], class)
       IN Callback([o EXCEPT !.idle_timer = FALSE,
                      !.conns = [i \in Ids |-> IF i \in Pooled(o) THEN Swept(i) ELSE @[i]]])

(* The requests handed back by hyper, whose bodies wait with them. *)
HandedBack(b) ==
  {q \in Reqs : \/ b.dials[q] # None /\ b.dials[q].ready
                \/ \E i \in Ids : /\ Live(b, i) /\ b.conns[i].pending # None
                                  /\ b.conns[i].pending.q = q /\ b.conns[i].pending.ready}

(* Origin::shutdown, then the gateway resets every request. *)
Shutdown ==
  /\ ~o.down
  /\ LET connecting == {q \in Reqs : o.dials[q] # None}
           \cup {o.conns[i].pending.q : i \in {j \in Ids : Live(o, j) /\ o.conns[j].pending # None}}
     IN Fault([o EXCEPT
          !.dials = [q \in Reqs |-> None],
          !.by_h3 = [q \in Reqs |-> IF q \in connecting THEN None ELSE o.by_h3[q]],
          !.conns = [i \in Ids |-> IF Live(o, i) THEN Remove([o.conns[i] EXCEPT !.pending = None], "E")
                                    ELSE o.conns[i]],
          !.gw = [q \in Reqs |-> IF o.gw[q] \in {"origin", "fin_due"} THEN "done" ELSE o.gw[q]],
          !.up = [q \in Reqs |-> IF o.gw[q] \in {"origin", "fin_due"}
                                  THEN [o.up[q] EXCEPT !.aborted = @ \/ ~o.up[q].fin,
                                                     !.live = @ - (IF q \in HandedBack(o) THEN 1 ELSE 0)]
                                  ELSE o.up[q]],
          !.down = TRUE])

-----------------------------------------------------------------------------
(* The pump: what polling finds. *)

Poll(b) == pc = "pump" /\ o' = b /\ UNCHANGED pc
PollFault(b) == o.faults < MaxFaults /\ Poll([b EXCEPT !.faults = @ + 1])

(* move_in: the TLS handshake ends, with the protocol ALPN chose, or fails *)
(* (a TLS error, EOF); a fatal TLS error later is class E.                 *)
TlsStep(i) ==
  /\ o.conns[i].at = "pool" /\ o.conns[i].driver = "tls"
  /\ \/ \E proto \in {"h1", "h2"} :
          /\ Accepts(o.conns[i].pending.ver, proto)
          /\ Poll([o EXCEPT !.conns[i].driver = "hs", !.conns[i].proto = proto])
     \/ PollFault(FailConn(o, i))

(* Not in "hs": hyper's handshake future is ready at its first poll, which *)
(* is in the round whose move_in began it (see Settle).                    *)
TlsFatal(i) ==
  /\ o.conns[i].at = "pool" /\ o.conns[i].driver \in {"run", "done"}
  /\ PollFault([o EXCEPT !.conns[i] = Remove(@, "E")])

(* assign: the requester's request is built and sent; a build that fails   *)
(* leaves the connection without a record.                                 *)
Assign(b, i) ==
  LET p == b.conns[i].pending
      x == [b EXCEPT !.conns[i].pending = None]
  IN {Exchange([x EXCEPT !.wire[p.q] = @ + 1], i, p.q, ~p.ready, FALSE, p.retried)}
       \cup (IF p.ready THEN {} ELSE {Fail(DropConnecting(x, p), p.q)})

(* poll_driver: hyper's handshake, then the public Connection's end. *)
HandshakeStep(i) ==
  /\ o.conns[i].at = "pool" /\ o.conns[i].driver = "hs"
  /\ LET b == [o EXCEPT !.conns[i].driver = "run", !.conns[i].send = TRUE]
     IN \/ \E x \in Assign(b, i) : Poll(x)
        \/ PollFault(FailConn(o, i))

ConnectionDone(i) ==
  /\ Live(o, i) /\ o.conns[i].driver = "run"
  /\ PollFault([o EXCEPT !.conns[i].driver = "done", !.conns[i].send = FALSE])

(* retry: the record leaves its connection for a fresh h1-only dial. *)
Retry(b, i, r, ready) ==
  LET d == [b.conns[i] EXCEPT !.reqs = @ \ {r}, !.active = @ - 1]
  IN [b EXCEPT !.conns[i] = d, !.dials[r.q] = Connecting(r.q, "h1", ready, TRUE), !.by_h3[r.q] = 0]

(* UploadBuf::bodiless: fin, nothing buffered and nothing ever yielded. *)
Bodiless(u) == u.fin /\ u.empty

(* Mutant: a request whose body hyper has taken is sent again. *)
MayRetryAny(c, r, u) == c.proto = "h1" /\ r.reused /\ ~r.retried /\ r.stored

(* bodiless_retry: a reused h1 connection closed before a response byte. *)
MayRetry(c, r, u) ==
  c.proto = "h1" /\ r.reused /\ ~r.retried /\ ~c.rx /\ r.stored /\ Bodiless(u)

(* poll_exchanges, the response future: a head, a head that cannot be      *)
(* relayed, the request handed back unsent, or an error.                   *)
ResponseStep(i) ==
  \E r \in IF Live(o, i) THEN Assigned(o.conns[i]) ELSE {} :
    /\ r.ph = "sent"
    /\ LET c == o.conns[i]
           sent == [o EXCEPT !.wire[r.q] = @ + (IF r.reused THEN 1 ELSE 0)]
           got == [sent EXCEPT !.conns[i].rx = TRUE]
           failed(b) == End(Fail(b, r.q), i, r, FALSE)
       IN \/ Poll([got EXCEPT !.conns[i].reqs = (@ \ {r}) \cup {[r EXCEPT !.ph = "body"]}])
          \/ PollFault(failed(got))
          \/ /\ r.reused /\ c.proto = "h1" /\ o.up[r.q].live > 0  \* try_send_request handed it back
             /\ PollFault(IF r.retried THEN failed(o) ELSE Retry(o, i, r, TRUE))
          \/ PollFault(IF MayRetry(c, r, o.up[r.q]) THEN Retry(sent, i, r, FALSE) ELSE failed(sent))

(* Body frames change no record of the bridge until the end or an error    *)
(* (GatewayRelay follows the bytes).                                       *)
BodyStep(i) ==
  \E r \in IF Live(o, i) THEN Assigned(o.conns[i]) ELSE {} :
    /\ r.ph = "body"
    /\ \/ LET b == [o EXCEPT !.gw[r.q] = IF @ = "origin" THEN "fin_due" ELSE @]
          IN Poll(End(b, i, r, TRUE))
       \/ PollFault(End(Fail(o, r.q), i, r, FALSE))

(* hyper lets go of a body it owns, once it has taken all of it or failed. *)
HyperDrops(q) ==
  /\ o.up[q].fin \/ o.up[q].aborted
  /\ o.up[q].live > (IF q \in HandedBack(o) THEN 1 ELSE 0)
  /\ Poll([o EXCEPT !.up[q].live = @ - 1])

-----------------------------------------------------------------------------
(* settle: released records dropped, the h1 removals by precedence, the    *)
(* idleness transition, closing connections whose last record ended, and   *)
(* the idle timer.  ready and closed are what an h1 sender says of itself. *)

SettleConn(c, ready, closed) ==
  LET ended == {r \in c.reqs : r.st = "ended"}
      stuck == {r \in ended : o.up[r.q].live > 0}
      busy == Assigned(c) # {}
      d == [c EXCEPT !.reqs = (c.reqs \ ended) \cup stuck,
                     !.active = @ - Cardinality(ended \ stuck),
                     !.unreleased = Cardinality(stuck), !.completed = c.driver = "done",
                     !.busy = IF c.proto = "h1" /\ c.at = "pool" THEN busy ELSE @]
  IN IF c.at = "closing" /\ busy THEN d
     ELSE IF c.at = "closing" THEN Dropped(IF c.due THEN Act(d) ELSE d)
     ELSE IF c.proto = "h1" /\ stuck # {} THEN Remove(d, "E")
     ELSE IF c.proto = "h1" /\ \E r \in ended : ~r.clean THEN Remove(d, "C")
     ELSE IF (c.proto = "h1" /\ closed) \/ (d.completed /\ (c.proto = "h1" \/ d.reqs = {}))
          THEN Remove(d, "B")
     ELSE IF d.reqs = {} /\ c.send /\ ready THEN [d EXCEPT !.idle = TRUE]
     ELSE d

H1Senders(b) == {i \in Pooled(b) : b.conns[i].proto = "h1" /\ b.conns[i].send}

(* External: a pump does not end before the handshakes it polled. *)
HandshakesOver(b) == \A i \in Ids : Live(b, i) => b.conns[i].driver # "hs"

(* With the h1 senders that are not ready and, of these, the closed ones. *)
SettleWith(waits, closed) ==
  LET Settled(i) == SettleConn(o.conns[i], i \notin waits, i \in closed)
      cs == [i \in Ids |-> IF Live(o, i) THEN Settled(i) ELSE o.conns[i]]
      held == {r.q : r \in UNION {cs[i].reqs : i \in {j \in Ids : cs[j].at # "gone"}}}
      freed == {q \in Reqs : o.gw[q] = "gone" /\ q \notin held}  \* no one owns the upload
  IN o' = [o EXCEPT !.conns = cs, !.idle_timer = \E i \in Ids : cs[i].at # "gone",
             !.up = [q \in Reqs |-> IF q \in freed THEN NewUpload ELSE @[q]],
             !.wire = [q \in Reqs |-> IF q \in freed THEN 0 ELSE @[q]],
             !.faults = IF closed = {} THEN @ ELSE @ + 1]

Settle ==
  /\ pc = "pump" /\ pc' = "idle" /\ HandshakesOver(o)
  /\ \E waits \in SUBSET H1Senders(o) : \E closed \in SUBSET waits :
       (closed # {} => o.faults < MaxFaults) /\ SettleWith(waits, closed)

ONext ==
  \/ \E q \in Reqs :
       \/ \E ver \in {"h1", "any"}, fin \in BOOLEAN : StartReq(q, ver, fin)
       \/ UploadFin(q) \/ GwEnds(q) \/ H3Closed(q) \/ DialErr(q) \/ HyperDrops(q)
       \/ \E https \in BOOLEAN : DialOk(q, https)
  \/ \E i \in Ids :
       \/ TcpErr(i) \/ ConnectTimeout(i) \/ TlsStep(i) \/ TlsFatal(i) \/ HandshakeStep(i)
       \/ ConnectionDone(i) \/ ResponseStep(i) \/ BodyStep(i)
  \/ Sweep \/ Shutdown \/ Settle

OSpec == OInit /\ [][ONext]_ovars

-----------------------------------------------------------------------------
(* Properties *)

LiveRecs(b, q) ==
  {<<"dial", 0>> : x \in {d \in {b.dials[q]} : d # None}}
    \cup {<<"pending", i>> : i \in {j \in Ids : /\ Live(b, j) /\ b.conns[j].pending # None
                                                /\ b.conns[j].pending.q = q}}
    \cup {<<"assigned", i>> : i \in {j \in Ids : Live(b, j) /\ \E r \in Assigned(b.conns[j]) : r.q = q}}

(* A request the gateway still waits on has exactly one live record in the *)
(* bridge, and by_h3 leads to it: no removal, retry, sweep or cancel loses *)
(* an exchange (the request would hang) or leaves one running for a        *)
(* request that is gone.                                                   *)
RecordsReachable ==
  \A q \in Reqs :
    /\ o.gw[q] = "origin" => Cardinality(LiveRecs(o, q)) = 1
    /\ Cardinality(LiveRecs(o, q)) <= 1
    /\ \A w \in LiveRecs(o, q) : o.by_h3[q] = w[2]
    /\ o.gw[q] = "gone" => LiveRecs(o, q) = {}

(* Every origin socket gets exactly one socket action, or was lost to an   *)
(* error: a pooled connection's socket is untouched, a dropped one's is    *)
(* not leaked, a closing one's is acted on at once or at its deferred      *)
(* close (the removal classes).                                            *)
SocketActedOnce ==
  \A i \in Ids :
    LET c == o.conns[i]
    IN /\ c.acts <= 1
       /\ c.at = "pool" => c.sock = "open"
       /\ c.sock = "open" => (c.at = "pool" \/ (c.at = "closing" /\ c.due))
       /\ c.sock = "ended" => c.acts = 1

(* The accounting is exact: `active` is the records a connection still     *)
(* holds, so its u32 never underflows; an h1 connection carries one        *)
(* exchange at a time and an h2 one no more than the origin allows; and a  *)
(* settled bridge sweeps exactly while it has connections.                 *)
AccountsExact ==
  /\ \A i \in Ids : Live(o, i) =>
       LET c == o.conns[i]
       IN /\ c.active = Cardinality(c.reqs)
          /\ c.proto = "h1" => Cardinality(c.reqs) <= 1
          /\ c.proto = "h2" => c.active <= MaxStreams
  /\ pc = "idle" => (o.idle_timer <=> Pooled(o) \cup Closing(o) # {})

(* A request reaches origins at most twice, and twice only when hyper had  *)
(* taken nothing of its body: what was retried was complete and empty.     *)
RetryIsSafe ==
  \A q \in Reqs : o.wire[q] <= 2 /\ (o.wire[q] = 2 => Bodiless(o.up[q]))

(* No exchange is lost, and none is put on the wire twice with a body.      *)
RequestsKept == RecordsReachable /\ RetryIsSafe

(* No socket is leaked or acted on twice, and the accounts of a connection  *)
(* are exact.                                                               *)
SocketsKept == SocketActedOnce /\ AccountsExact
=============================================================================
