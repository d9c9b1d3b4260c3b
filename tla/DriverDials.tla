----------------------------- MODULE DriverDials -----------------------------
(***************************************************************************)
(* Dials, resolutions and UDP opens in the driver (driver/core.rs,         *)
(* resolver.rs, deadlines.rs, and the connect half of mio_io.rs): step 1   *)
(* takes what completed and what expired, step 3 reports the expired       *)
(* first, step 8 executes what the shard asked for.  An op is a            *)
(* DialOpId or SocketOpId of the shard, used once.  The shard, the         *)
(* blocking pool and the kernel are external.                              *)
(***************************************************************************)
EXTENDS Integers, Sequences, FiniteSets

CONSTANTS
  Ops,
  RESOLVER_SLOTS

DriverDialsAssumption == IsFiniteSet(Ops) /\ RESOLVER_SLOTS \in Nat \ {0}

VARIABLES
  o,     \* [Ops -> op]
  d      \* the driver

ddvars == <<o, d>>

(* ask: the shard's side: new, asked, cancelled, done.  dial: DialState.   *)
(* dl: its deadline, "no", "set" or "due".  sock: none, connecting (in     *)
(* MioIo.connects), loose (in an event or in `held`), owned by the shard,  *)
(* closed.  dropped: its cancel was executed; calls: results reported.     *)
Op0 == [kind |-> "none", ask |-> "new", dial |-> "none", dl |-> "no", sock |-> "none", dropped |-> FALSE, calls |-> 0]

(* ResolverQueue; lookup: running getaddrinfo calls; chan: completions in  *)
(* the channel; batch, expired: what this iteration took; held: UDP opens  *)
(* to report; reqs: the shard's IoRequests.                                *)
Driver0 ==
  [pc |-> "wait", running |-> {}, abandoned |-> {}, waiting |-> <<>>, lookup |-> {}, chan |-> {}, batch |-> {},
   expired |-> {}, held |-> <<>>, reqs |-> <<>>]

DDInit == o = [p \in Ops |-> Op0] /\ d = Driver0

Event(what, p, ok) == [what |-> what, op |-> p, ok |-> ok]
Set(p, x) == o' = [o EXCEPT ![p] = x]

-----------------------------------------------------------------------------
(* ResolverQueue *)

Submit(y, p) ==
  IF Cardinality(y.running) < RESOLVER_SLOTS
  THEN [y EXCEPT !.running = @ \cup {p}, !.lookup = @ \cup {p}]
  ELSE [y EXCEPT !.waiting = Append(@, p)]

CancelLookup(y, p) ==
  IF p \in y.running THEN [y EXCEPT !.abandoned = @ \cup {p}]
  ELSE [y EXCEPT !.waiting = SelectSeq(@, LAMBDA q : q # p)]

(* Mutant: an abandoned answer frees its slot and starts nobody. *)
FinishedQuietly(y, p) ==
  LET z == [y EXCEPT !.running = @ \ {p}, !.abandoned = @ \ {p}]
  IN IF y.waiting = <<>> \/ p \in y.abandoned THEN z
     ELSE [z EXCEPT !.running = @ \cup {Head(y.waiting)}, !.lookup = @ \cup {Head(y.waiting)}, !.waiting = Tail(@)]

(* finished: the slot goes to the next in line; whether the answer counts  *)
(* is p \notin abandoned before.                                           *)
Finished(y, p) ==
  LET z == [y EXCEPT !.running = @ \ {p}, !.abandoned = @ \ {p}]
  IN IF y.waiting = <<>> THEN z
     ELSE [z EXCEPT !.running = @ \cup {Head(y.waiting)}, !.lookup = @ \cup {Head(y.waiting)}, !.waiting = Tail(@)]

-----------------------------------------------------------------------------
(* Dials *)

(* The op's answer reaches the shard, which may have given it up. *)
Report(x) == [x EXCEPT !.dial = "none", !.dl = "no", !.calls = @ + 1, !.ask = IF @ = "asked" THEN "done" ELSE @]

(* on_dial_result(Ok): a socket the shard does not want is closed. *)
Hand(x) == [Report(x) EXCEPT !.sock = IF x.ask = "asked" THEN "owned" ELSE "closed"]

(* start_connect: under way, or a synchronous failure through the channel. *)
Connect(x, y, p, sync) ==
  <<[x EXCEPT !.dial = "connecting", !.sock = IF sync THEN @ ELSE "connecting"],
    IF sync THEN [y EXCEPT !.chan = @ \cup {Event("connected", p, FALSE)}] ELSE y>>

(* cancel_connect: an unfinished socket is closed. *)
CancelConnect(x) == IF x.sock = "connecting" THEN [x EXCEPT !.sock = "closed"] ELSE x

-----------------------------------------------------------------------------
(* The iteration *)

(* Step 1: the channel, the connects the poller found finished (ok or not, *)
(* finish_connect), and the deadlines that are due.                        *)
Take ==
  /\ d.pc = "wait"
  /\ \E fin \in SUBSET {p \in Ops : o[p].sock = "connecting"} : \E good \in SUBSET fin :
       /\ d' = [d EXCEPT !.pc = "expire", !.chan = {},
                         !.batch = d.chan \cup {Event("connected", p, p \in good) : p \in fin},
                         !.expired = {p \in Ops : o[p].dl = "due"}]
       /\ o' = [p \in Ops |-> CASE p \in good -> [o[p] EXCEPT !.sock = "loose"]
                                [] p \in fin -> [o[p] EXCEPT !.sock = "closed"]
                                [] OTHER -> o[p]]

(* expired(Dial): a lookup keeps its slot, a connect is closed. *)
Timeout(x, y, p) ==
  CASE x.dial = "none" -> <<x, y>>
    [] x.dial = "connecting" -> <<Report(CancelConnect(x)), y>>
    [] OTHER -> <<Report(x), CancelLookup(y, p)>>

(* Step 3: the expired, before any completion of the same wait. *)
Expire ==
  /\ d.pc = "expire"
  /\ \/ d.expired = {} /\ d' = [d EXCEPT !.pc = "results"] /\ UNCHANGED o
     \/ \E p \in d.expired :
          LET t == Timeout(o[p], [d EXCEPT !.expired = @ \ {p}], p) IN Set(p, t[1]) /\ d' = t[2]

(* dial_result(Resolved) *)
Resolved ==
  /\ d.pc = "results"
  /\ \E e \in d.batch :
       /\ e.what = "resolved"
       /\ LET p == e.op
              x == o[p]
              y == Finished([d EXCEPT !.batch = @ \ {e}], p)
          IN \/ p \in d.abandoned /\ d' = y /\ UNCHANGED o
             \/ /\ p \notin d.abandoned
                /\ CASE x.dial = "resolving" /\ e.ok ->
                          \E sync \in BOOLEAN : LET c == Connect(x, y, p, sync) IN Set(p, c[1]) /\ d' = c[2]
                     [] x.dial = "only" \/ (x.dial = "resolving" /\ ~e.ok) -> Set(p, Report(x)) /\ d' = y
                     [] OTHER -> d' = y /\ UNCHANGED o

LateSocket(x) == [x EXCEPT !.sock = "closed"]

(* dial_result(Connected) *)
Connected ==
  /\ d.pc = "results"
  /\ \E e \in d.batch :
       /\ e.what = "connected"
       /\ d' = [d EXCEPT !.batch = @ \ {e}]
       /\ LET x == o[e.op]
          IN Set(e.op, CASE x.dial = "connecting" /\ e.ok -> Hand(x)
                         [] x.dial = "connecting" -> Report(x)
                         [] e.ok -> LateSocket(x)
                         [] OTHER -> x)

ResultsDone == d.pc = "results" /\ d.batch = {} /\ d' = [d EXCEPT !.pc = "held"] /\ UNCHANGED o

(* udp_opened, for each of held. *)
UdpOpened ==
  /\ d.pc = "held"
  /\ \/ d.held = <<>> /\ d' = [d EXCEPT !.pc = "exec"] /\ UNCHANGED o
     \/ /\ d.held # <<>>
        /\ d' = [d EXCEPT !.held = Tail(@)]
        /\ LET p == Head(d.held).op x == o[p] IN Set(p, IF Head(d.held).ok THEN Hand(x) ELSE Report(x))

(* CancelDial, CancelResolve, CancelUdpSocket. *)
Drop(x, y, p) ==
  LET a == [x EXCEPT !.dial = "none", !.dl = "no", !.dropped = TRUE]
      mine == \E i \in DOMAIN y.held : y.held[i].op = p
  IN CASE x.dial \in {"resolving", "only"} -> <<a, CancelLookup(y, p)>>
       [] x.dial = "connecting" -> <<CancelConnect(a), y>>
       [] mine -> <<[a EXCEPT !.sock = IF @ = "loose" THEN "closed" ELSE @],
                    [y EXCEPT !.held = SelectSeq(@, LAMBDA h : h.op # p)]>>
       [] OTHER -> <<a, y>>

(* Step 8: execute, in the shard's order.  Dialling sets the deadline.     *)
Execute ==
  /\ d.pc = "exec" /\ d.reqs # <<>>
  /\ LET r == Head(d.reqs)
         p == r.op
         x == [o[p] EXCEPT !.dl = "set"]
         y == [d EXCEPT !.reqs = Tail(@)]
     IN CASE r.do = "cancel" -> LET c == Drop(o[p], y, p) IN Set(p, c[1]) /\ d' = c[2]
          [] r.do = "open" /\ o[p].kind = "ip" ->
               \E sync \in BOOLEAN : LET c == Connect(x, y, p, sync) IN Set(p, c[1]) /\ d' = c[2]
          [] r.do = "open" /\ o[p].kind = "udp" ->
               \E ok \in BOOLEAN :
                 /\ Set(p, [o[p] EXCEPT !.sock = IF ok THEN "loose" ELSE @])
                 /\ d' = [y EXCEPT !.held = Append(@, Event("udp", p, ok))]
          [] OTHER -> /\ Set(p, [x EXCEPT !.dial = IF x.kind = "domain" THEN "resolving" ELSE "only"])
                      /\ d' = Submit(y, p)

IterationDone == d.pc = "exec" /\ d.reqs = <<>> /\ d' = [d EXCEPT !.pc = "wait"] /\ UNCHANGED o

-----------------------------------------------------------------------------
(* The shard, inside its callbacks *)

Ask ==
  /\ d.pc # "wait"
  /\ \E p \in Ops, kind \in {"ip", "domain", "resolve", "udp"} :
       /\ o[p].ask = "new"
       /\ Set(p, [o[p] EXCEPT !.ask = "asked", !.kind = kind])
       /\ d' = [d EXCEPT !.reqs = Append(@, [do |-> "open", op |-> p])]

GiveUp ==
  /\ d.pc # "wait"
  /\ \E p \in Ops :
       /\ o[p].ask = "asked"
       /\ Set(p, [o[p] EXCEPT !.ask = "cancelled"])
       /\ d' = [d EXCEPT !.reqs = Append(@, [do |-> "cancel", op |-> p])]

(* The blocking pool answers; time passes a deadline. *)
Answer ==
  \E p \in d.lookup, ok \in BOOLEAN :
    d' = [d EXCEPT !.lookup = @ \ {p}, !.chan = @ \cup {Event("resolved", p, ok)}] /\ UNCHANGED o

Due(p) == d.pc = "wait" /\ o[p].dl = "set" /\ Set(p, [o[p] EXCEPT !.dl = "due"]) /\ UNCHANGED d

Iterate == Take \/ Expire \/ Resolved \/ Connected \/ ResultsDone \/ UdpOpened \/ Execute \/ IterationDone

DDNext == Iterate \/ Ask \/ GiveUp \/ Answer \/ \E p \in Ops : Due(p)

DDSpec == DDInit /\ [][DDNext]_ddvars

-----------------------------------------------------------------------------
(* Properties *)

Coming(p) == {e \in d.chan \cup d.batch : e.op = p}

(* No descriptor leaks: a socket is the shard's, or closed, or a dial owns *)
(* its connect, or the event that carries it is still to be delivered,     *)
(* however the deadline, the cancel and the result fall together.          *)
NoSocketLeak ==
  \A p \in Ops :
    /\ o[p].sock = "connecting" => o[p].dial = "connecting"
    /\ o[p].sock = "loose" =>
         \/ \E e \in d.batch : e.op = p /\ e.ok
         \/ \E i \in DOMAIN d.held : d.held[i].op = p /\ d.held[i].ok
    /\ o[p].sock = "owned" => o[p].calls = 1 /\ o[p].ask = "done"

(* The resolver's slots: never more than there are, none idle while a dial *)
(* waits, an abandoned lookup holds its slot until it answers, and nobody  *)
(* waits who was cancelled.                                                *)
SlotsExact ==
  /\ Cardinality(d.running) <= RESOLVER_SLOTS
  /\ d.waiting # <<>> => Cardinality(d.running) = RESOLVER_SLOTS
  /\ d.running = d.lookup \cup {e.op : e \in {e \in d.chan \cup d.batch : e.what = "resolved"}}
  /\ d.abandoned \subseteq d.running
  /\ \A i \in DOMAIN d.waiting : o[d.waiting[i]].dial \in {"resolving", "only"}

(* One answer per op: at most one report, none after its cancel was        *)
(* executed; a dial has its deadline and someone who will finish it; an op *)
(* the shard waits for is a dial, is held, or is still queued.             *)
OneAnswer ==
  \A p \in Ops :
    /\ o[p].calls <= IF o[p].ask = "done" THEN 1 ELSE IF o[p].ask = "cancelled" THEN 1 ELSE 0
    /\ o[p].dial # "none" <=> o[p].dl # "no"
    /\ o[p].dropped => (o[p].dial = "none" /\ o[p].sock \in {"none", "closed", "loose"})
    /\ o[p].dial \in {"resolving", "only"} =>
         (p \in d.running \ d.abandoned) \/ \E i \in DOMAIN d.waiting : d.waiting[i] = p
    /\ o[p].dial = "connecting" => (o[p].sock = "connecting" \/ Coming(p) # {})
    /\ o[p].ask = "asked" =>
         \/ o[p].dial # "none"
         \/ \E i \in DOMAIN d.reqs : d.reqs[i].op = p
         \/ \E i \in DOMAIN d.held : d.held[i].op = p

DialsSound == NoSocketLeak /\ SlotsExact /\ OneAnswer
=============================================================================
