------------------------------ MODULE ShardOps ------------------------------
(***************************************************************************)
(* The shard's operations (mq-runtime shard/mod.rs, shard/inputs.rs): the  *)
(* dials, resolves and UDP socket opens an app starts and cancels, the     *)
(* socket cap they and the sockets share, the driver that runs them, and   *)
(* the completions the shard raises itself in step 3 of drive.  The app is *)
(* any app: a callback may start and cancel any operation.                 *)
(***************************************************************************)
EXTENDS Integers, FiniteSets, Sequences, SequencesExt

CONSTANTS
  Ops,         \* bound: the operations ever started; ids are never reused
  SOCKET_CAP

ASSUME OpsAssumption ==
  /\ IsFiniteSet(Ops)
  /\ SOCKET_CAP \in Nat

VARIABLES
  dials, resolves,         \* handed to the driver
  socket_ops, app_udp_ops, \* UDP opens handed to the driver; those for the app
  limited, limited_udp,    \* refused at the cap
  resolved,                \* resolves of an IP target
  tcp, udp,                \* how many TCP sockets, and app UDP sockets, there are
  step,                    \* where drive is: idle, or the list it delivers
  taken,                   \* the list drive delivers from, if it took it out
  quota,                   \* deliveries left of those counted on entry
  callback,                \* idle, or some callback of this step has run
  inflight,                \* operations the driver still works on
  started, cancelled,      \* by the app
  delivered                \* how often each completed

lists == <<limited, limited_udp, resolved>>
tables == <<dials, resolves, socket_ops, app_udp_ops>>
drive == <<step, taken, quota, callback>>
app == <<started, cancelled>>
vars == <<tables, lists, tcp, udp, drive, inflight, app, delivered>>

Init ==
  /\ dials = {} /\ resolves = {} /\ socket_ops = {} /\ app_udp_ops = {}
  /\ limited = <<>> /\ limited_udp = <<>> /\ resolved = <<>>
  /\ tcp = 0 /\ udp = 0
  /\ step = "idle" /\ taken = <<>> /\ quota = 0 /\ callback = TRUE
  /\ inflight = {} /\ started = {} /\ cancelled = {}
  /\ delivered = [op \in Ops |-> 0]

Used == tcp + Cardinality(dials) + Cardinality(app_udp_ops) + udp

(* Mutant: opens in flight reserve no place. *)
AtCapNoReserve == tcp + Cardinality(dials) + udp >= SOCKET_CAP

at_cap == Used >= SOCKET_CAP

(* retain: an id is in a list at most once. *)
Without(list, op) ==
  IF \E i \in 1 .. Len(list) : list[i] = op
  THEN RemoveAt(list, CHOOSE i \in 1 .. Len(list) : list[i] = op) ELSE list

(* An app UDP open that completes or is cancelled gives its place back. *)
ReservationReleased(op) == app_udp_ops \ {op}

----------------------------------------------------------------------------
(* The app, in a callback.                                                 *)

MayStart(op) == callback /\ op \notin started

(* dial: at the cap it never reaches the driver. *)
Dial(op) ==
  /\ MayStart(op)
  /\ started' = started \cup {op}
  /\ \/ /\ at_cap
        /\ limited' = Append(limited, op)
        /\ UNCHANGED <<dials, inflight>>
     \/ /\ ~at_cap
        /\ dials' = dials \cup {op}
        /\ inflight' = inflight \cup {op}
        /\ UNCHANGED limited
  /\ UNCHANGED <<resolves, socket_ops, app_udp_ops, limited_udp, resolved, tcp, udp, drive,
                 cancelled, delivered>>

(* resolve: of an IP, or of a domain. *)
Resolve(op) ==
  /\ MayStart(op)
  /\ started' = started \cup {op}
  /\ \/ resolved' = Append(resolved, op) /\ UNCHANGED <<resolves, inflight>>
     \/ /\ resolves' = resolves \cup {op}
        /\ inflight' = inflight \cup {op}
        /\ UNCHANGED resolved
  /\ UNCHANGED <<dials, socket_ops, app_udp_ops, limited, limited_udp, tcp, udp, drive,
                 cancelled, delivered>>

(* open_udp_socket: a path's socket, outside the cap. *)
OpenUdpSocket(op) ==
  /\ MayStart(op)
  /\ started' = started \cup {op}
  /\ socket_ops' = socket_ops \cup {op}
  /\ inflight' = inflight \cup {op}
  /\ UNCHANGED <<dials, resolves, app_udp_ops, lists, tcp, udp, drive, cancelled, delivered>>

(* open_app_udp_socket: reserves a place until it completes. *)
OpenAppUdpSocket(op) ==
  /\ MayStart(op)
  /\ started' = started \cup {op}
  /\ \/ /\ at_cap
        /\ limited_udp' = Append(limited_udp, op)
        /\ UNCHANGED <<socket_ops, app_udp_ops, inflight>>
     \/ /\ ~at_cap
        /\ socket_ops' = socket_ops \cup {op}
        /\ app_udp_ops' = app_udp_ops \cup {op}
        /\ inflight' = inflight \cup {op}
        /\ UNCHANGED limited_udp
  /\ UNCHANGED <<dials, resolves, limited, resolved, tcp, udp, drive, cancelled, delivered>>

(* cancel_dial, cancel_resolve, cancel_udp_socket.  The driver learns of   *)
(* it later and may have the result already.                               *)
Cancel(op) ==
  /\ callback
  /\ op \in started \ cancelled
  /\ cancelled' = cancelled \cup {op}
  /\ dials' = dials \ {op}
  /\ resolves' = resolves \ {op}
  /\ socket_ops' = socket_ops \ {op}
  /\ app_udp_ops' = ReservationReleased(op)
  /\ limited' = Without(limited, op)
  /\ resolved' = Without(resolved, op)
  /\ limited_udp' = Without(limited_udp, op)
  /\ UNCHANGED <<tcp, udp, drive, inflight, started, delivered>>

(* A socket closes: tcp_close, tcp_abort, a relay's end, close_udp_socket. *)
CloseSocket ==
  /\ \/ tcp > 0 /\ tcp' = tcp - 1 /\ UNCHANGED udp
     \/ udp > 0 /\ udp' = udp - 1 /\ UNCHANGED tcp
  /\ UNCHANGED <<tables, lists, drive, inflight, app, delivered>>

----------------------------------------------------------------------------
(* The driver's inputs, between drives.                                    *)

(* on_accepted: None at the cap. *)
OnAccepted ==
  /\ step = "idle"
  /\ ~at_cap
  /\ tcp' = tcp + 1
  /\ UNCHANGED <<tables, lists, udp, drive, inflight, app, delivered>>

(* A completion is delivered if the operation is still the shard's. *)
Wanted(op, table) == op \in table

Completed(op, table) ==
  delivered' = [delivered EXCEPT ![op] = @ + (IF Wanted(op, table) THEN 1 ELSE 0)]

(* on_dial_result: the place of the dial becomes the socket's. *)
OnDialResult(op) ==
  /\ step = "idle"
  /\ op \in inflight \ (resolves \cup socket_ops)
  /\ inflight' = inflight \ {op}
  /\ dials' = dials \ {op}
  /\ Completed(op, dials)
  /\ \/ op \in dials /\ tcp' = tcp + 1
     \/ UNCHANGED tcp
  /\ UNCHANGED <<resolves, socket_ops, app_udp_ops, lists, udp, drive, app>>

(* on_resolve_result. *)
OnResolveResult(op) ==
  /\ step = "idle"
  /\ op \in inflight \ (dials \cup socket_ops)
  /\ inflight' = inflight \ {op}
  /\ resolves' = resolves \ {op}
  /\ Completed(op, resolves)
  /\ UNCHANGED <<dials, socket_ops, app_udp_ops, lists, tcp, udp, drive, app>>

(* on_udp_socket: the reservation becomes the socket, or is released. *)
OnUdpSocket(op) ==
  /\ step = "idle"
  /\ op \in inflight \ (dials \cup resolves)
  /\ inflight' = inflight \ {op}
  /\ socket_ops' = socket_ops \ {op}
  /\ app_udp_ops' = ReservationReleased(op)
  /\ Completed(op, socket_ops)
  /\ \/ op \in app_udp_ops /\ udp' = udp + 1
     \/ UNCHANGED udp
  /\ UNCHANGED <<dials, resolves, lists, tcp, drive, app>>

----------------------------------------------------------------------------
(* drive, step 3: the completions the shard raises.  limited and           *)
(* limited_udp are taken out of the shard whole, resolved is popped one at *)
(* a time.  No callback runs between taking a list and its first delivery. *)

DriveBegin ==
  /\ step = "idle"
  /\ step' = "limited" /\ taken' = limited /\ limited' = <<>>
  /\ callback' = FALSE
  /\ UNCHANGED <<tables, limited_udp, resolved, tcp, udp, quota, inflight, app, delivered>>

Deliver(op) ==
  /\ delivered' = [delivered EXCEPT ![op] = @ + 1]
  /\ callback' = TRUE

DeliverTaken ==
  /\ step \in {"limited", "limited_udp"}
  /\ taken # <<>>
  /\ taken' = Tail(taken)
  /\ Deliver(Head(taken))
  /\ UNCHANGED <<tables, lists, tcp, udp, step, quota, inflight, app>>

BeginResolved ==
  /\ step = "limited" /\ taken = <<>>
  /\ step' = "resolved" /\ quota' = Len(resolved)
  /\ callback' = FALSE
  /\ UNCHANGED <<tables, lists, tcp, udp, taken, inflight, app, delivered>>

DeliverResolved ==
  /\ step = "resolved"
  /\ quota > 0 /\ resolved # <<>>
  /\ quota' = quota - 1
  /\ resolved' = Tail(resolved)
  /\ Deliver(Head(resolved))
  /\ UNCHANGED <<tables, limited, limited_udp, tcp, udp, step, taken, inflight, app>>

(* Mutant: the list is cleared again after its delivery. *)
LimitedLeftNone == <<>>

(* The refused dials left for the next drive: those of this step's         *)
(* callbacks.                                                              *)
LimitedLeft == limited

BeginLimitedUdp ==
  /\ step = "resolved"
  /\ quota = 0 \/ resolved = <<>>
  /\ step' = "limited_udp" /\ quota' = 0
  /\ taken' = limited_udp /\ limited_udp' = <<>>
  /\ limited' = LimitedLeft
  /\ callback' = FALSE
  /\ UNCHANGED <<tables, resolved, tcp, udp, inflight, app, delivered>>

DriveEnd ==
  /\ step = "limited_udp" /\ taken = <<>>
  /\ step' = "idle" /\ callback' = TRUE
  /\ UNCHANGED <<tables, lists, tcp, udp, taken, quota, inflight, app, delivered>>

App(op) ==
  \/ Dial(op) \/ Resolve(op) \/ OpenUdpSocket(op) \/ OpenAppUdpSocket(op) \/ Cancel(op)

Driver(op) == OnDialResult(op) \/ OnResolveResult(op) \/ OnUdpSocket(op)

Drive ==
  \/ DriveBegin \/ DeliverTaken \/ BeginResolved \/ DeliverResolved \/ BeginLimitedUdp
  \/ DriveEnd

Next ==
  \/ OnAccepted \/ CloseSocket \/ Drive
  \/ \E op \in Ops : App(op) \/ Driver(op)

Spec == Init /\ [][Next]_vars

(* The shard is driven, and the driver completes what it is handed: dials  *)
(* and resolves have deadlines.  (An op has one result, so fairness of all *)
(* of them together starves none.)                                         *)
Fairness == WF_vars(Drive) /\ SF_vars(\E op \in Ops : Driver(op))

FairSpec == Spec /\ Fairness

----------------------------------------------------------------------------
TypeOK ==
  /\ dials \subseteq Ops /\ resolves \subseteq Ops
  /\ socket_ops \subseteq Ops /\ app_udp_ops \subseteq socket_ops
  /\ limited \in Seq(Ops) /\ limited_udp \in Seq(Ops) /\ resolved \in Seq(Ops)
  /\ tcp \in Nat /\ udp \in Nat
  /\ step \in {"idle", "limited", "resolved", "limited_udp"}
  /\ taken \in Seq(Ops) /\ quota \in Nat /\ callback \in BOOLEAN
  /\ inflight \subseteq Ops /\ started \subseteq Ops /\ cancelled \subseteq started
  /\ delivered \in [Ops -> Nat]

(* spec "Socket cap": sockets and the operations that will become sockets  *)
(* together never exceed the cap, across cancels, late results and         *)
(* accepts.                                                                *)
CapHolds == Used <= SOCKET_CAP

(* An operation completes at most once, and one that the app neither       *)
(* cancelled nor saw complete is still on its way: in exactly one table or *)
(* list.  A place reserved is that of an open on its way.                  *)
OnceAndTracked ==
  /\ app_udp_ops \subseteq socket_ops
  /\ \A op \in Ops :
    LET ways == {dials, resolves, socket_ops} \cup
                {ToSet(limited), ToSet(limited_udp), ToSet(resolved), ToSet(taken)} IN
    /\ delivered[op] <= 1
    /\ op \in started \ cancelled =>
         (delivered[op] = 0) <=> (Cardinality({w \in ways : op \in w}) = 1)
    /\ op \in dials \cup resolves \cup socket_ops => op \in inflight

(* The socket cap holds through cancels, accepts and late results, and an  *)
(* operation completes once and is tracked until it does.                  *)
OpsSound == CapHolds /\ OnceAndTracked

(* SP2 spec 4.2 "never delivers" for resolves, and the driver's results    *)
(* for every kind: a cancelled one is not delivered.                       *)
CancelledResultDropped ==
  [][\A op \in cancelled :
       delivered'[op] # delivered[op] => step \in {"limited", "limited_udp"}]_vars

(* Cx::cancel_dial and Cx::cancel_udp_socket: "the result, if any, is      *)
(* dropped".                                                               *)
CancelledNeverDelivered ==
  [][\A op \in cancelled : delivered'[op] = delivered[op]]_vars

(* Every operation completes unless it is cancelled. *)
OpsComplete ==
  \A op \in Ops : op \in started ~> delivered[op] = 1 \/ op \in cancelled

=============================================================================
