------------------------- MODULE ClientTunnelProofs -------------------------
(***************************************************************************)
(* Proofs about ClientTunnel, for any set of ingress sockets, any size of  *)
(* the pending queue and any number of connection ids: every open socket   *)
(* has exactly one owner, the authentication deadline is the current       *)
(* connection's, the client always has a next step, and a closed one       *)
(* admits nothing.                                                         *)
(***************************************************************************)
EXTENDS ClientTunnel, ListLemmas, FiniteSetTheorems

(* The connection, its timers and the life of the client. *)
TunnelTypes ==
  /\ reconnect \in BOOLEAN
  /\ conn \in Conn
  /\ gen \in 0 .. MaxGen
  /\ auth_timers \subseteq 0 .. MaxGen /\ reconnect_timers \subseteq 0 .. MaxGen
  /\ h3 \in [conn : BOOLEAN, up : BOOLEAN, reconnect : BOOLEAN]
  /\ terminal \in BOOLEAN /\ shutting_down \in BOOLEAN
  /\ exit \in {"none", "0", "1"}

(* One reconnect is armed exactly while there is neither a connection nor  *)
(* a reason to stop; a control stream belongs to a connection and waits    *)
(* for AUTH_RESPONSE under its deadline or being closed; while the client  *)
(* shuts down the H3 tunnel is not tried again, and the ConnClosed of one  *)
(* of the two tunnels is still to come.                                    *)
Armed ==
  /\ conn.id = 0 /\ ~terminal /\ ~shutting_down => \E x \in 0 .. MaxGen : reconnect_timers = {x}
  /\ conn.id # 0 \/ terminal \/ shutting_down => reconnect_timers = {}
  /\ conn.ctrl => conn.id # 0
  /\ conn.authed => conn.ctrl
  /\ conn.ctrl /\ ~conn.authed /\ ~conn.closing => conn.id \in auth_timers
  /\ shutting_down => ~h3.reconnect
  /\ Running /\ shutting_down => conn.id # 0 \/ h3.conn
  /\ terminal => conn.id = 0

TunnelInv == TunnelTypes /\ AuthTimerIsCurrent /\ Armed

(* The requests: the queue is a list without repetition of bounded length. *)
QueueOK(s) == s \in Seq(Socks) /\ Nodup(s) /\ Len(s) <= MAX_PENDING

SocketTypes ==
  /\ ingress \subseteq Socks /\ opens \subseteq Socks
  /\ pending_timers \subseteq Socks
  /\ assocs \in [Socks -> {"none", "opening", "ready"}]
  /\ relays \subseteq Socks /\ accepted \subseteq Socks

(* The owners are disjoint, and between them hold what is open. *)
Owned(P) ==
  /\ tcp = ingress \cup P \cup opens \cup relays \cup Assocs
  /\ ingress \cap (P \cup opens \cup relays \cup Assocs) = {}
  /\ P \cap (opens \cup relays \cup Assocs) = {}
  /\ opens \cap (relays \cup Assocs) = {}
  /\ relays \cap Assocs = {}
  /\ streams = opens \cup relays
  /\ usocks = {t \in Socks : assocs[t] = "ready"}
  /\ ingress_timers = ingress
  /\ tcp \subseteq accepted

SocketInv == SocketTypes /\ QueueOK(pending) /\ Owned(ToSet(pending))

(* Closed for good and shutting down. *)
ClosedInv ==
  /\ udp \in {"Unknown", "Available", "Unavailable"}
  /\ terminal \/ shutting_down => udp = "Unavailable"
  /\ udp = "Unavailable" => Assocs = {}
  /\ terminal => ToSet(pending) = {} /\ opens = {}

CInv == TunnelInv /\ SocketInv /\ ClosedInv

----------------------------------------------------------------------------
(* The invariant says what the runs check. *)

LEMMA NoneListed ==
  ASSUME QueueOK(pending)
  PROVE  ToSet(pending) = {} <=> pending = <<>>
<1>1. DOMAIN pending = 1 .. Len(pending) /\ Len(pending) \in Nat
  BY DEF QueueOK
<1>2. ASSUME pending # <<>> PROVE ToSet(pending) # {}
  <2>1. 1 \in DOMAIN pending
    BY <1>1, <1>2 DEF QueueOK
  <2> QED
    BY <2>1 DEF ToSet
<1> QED
  BY <1>2, EmptyList

LEMMA InvTypes ==
  ASSUME CInv
  PROVE  TypeOK
<1>1. ToSet(pending) \subseteq Socks /\ Assocs \subseteq Socks
  BY ListElements DEF CInv, SocketInv, QueueOK, Assocs
<1>2. tcp \subseteq Socks /\ streams \subseteq Socks /\ usocks \subseteq Socks
      /\ ingress_timers \subseteq Socks
  BY <1>1 DEF CInv, SocketInv, SocketTypes, Owned
<1> QED
  BY <1>2 DEF CInv, TunnelInv, TunnelTypes, SocketInv, SocketTypes, QueueOK, ClosedInv, TypeOK

LEMMA InvSound ==
  ASSUME CInv
  PROVE  TunnelSound
<1>1. SocketsOwned
  <2>1. DOMAIN pending = 1 .. Len(pending)
    BY DEF CInv, SocketInv, QueueOK
  <2>2. \A i, j \in DOMAIN pending : pending[i] = pending[j] => i = j
    BY <2>1 DEF CInv, SocketInv, QueueOK, Nodup
  <2> QED
    BY <2>2 DEF CInv, SocketInv, QueueOK, Owned, SocketsOwned
<1>2. AuthTimerIsCurrent
  BY DEF CInv, TunnelInv
<1>3. NotWedged
  <2>1. Cardinality(reconnect_timers) =
          IF conn.id = 0 /\ ~terminal /\ ~shutting_down THEN 1 ELSE 0
    BY FS_EmptySet, FS_Singleton DEF CInv, TunnelInv, Armed
  <2> QED
    BY <2>1 DEF CInv, TunnelInv, Armed, NotWedged
<1>4. ClosedAdmitsNothing
  BY NoneListed DEF CInv, TunnelInv, Armed, SocketInv, ClosedInv, ClosedAdmitsNothing
<1> QED
  BY <1>1, <1>2, <1>3, <1>4 DEF TunnelSound

LEMMA InitInv == Init => CInv
<1> SUFFICES ASSUME Init PROVE CInv
  OBVIOUS
<1> DEFINE first == [id |-> 1, ctrl |-> FALSE, authed |-> FALSE, auth_timer |-> FALSE,
                     closing |-> FALSE]
<1>1. TunnelTypes
  <2>1. NoConn \in Conn /\ first \in Conn /\ 1 \in 0 .. MaxGen
    BY ClientAssumption DEF Conn, NoConn
  <2>2. conn \in {NoConn, first} /\ gen \in {0, 1} /\ reconnect_timers \in SUBSET {0}
    BY DEF Init, NoConn
  <2>3. h3 \in [conn : BOOLEAN, up : BOOLEAN, reconnect : BOOLEAN]
    BY ClientAssumption DEF Init
  <2>4. reconnect \in BOOLEAN /\ terminal \in BOOLEAN /\ auth_timers = {}
        /\ shutting_down = FALSE /\ exit \in {"none", "0", "1"}
    BY DEF Init
  <2> HIDE DEF first
  <2>7. conn \in Conn
    BY <2>1, <2>2
  <2>5. gen \in 0 .. MaxGen
    BY <2>2, ClientAssumption
  <2>6. reconnect_timers \subseteq 0 .. MaxGen /\ auth_timers \subseteq 0 .. MaxGen
    BY <2>2, <2>4, ClientAssumption
  <2> QED
    BY <2>3, <2>4, <2>5, <2>6, <2>7 DEF TunnelTypes
<1>2. AuthTimerIsCurrent /\ Armed
  <2>1. ~conn.ctrl /\ ~conn.authed /\ auth_timers = {} /\ ~shutting_down
    BY DEF Init, NoConn
  <2>2. \/ conn.id = 1 /\ reconnect_timers = {} /\ terminal = FALSE
        \/ conn.id = 0 /\ terminal = FALSE /\ reconnect_timers = {0}
        \/ conn.id = 0 /\ terminal = TRUE /\ reconnect_timers = {}
    <3>1. CASE conn = NoConn /\ gen = 0 /\ terminal = ~reconnect
               /\ reconnect_timers = IF reconnect THEN {0} ELSE {}
      <4>1. CASE reconnect = TRUE
        BY <3>1, <4>1 DEF NoConn
      <4>2. CASE reconnect = FALSE
        BY <3>1, <4>2 DEF NoConn
      <4> QED
        BY <4>1, <4>2 DEF Init
    <3>2. CASE conn = [NoConn EXCEPT !.id = 1] /\ reconnect_timers = {} /\ terminal = FALSE
      BY <3>2 DEF NoConn
    <3> QED
      BY <3>1, <3>2 DEF Init
  <2>3. 0 \in 0 .. MaxGen
    BY ClientAssumption
  <2> QED
    BY <2>1, <2>2, <2>3 DEF Armed, AuthTimerIsCurrent
<1>3. Assocs = {} /\ ToSet(pending) = {} /\ Nodup(pending) /\ pending \in Seq(Socks)
  BY EmptyList DEF Init, Assocs
<1>4. SocketInv
  BY <1>3, ClientAssumption DEF Init, SocketInv, SocketTypes, QueueOK, Owned
<1>5. ClosedInv
  BY <1>3 DEF Init, ClosedInv
<1> QED
  BY <1>1, <1>2, <1>4, <1>5 DEF CInv, TunnelInv

----------------------------------------------------------------------------
(* The sockets.                                                            *)

(* Frames: the variables an action leaves alone. *)
SameTunnel == UNCHANGED <<conn, gen, auth_timers, reconnect_timers, h3, life>>

SameSockets ==
  UNCHANGED <<ingress_timers, pending_timers, requests, udpVars, held, accepted>>

LEMMA TunnelFrame ==
  ASSUME CInv, SameTunnel
  PROVE  TunnelInv'
BY DEF CInv, TunnelInv, TunnelTypes, Armed, AuthTimerIsCurrent, Running, SameTunnel, life

LEMMA SocketFrame ==
  ASSUME CInv, SameSockets, terminal' = terminal, shutting_down' = shutting_down
  PROVE  SocketInv' /\ ClosedInv'
BY DEF CInv, SocketInv, SocketTypes, QueueOK, Owned, Assocs, ClosedInv, SameSockets, requests,
       udpVars, held

(* An associations' table that is left alone has the same members. *)
LEMMA SameAssocs ==
  ASSUME UNCHANGED udpVars
  PROVE  Assocs' = Assocs /\ usocks' = usocks /\ udp' = udp /\ assocs' = assocs
BY DEF Assocs, udpVars

(* request for a socket nobody else owns. *)
LEMMA RequestOwned ==
  ASSUME CInv, NEW t \in Socks, Request(t),
         t \notin ToSet(pending) \cup opens \cup relays \cup Assocs,
         ingress' = ingress \ {t}, ingress_timers' = ingress_timers \ {t},
         accepted' = accepted \cup {t},
         UNCHANGED <<life, udpVars, relays>>
  PROVE  SocketInv' /\ ClosedInv'
<1>1. SocketTypes /\ QueueOK(pending) /\ Owned(ToSet(pending)) /\ ClosedInv
  BY DEF CInv, SocketInv
<1>2. /\ Assocs' = Assocs /\ usocks' = usocks /\ udp' = udp /\ assocs' = assocs
      /\ terminal' = terminal /\ shutting_down' = shutting_down /\ relays' = relays
  BY SameAssocs DEF life
<1>3. CASE tcp' = tcp \ {t} /\ UNCHANGED <<pending_timers, pending, opens, streams>>
  <2>1. SocketTypes'
    BY <1>1, <1>2, <1>3 DEF SocketTypes
  <2>2. Owned(ToSet(pending))'
    BY <1>1, <1>2, <1>3 DEF Owned
  <2>3. ClosedInv' /\ QueueOK(pending)'
    BY <1>1, <1>2, <1>3 DEF ClosedInv, QueueOK
  <2> QED
    BY <2>1, <2>2, <2>3 DEF SocketInv
<1>4. CASE /\ ~terminal /\ UNCHANGED <<pending_timers, pending>>
           /\ \E ok \in SUBSET {t} :
                /\ opens' = opens \cup ok
                /\ streams' = streams \cup ok
                /\ tcp' = (tcp \ {t}) \cup ok
  <2>1. PICK ok \in SUBSET {t} :
          /\ opens' = opens \cup ok
          /\ streams' = streams \cup ok
          /\ tcp' = (tcp \ {t}) \cup ok
    BY <1>4
  <2>2. SocketTypes'
    BY <1>1, <1>2, <1>4, <2>1 DEF SocketTypes
  <2>3. Owned(ToSet(pending))'
    BY <1>1, <1>2, <1>4, <2>1 DEF Owned
  <2>4. ClosedInv' /\ QueueOK(pending)'
    BY <1>1, <1>2, <1>4 DEF ClosedInv, QueueOK
  <2> QED
    BY <2>2, <2>3, <2>4 DEF SocketInv
<1>5. CASE /\ ~terminal /\ ~PendingFull
           /\ pending' = Append(pending, t)
           /\ pending_timers' = pending_timers \cup {t}
           /\ tcp' = tcp \cup {t}
           /\ UNCHANGED <<opens, streams>>
  <2>1. /\ pending' \in Seq(Socks) /\ Nodup(pending')
        /\ ToSet(pending') = ToSet(pending) \cup {t} /\ Len(pending') = Len(pending) + 1
    BY <1>1, <1>5, AppendList DEF QueueOK
  <2>2. QueueOK(pending')
    BY <1>1, <1>5, <2>1, ClientAssumption DEF QueueOK, PendingFull
  <2>3. SocketTypes'
    BY <1>1, <1>2, <1>5 DEF SocketTypes
  <2>4. Owned(ToSet(pending))'
    BY <1>1, <1>2, <1>5, <2>1 DEF Owned
  <2>5. ClosedInv'
    BY <1>1, <1>2, <1>5 DEF ClosedInv
  <2> QED
    BY <2>2, <2>3, <2>4, <2>5 DEF SocketInv
<1> QED
  BY <1>3, <1>4, <1>5 DEF Request

LEMMA AcceptTransparentInv ==
  ASSUME CInv, NEW t \in Socks, AcceptTransparent(t)
  PROVE  SocketInv' /\ ClosedInv'
<1>1. t \notin ingress \cup ToSet(pending) \cup opens \cup relays \cup Assocs
  BY DEF AcceptTransparent, CInv, SocketInv, Owned
<1>2. ingress' = ingress \ {t} /\ ingress_timers' = ingress_timers \ {t}
  BY <1>1 DEF AcceptTransparent, CInv, SocketInv, Owned
<1> QED
  BY <1>1, <1>2, RequestOwned DEF AcceptTransparent

LEMMA RequestReadInv ==
  ASSUME CInv, NEW t \in Socks, RequestRead(t)
  PROVE  SocketInv' /\ ClosedInv'
<1>1. t \notin ToSet(pending) \cup opens \cup relays \cup Assocs /\ t \in accepted
  BY DEF RequestRead, CInv, SocketInv, Owned
<1>2. accepted' = accepted \cup {t}
  BY <1>1 DEF RequestRead
<1> QED
  BY <1>1, <1>2, RequestOwned DEF RequestRead

LEMMA AcceptInv ==
  ASSUME CInv, NEW t \in Socks, Accept(t)
  PROVE  SocketInv' /\ ClosedInv'
<1>1. SocketTypes /\ QueueOK(pending) /\ Owned(ToSet(pending)) /\ ClosedInv
  BY DEF CInv, SocketInv
<1>2. /\ Assocs' = Assocs /\ usocks' = usocks /\ udp' = udp /\ assocs' = assocs
      /\ terminal' = terminal /\ shutting_down' = shutting_down
  BY SameAssocs DEF life, Accept
<1>3. SocketTypes'
  BY <1>1, <1>2 DEF SocketTypes, requests, Accept
<1>4. Owned(ToSet(pending))'
  BY <1>1, <1>2 DEF Owned, requests, timers, Accept
<1>5. ClosedInv' /\ QueueOK(pending)'
  BY <1>1, <1>2 DEF ClosedInv, QueueOK, requests, Accept
<1> QED
  BY <1>3, <1>4, <1>5 DEF SocketInv

LEMMA IngressEndsInv ==
  ASSUME CInv, NEW t \in Socks, IngressEnds(t)
  PROVE  SocketInv' /\ ClosedInv'
<1>1. SocketTypes /\ QueueOK(pending) /\ Owned(ToSet(pending)) /\ ClosedInv
  BY DEF CInv, SocketInv
<1>2. /\ Assocs' = Assocs /\ usocks' = usocks /\ udp' = udp /\ assocs' = assocs
      /\ terminal' = terminal /\ shutting_down' = shutting_down
  BY SameAssocs DEF life, IngressEnds
<1>3. SocketTypes'
  BY <1>1, <1>2 DEF SocketTypes, requests, IngressEnds
<1>4. Owned(ToSet(pending))'
  BY <1>1, <1>2 DEF Owned, requests, timers, IngressEnds
<1>5. ClosedInv' /\ QueueOK(pending)'
  BY <1>1, <1>2 DEF ClosedInv, QueueOK, requests, IngressEnds
<1> QED
  BY <1>3, <1>4, <1>5 DEF SocketInv

LEMMA OpenOkInv ==
  ASSUME CInv, NEW t \in Socks, OpenOk(t)
  PROVE  SocketInv' /\ ClosedInv'
<1>1. SocketTypes /\ QueueOK(pending) /\ Owned(ToSet(pending)) /\ ClosedInv
  BY DEF CInv, SocketInv
<1>2. /\ Assocs' = Assocs /\ usocks' = usocks /\ udp' = udp /\ assocs' = assocs
      /\ terminal' = terminal /\ shutting_down' = shutting_down
  BY SameAssocs DEF life, OpenOk
<1>3. SocketTypes'
  BY <1>1, <1>2 DEF SocketTypes, requests, timers, OpenOk
<1>4. Owned(ToSet(pending))'
  BY <1>1, <1>2 DEF Owned, requests, timers, OpenOk
<1>5. ClosedInv' /\ QueueOK(pending)'
  BY <1>1, <1>2 DEF ClosedInv, QueueOK, requests, OpenOk
<1> QED
  BY <1>3, <1>4, <1>5 DEF SocketInv

LEMMA OpenFailsInv ==
  ASSUME CInv, NEW t \in Socks, OpenFails(t)
  PROVE  SocketInv' /\ ClosedInv'
<1>1. SocketTypes /\ QueueOK(pending) /\ Owned(ToSet(pending)) /\ ClosedInv
  BY DEF CInv, SocketInv
<1>2. /\ Assocs' = Assocs /\ usocks' = usocks /\ udp' = udp /\ assocs' = assocs
      /\ terminal' = terminal /\ shutting_down' = shutting_down
  BY SameAssocs DEF life, OpenFails
<1>3. SocketTypes'
  BY <1>1, <1>2 DEF SocketTypes, requests, timers, OpenFails
<1>4. Owned(ToSet(pending))'
  BY <1>1, <1>2 DEF Owned, requests, timers, OpenFails
<1>5. ClosedInv' /\ QueueOK(pending)'
  BY <1>1, <1>2 DEF ClosedInv, QueueOK, requests, OpenFails
<1> QED
  BY <1>3, <1>4, <1>5 DEF SocketInv

LEMMA RelayEndsInv ==
  ASSUME CInv, NEW t \in Socks, RelayEnds(t)
  PROVE  SocketInv' /\ ClosedInv'
<1>1. SocketTypes /\ QueueOK(pending) /\ Owned(ToSet(pending)) /\ ClosedInv
  BY DEF CInv, SocketInv
<1>2. /\ Assocs' = Assocs /\ usocks' = usocks /\ udp' = udp /\ assocs' = assocs
      /\ terminal' = terminal /\ shutting_down' = shutting_down
  BY SameAssocs DEF life, RelayEnds
<1>3. SocketTypes'
  BY <1>1, <1>2 DEF SocketTypes, requests, timers, RelayEnds
<1>4. Owned(ToSet(pending))'
  BY <1>1, <1>2 DEF Owned, requests, timers, RelayEnds
<1>5. ClosedInv' /\ QueueOK(pending)'
  BY <1>1, <1>2 DEF ClosedInv, QueueOK, requests, RelayEnds
<1> QED
  BY <1>3, <1>4, <1>5 DEF SocketInv

(* A timer of the queue: the first n are refused. *)
LEMMA PendingDueInv ==
  ASSUME CInv, NEW t \in Socks, PendingDue(t)
  PROVE  SocketInv' /\ ClosedInv'
<1>1. SocketTypes /\ QueueOK(pending) /\ Owned(ToSet(pending)) /\ ClosedInv
  BY DEF CInv, SocketInv
<1>2. /\ Assocs' = Assocs /\ usocks' = usocks /\ udp' = udp /\ assocs' = assocs
      /\ terminal' = terminal /\ shutting_down' = shutting_down
  BY SameAssocs DEF life, PendingDue
<1>3. PICK n \in 0 .. Len(pending) :
        /\ tcp' = tcp \ ToSet(SubSeq(pending, 1, n))
        /\ pending' = SubSeq(pending, n + 1, Len(pending))
  BY DEF PendingDue
<1>4. /\ pending' \in Seq(Socks) /\ Nodup(pending')
      /\ ToSet(pending') = ToSet(pending) \ ToSet(SubSeq(pending, 1, n))
      /\ Len(pending') = Len(pending) - n
  BY <1>1, <1>3, CutList DEF QueueOK
<1>5. QueueOK(pending')
  BY <1>1, <1>3, <1>4, ClientAssumption DEF QueueOK
<1>6. ToSet(SubSeq(pending, 1, n)) \subseteq ToSet(pending)
  BY <1>1, <1>3 DEF QueueOK, ToSet
<1>7. SocketTypes'
  BY <1>1, <1>2 DEF SocketTypes, PendingDue
<1>8. Owned(ToSet(pending))'
  BY <1>1, <1>2, <1>3, <1>4, <1>6 DEF Owned, PendingDue
<1>9. ClosedInv'
  BY <1>1, <1>2, <1>4 DEF ClosedInv, PendingDue
<1> QED
  BY <1>5, <1>7, <1>8, <1>9 DEF SocketInv

LEMMA PendingSocketErrorInv ==
  ASSUME CInv, NEW t \in Socks, PendingSocketError(t)
  PROVE  SocketInv' /\ ClosedInv'
<1>1. SocketTypes /\ QueueOK(pending) /\ Owned(ToSet(pending)) /\ ClosedInv
  BY DEF CInv, SocketInv
<1>2. /\ Assocs' = Assocs /\ usocks' = usocks /\ udp' = udp /\ assocs' = assocs
      /\ terminal' = terminal /\ shutting_down' = shutting_down
  BY SameAssocs DEF life, PendingSocketError
<1>3. PICK i \in DOMAIN pending : pending[i] = t /\ pending' = RemoveAt(pending, i)
  BY DEF PendingSocketError
<1>4. i \in 1 .. Len(pending) /\ t \in ToSet(pending)
  BY <1>1, <1>3 DEF QueueOK, ToSet
<1>5. /\ pending' \in Seq(Socks) /\ Nodup(pending')
      /\ ToSet(pending') = ToSet(pending) \ {t} /\ Len(pending') = Len(pending) - 1
  BY <1>1, <1>3, <1>4, RemoveList DEF QueueOK
<1>6. QueueOK(pending')
  BY <1>1, <1>5, ClientAssumption DEF QueueOK
<1>7. SocketTypes'
  BY <1>1, <1>2 DEF SocketTypes, timers, PendingSocketError
<1>8. Owned(ToSet(pending))'
  BY <1>1, <1>2, <1>4, <1>5 DEF Owned, timers, PendingSocketError
<1>9. ClosedInv'
  BY <1>1, <1>2, <1>5 DEF ClosedInv, PendingSocketError
<1> QED
  BY <1>6, <1>7, <1>8, <1>9 DEF SocketInv

(* The associations, when the one of t changes to v. *)
LEMMA AssocChange ==
  ASSUME SocketTypes, NEW t \in Socks, NEW v \in {"none", "opening", "ready"},
         assocs' = [assocs EXCEPT ![t] = v]
  PROVE  /\ assocs' \in [Socks -> {"none", "opening", "ready"}]
         /\ Assocs' = IF v = "none" THEN Assocs \ {t} ELSE Assocs \cup {t}
         /\ {s \in Socks : assocs'[s] = "ready"} =
              IF v = "ready" THEN {s \in Socks : assocs[s] = "ready"} \cup {t}
                             ELSE {s \in Socks : assocs[s] = "ready"} \ {t}
BY DEF SocketTypes, Assocs

LEMMA AssociateInv ==
  ASSUME CInv, NEW t \in Socks, Associate(t)
  PROVE  SocketInv' /\ ClosedInv'
<1>1. SocketTypes /\ QueueOK(pending) /\ Owned(ToSet(pending)) /\ ClosedInv
  BY DEF CInv, SocketInv
<1>2. /\ assocs' \in [Socks -> {"none", "opening", "ready"}]
      /\ Assocs' = Assocs \cup {t}
      /\ {s \in Socks : assocs'[s] = "ready"} = {s \in Socks : assocs[s] = "ready"} \ {t}
  BY <1>1, AssocChange DEF Associate
<1>3. /\ ingress' = ingress \ {t} /\ ingress_timers' = ingress_timers \ {t} /\ t \in ingress
      /\ UNCHANGED <<pending_timers, pending, opens, udp, usocks, tcp, relays, streams, accepted>>
      /\ udp # "Unavailable" /\ terminal' = terminal /\ shutting_down' = shutting_down
  BY DEF Associate, held, life
<1>4. t \notin {s \in Socks : assocs[s] = "ready"}
  BY <1>1, <1>3 DEF Owned, Assocs
<1>5. SocketTypes' /\ QueueOK(pending)'
  BY <1>1, <1>2, <1>3 DEF SocketTypes, QueueOK
<1>6. Owned(ToSet(pending))'
  BY <1>1, <1>2, <1>3, <1>4 DEF Owned
<1>7. ClosedInv'
  BY <1>1, <1>3 DEF ClosedInv
<1> QED
  BY <1>5, <1>6, <1>7 DEF SocketInv

LEMMA AssocSocketInv ==
  ASSUME CInv, NEW t \in Socks, AssocSocket(t)
  PROVE  SocketInv' /\ ClosedInv'
<1>1. SocketTypes /\ QueueOK(pending) /\ Owned(ToSet(pending)) /\ ClosedInv
  BY DEF CInv, SocketInv
<1>2. /\ UNCHANGED <<ingress_timers, pending_timers, ingress, pending, opens, udp, relays,
                     streams, accepted, terminal, shutting_down>>
      /\ t \in Assocs /\ assocs[t] # "ready"
  BY DEF AssocSocket, timers, requests, life, Assocs
<1>3. CASE /\ assocs' = [assocs EXCEPT ![t] = "ready"]
           /\ usocks' = usocks \cup {t}
           /\ UNCHANGED tcp
  <2>1. /\ assocs' \in [Socks -> {"none", "opening", "ready"}]
        /\ Assocs' = Assocs \cup {t}
        /\ {s \in Socks : assocs'[s] = "ready"} = {s \in Socks : assocs[s] = "ready"} \cup {t}
    BY <1>1, <1>3, AssocChange
  <2>2. Assocs' = Assocs
    BY <2>1, <1>2
  <2>3. SocketTypes' /\ QueueOK(pending)'
    BY <1>1, <1>2, <2>1 DEF SocketTypes, QueueOK
  <2>4. Owned(ToSet(pending))'
    BY <1>1, <1>2, <1>3, <2>1, <2>2 DEF Owned
  <2>5. ClosedInv'
    BY <1>1, <1>2, <2>2 DEF ClosedInv
  <2> QED
    BY <2>3, <2>4, <2>5 DEF SocketInv
<1>4. CASE /\ assocs' = [assocs EXCEPT ![t] = "none"]
           /\ tcp' = tcp \ {t}
           /\ UNCHANGED usocks
  <2>1. /\ assocs' \in [Socks -> {"none", "opening", "ready"}]
        /\ Assocs' = Assocs \ {t}
        /\ {s \in Socks : assocs'[s] = "ready"} = {s \in Socks : assocs[s] = "ready"} \ {t}
    BY <1>1, <1>4, AssocChange
  <2>2. {s \in Socks : assocs'[s] = "ready"} = {s \in Socks : assocs[s] = "ready"}
    BY <2>1, <1>2
  <2>3. SocketTypes' /\ QueueOK(pending)'
    BY <1>1, <1>2, <2>1 DEF SocketTypes, QueueOK
  <2>4. Owned(ToSet(pending))'
    BY <1>1, <1>2, <1>4, <2>1, <2>2 DEF Owned
  <2>5. ClosedInv'
    BY <1>1, <1>2, <2>1 DEF ClosedInv
  <2> QED
    BY <2>3, <2>4, <2>5 DEF SocketInv
<1> QED
  BY <1>3, <1>4 DEF AssocSocket

LEMMA AssocEndsInv ==
  ASSUME CInv, NEW t \in Socks, AssocEnds(t)
  PROVE  SocketInv' /\ ClosedInv'
<1>1. SocketTypes /\ QueueOK(pending) /\ Owned(ToSet(pending)) /\ ClosedInv
  BY DEF CInv, SocketInv
<1>2. /\ UNCHANGED <<ingress_timers, pending_timers, ingress, pending, opens, udp, relays,
                     streams, accepted, terminal, shutting_down>>
      /\ usocks' = usocks \ {t} /\ tcp' = tcp \ {t} /\ t \in Assocs
  BY DEF AssocEnds, timers, requests, life
<1>3. /\ assocs' \in [Socks -> {"none", "opening", "ready"}]
      /\ Assocs' = Assocs \ {t}
      /\ {s \in Socks : assocs'[s] = "ready"} = {s \in Socks : assocs[s] = "ready"} \ {t}
  BY <1>1, AssocChange DEF AssocEnds
<1>4. SocketTypes' /\ QueueOK(pending)'
  BY <1>1, <1>2, <1>3 DEF SocketTypes, QueueOK
<1>5. Owned(ToSet(pending))'
  BY <1>1, <1>2, <1>3 DEF Owned
<1>6. ClosedInv'
  BY <1>1, <1>2, <1>3 DEF ClosedInv
<1> QED
  BY <1>4, <1>5, <1>6 DEF SocketInv

(* Every step of one socket leaves the tunnel alone. *)
LEMMA SocketStep ==
  ASSUME CInv, NEW t \in Socks, Socket(t)
  PROVE  CInv'
<1>1. SameTunnel
  BY DEF Socket, SameTunnel, life, timers, Accept, AcceptTransparent, RequestRead, Associate,
         IngressEnds, PendingDue, OpenOk, OpenFails, PendingSocketError, RelayEnds, AssocSocket,
         AssocEnds
<1>2. SocketInv' /\ ClosedInv'
  BY AcceptInv, AcceptTransparentInv, RequestReadInv, AssociateInv, IngressEndsInv,
     PendingDueInv, OpenOkInv, OpenFailsInv, PendingSocketErrorInv, RelayEndsInv,
     AssocSocketInv, AssocEndsInv DEF Socket
<1> QED
  BY <1>1, <1>2, TunnelFrame DEF CInv

----------------------------------------------------------------------------
(* The tunnel.                                                             *)

(* set_udp. *)
LEMMA UdpSet ==
  ASSUME SocketTypes, NEW avail, SetUdp(avail)
  PROVE  /\ udp' = avail
         /\ assocs' \in [Socks -> {"none", "opening", "ready"}]
         /\ Assocs' = Assocs \ Ended(avail)
         /\ Ended(avail) \subseteq Assocs
         /\ avail = "Unavailable" => Assocs' = {}
         /\ usocks = {t \in Socks : assocs[t] = "ready"} =>
              usocks' = {t \in Socks : assocs'[t] = "ready"}
BY DEF SetUdp, Ended, SocketTypes, Assocs

(* close of the current connection. *)
LEMMA ClosingFields ==
  ASSUME NEW c \in Conn
  PROVE  /\ Closing(c) \in Conn
         /\ Closing(c).id = c.id /\ Closing(c).ctrl = c.ctrl /\ Closing(c).authed = c.authed
         /\ Closing(c).auth_timer = c.auth_timer
         /\ Closing(c).closing <=> c.id # 0
BY DEF Closing, Conn

LEMMA NoConnFields ==
  NoConn \in Conn /\ NoConn.id = 0 /\ ~NoConn.ctrl /\ ~NoConn.authed
BY ClientAssumption DEF NoConn, Conn

LEMMA CloseInv ==
  ASSUME CInv, conn' = Closing(conn), conn.id # 0, exit' = exit,
         UNCHANGED <<gen, auth_timers, reconnect_timers, h3, reconnect, terminal, shutting_down>>
  PROVE  TunnelInv'
<1>1. TunnelTypes /\ AuthTimerIsCurrent /\ Armed
  BY DEF CInv, TunnelInv
<1>2. /\ conn' \in Conn /\ conn'.id = conn.id /\ conn'.ctrl = conn.ctrl
      /\ conn'.authed = conn.authed /\ conn'.auth_timer = conn.auth_timer /\ conn'.closing
  BY <1>1, ClosingFields DEF TunnelTypes
<1>3. TunnelTypes'
  BY <1>1, <1>2 DEF TunnelTypes
<1>4. AuthTimerIsCurrent'
  BY <1>1, <1>2 DEF AuthTimerIsCurrent
<1>5. Armed'
  BY <1>1, <1>2 DEF Armed, Running
<1> QED
  BY <1>3, <1>4, <1>5 DEF TunnelInv

LEMMA CtrlFailsInv ==
  ASSUME CInv, CtrlFails
  PROVE  CInv'
<1>1. conn.id # 0
  BY DEF CtrlFails, CInv, TunnelInv, Armed
<1>2. TunnelInv'
  BY <1>1, CloseInv DEF CtrlFails, timers, life
<1>3. SocketInv' /\ ClosedInv'
  BY SocketFrame DEF CtrlFails, SameSockets, life, timers
<1> QED
  BY <1>2, <1>3 DEF CInv

LEMMA EstablishedInv ==
  ASSUME CInv, Established
  PROVE  CInv'
<1>1. TunnelTypes /\ AuthTimerIsCurrent /\ Armed /\ conn.id # 0 /\ ~conn.ctrl
  BY DEF Established, CInv, TunnelInv
<1>2. SocketInv' /\ ClosedInv'
  BY SocketFrame DEF Established, SameSockets, life
<1>3. CASE conn' = Closing(conn) /\ UNCHANGED auth_timers
  <2>1. TunnelInv'
    BY <1>1, <1>3, CloseInv DEF Established, life
  <2> QED
    BY <2>1, <1>2 DEF CInv
<1>4. CASE /\ conn' \in {[conn EXCEPT !.ctrl = TRUE, !.auth_timer = TRUE, !.closing = @ \/ failed] :
                           failed \in BOOLEAN}
           /\ auth_timers' = auth_timers \cup {conn.id}
  <2>1. /\ conn' \in Conn /\ conn'.id = conn.id /\ conn'.ctrl /\ conn'.authed = conn.authed
        /\ conn'.auth_timer
    BY <1>1, <1>4 DEF TunnelTypes, Conn
  <2>2. ~conn.authed /\ auth_timers = {}
    BY <1>1 DEF Armed, AuthTimerIsCurrent
  <2>3. conn.id \in 0 .. MaxGen
    BY <1>1 DEF TunnelTypes, Conn
  <2>4. UNCHANGED <<gen, reconnect_timers, h3, reconnect, terminal, shutting_down, exit>>
    BY DEF Established, life
  <2>5. TunnelTypes'
    BY <1>1, <1>4, <2>1, <2>3, <2>4 DEF TunnelTypes
  <2>6. AuthTimerIsCurrent'
    BY <1>4, <2>1, <2>2 DEF AuthTimerIsCurrent
  <2>7. Armed'
    BY <1>1, <1>4, <2>1, <2>4 DEF Armed, Running
  <2> QED
    BY <2>5, <2>6, <2>7, <1>2 DEF CInv, TunnelInv
<1> QED
  BY <1>3, <1>4 DEF Established

LEMMA AuthDueInv ==
  ASSUME CInv, AuthDue
  PROVE  CInv'
<1>1. TunnelTypes /\ AuthTimerIsCurrent /\ Armed
  BY DEF CInv, TunnelInv
<1>2. SocketInv' /\ ClosedInv'
  BY SocketFrame DEF AuthDue, SameSockets, life
<1>3. PICK x \in auth_timers : auth_timers' = auth_timers \ {x}
  BY DEF AuthDue
<1>4. x = conn.id /\ conn.ctrl /\ conn.id # 0 /\ auth_timers' = {}
  BY <1>1, <1>3 DEF AuthTimerIsCurrent, Armed
<1> DEFINE c == [conn EXCEPT !.auth_timer = FALSE]
<1>5. c \in Conn /\ c.id = conn.id /\ c.ctrl = conn.ctrl /\ c.authed = conn.authed
  BY <1>1 DEF TunnelTypes, Conn
<1>6. conn' = Closing(c)
  BY DEF AuthDue
<1> HIDE DEF c
<1>7. conn' \in Conn /\ conn'.id = conn.id /\ conn'.ctrl = conn.ctrl /\ conn'.authed = conn.authed
      /\ conn'.closing
  BY <1>4, <1>5, <1>6, ClosingFields
<1>8. UNCHANGED <<gen, reconnect_timers, h3, reconnect, terminal, shutting_down, exit>>
  BY DEF AuthDue, life
<1>9. TunnelTypes' /\ AuthTimerIsCurrent'
  BY <1>1, <1>4, <1>7, <1>8 DEF TunnelTypes, AuthTimerIsCurrent
<1>10. Armed'
  BY <1>1, <1>4, <1>7, <1>8 DEF Armed, Running
<1> QED
  BY <1>2, <1>9, <1>10 DEF CInv, TunnelInv

LEMMA AuthRefusedInv ==
  ASSUME CInv, AuthRefused
  PROVE  CInv'
<1>1. SocketTypes /\ QueueOK(pending) /\ Owned(ToSet(pending)) /\ ClosedInv
  BY DEF CInv, SocketInv
<1>2. conn.id # 0
  BY DEF AuthRefused, CInv, TunnelInv, Armed
<1>3. TunnelInv'
  BY <1>2, CloseInv DEF AuthRefused, timers, life
<1>4. SetUdp("Unavailable") /\ pending' = <<>>
      /\ tcp' = tcp \ (Ended("Unavailable") \cup ToSet(pending))
      /\ UNCHANGED <<ingress_timers, pending_timers, ingress, opens, relays, streams, accepted,
                     terminal, shutting_down>>
  BY DEF AuthRefused, timers, life
<1>5. ToSet(pending') = {} /\ QueueOK(pending')
  BY <1>4, EmptyList, ClientAssumption DEF QueueOK
<1>6. SocketTypes'
  BY <1>1, <1>4, UdpSet DEF SocketTypes
<1>7. Owned(ToSet(pending))'
  BY <1>1, <1>4, <1>5, UdpSet DEF Owned
<1>8. ClosedInv'
  BY <1>1, <1>4, <1>5, UdpSet DEF ClosedInv
<1> QED
  BY <1>3, <1>5, <1>6, <1>7, <1>8 DEF CInv, SocketInv

LEMMA AuthOkInv ==
  ASSUME CInv, AuthOk
  PROVE  CInv'
<1>1. TunnelTypes /\ AuthTimerIsCurrent /\ Armed /\ conn.ctrl /\ ~conn.authed
  BY DEF AuthOk, CInv, TunnelInv
<1>2. SocketTypes /\ QueueOK(pending) /\ Owned(ToSet(pending)) /\ ClosedInv
  BY DEF CInv, SocketInv
<1>3. UNCHANGED <<gen, reconnect_timers, h3, reconnect, terminal, shutting_down, exit,
                  ingress_timers, pending_timers, ingress, relays, accepted>>
      /\ auth_timers' = {} /\ conn.id # 0 /\ ~terminal
  BY <1>1 DEF AuthOk, AuthCancelled, AuthTimerIsCurrent, Armed, life
<1>4. PICK relay \in BOOLEAN :
        /\ SetUdp(Avail(relay))
        /\ \/ /\ conn' = [conn EXCEPT !.authed = TRUE, !.auth_timer = FALSE, !.closing = TRUE]
              /\ tcp' = tcp \ Ended(Avail(relay))
              /\ UNCHANGED <<pending, opens, streams>>
           \/ \E ok \in SUBSET ToSet(pending) :
              /\ conn' = [conn EXCEPT !.authed = TRUE, !.auth_timer = FALSE]
              /\ opens' = opens \cup ok
              /\ streams' = streams \cup ok
              /\ tcp' = tcp \ (Ended(Avail(relay)) \cup (ToSet(pending) \ ok))
              /\ pending' = <<>>
  BY DEF AuthOk
<1> DEFINE avail == Avail(relay)
<1>5. avail \in {"Available", "Unavailable"} /\ (shutting_down => avail = "Unavailable")
  BY DEF Avail
<1>6. /\ udp' = avail
      /\ assocs' \in [Socks -> {"none", "opening", "ready"}]
      /\ Assocs' = Assocs \ Ended(avail)
      /\ Ended(avail) \subseteq Assocs
      /\ avail = "Unavailable" => Assocs' = {}
      /\ usocks' = {t \in Socks : assocs'[t] = "ready"}
  BY <1>2, <1>4, UdpSet DEF Owned
<1>7. conn' \in Conn /\ conn'.id = conn.id /\ conn'.ctrl /\ conn'.authed
  BY <1>1, <1>4 DEF TunnelTypes, Conn
<1>8. TunnelTypes' /\ AuthTimerIsCurrent'
  BY <1>1, <1>3, <1>7 DEF TunnelTypes, AuthTimerIsCurrent
<1>9. Armed'
  BY <1>1, <1>3, <1>7 DEF Armed, Running
<1> HIDE DEF avail
<1>10. CASE tcp' = tcp \ Ended(avail) /\ UNCHANGED <<pending, opens, streams>>
  <2>1. SocketTypes' /\ QueueOK(pending)'
    BY <1>2, <1>3, <1>6, <1>10 DEF SocketTypes, QueueOK
  <2>2. Owned(ToSet(pending))'
    BY <1>2, <1>3, <1>6, <1>10 DEF Owned
  <2>3. ClosedInv'
    BY <1>3, <1>5, <1>6 DEF ClosedInv
  <2> QED
    BY <1>8, <1>9, <2>1, <2>2, <2>3 DEF CInv, TunnelInv, SocketInv
<1>11. CASE \E ok \in SUBSET ToSet(pending) :
              /\ opens' = opens \cup ok
              /\ streams' = streams \cup ok
              /\ tcp' = tcp \ (Ended(avail) \cup (ToSet(pending) \ ok))
              /\ pending' = <<>>
  <2>1. PICK ok \in SUBSET ToSet(pending) :
              /\ opens' = opens \cup ok
              /\ streams' = streams \cup ok
              /\ tcp' = tcp \ (Ended(avail) \cup (ToSet(pending) \ ok))
              /\ pending' = <<>>
    BY <1>11
  <2>2. ToSet(pending) \subseteq Socks
    BY <1>2, ListElements DEF QueueOK
  <2>3. ToSet(pending') = {} /\ QueueOK(pending')
    BY <2>1, EmptyList, ClientAssumption DEF QueueOK
  <2>4. SocketTypes'
    BY <1>2, <1>3, <1>6, <2>1, <2>2 DEF SocketTypes
  <2>5. Owned(ToSet(pending))'
    BY <1>2, <1>3, <1>6, <2>1, <2>3 DEF Owned
  <2>6. ClosedInv'
    BY <1>3, <1>5, <1>6 DEF ClosedInv
  <2> QED
    BY <1>8, <1>9, <2>3, <2>4, <2>5, <2>6 DEF CInv, TunnelInv, SocketInv
<1> QED
  BY <1>4, <1>10, <1>11 DEF avail

LEMMA ShutdownInv ==
  ASSUME CInv, Shutdown
  PROVE  CInv'
<1>1. TunnelTypes /\ AuthTimerIsCurrent /\ Armed
  BY DEF CInv, TunnelInv
<1>2. SocketTypes /\ QueueOK(pending) /\ Owned(ToSet(pending)) /\ ClosedInv
  BY DEF CInv, SocketInv
<1>3. /\ shutting_down' = TRUE /\ SetUdp("Unavailable")
      /\ tcp' = tcp \ Ended("Unavailable") /\ reconnect_timers' = {}
      /\ UNCHANGED <<gen, auth_timers, ingress_timers, pending_timers, reconnect, terminal,
                     ingress, pending, opens, relays, streams, accepted>>
  BY DEF Shutdown, requests
<1>4. /\ conn' \in Conn /\ conn'.id = conn.id /\ conn'.ctrl = conn.ctrl
      /\ conn'.authed = conn.authed /\ conn'.auth_timer = conn.auth_timer
      /\ (conn'.closing <=> conn.id # 0)
  BY <1>1, ClosingFields DEF TunnelTypes, Shutdown
<1>5. /\ h3' \in [conn : BOOLEAN, up : BOOLEAN, reconnect : BOOLEAN]
      /\ h3'.conn = h3.conn /\ h3'.reconnect = FALSE
  BY <1>1 DEF TunnelTypes, Shutdown
<1>6. exit' = IF conn.id = 0 /\ ~h3'.conn /\ ~h3'.reconnect THEN "0" ELSE exit
  BY DEF Shutdown, MaybeExit
<1>7. TunnelTypes'
  BY <1>1, <1>3, <1>4, <1>5, <1>6 DEF TunnelTypes
<1>8. AuthTimerIsCurrent'
  BY <1>1, <1>3, <1>4 DEF AuthTimerIsCurrent
<1>9. Armed'
  <2>1. exit' = "none" => conn.id # 0 \/ h3'.conn
    BY <1>5, <1>6
  <2> QED
    BY <1>1, <1>3, <1>4, <1>5, <2>1 DEF Armed, Running
<1>10. SocketTypes' /\ QueueOK(pending)'
  BY <1>2, <1>3, UdpSet DEF SocketTypes, QueueOK
<1>11. Owned(ToSet(pending))'
  BY <1>2, <1>3, UdpSet DEF Owned
<1>12. ClosedInv'
  BY <1>2, <1>3, UdpSet DEF ClosedInv
<1> QED
  BY <1>7, <1>8, <1>9, <1>10, <1>11, <1>12 DEF CInv, TunnelInv, SocketInv

(* conn_gone with no reconnect armed, from a client that is not closed for *)
(* good.                                                                   *)
LEMMA ConnGoneInv ==
  ASSUME CInv, NEW R, R = {}, ConnGone(R), ~terminal, Running, UNCHANGED h3
  PROVE  CInv'
<1>1. TunnelTypes /\ AuthTimerIsCurrent /\ Armed
  BY DEF CInv, TunnelInv
<1>2. SocketTypes /\ QueueOK(pending) /\ Owned(ToSet(pending)) /\ ClosedInv
  BY DEF CInv, SocketInv
<1>3. /\ conn' \in Conn /\ conn'.id = 0 /\ ~conn'.ctrl /\ ~conn'.authed
      /\ auth_timers' = {} /\ h3' = h3
      /\ UNCHANGED <<gen, reconnect, shutting_down>>
  BY <1>1, NoConnFields DEF ConnGone, AuthCancelled, AuthTimerIsCurrent
<1>4. /\ opens' = {} /\ relays' = {} /\ streams' = {}
      /\ UNCHANGED <<ingress_timers, pending_timers, ingress, accepted>>
  BY DEF ConnGone
<1>5. AuthTimerIsCurrent'
  BY <1>3 DEF AuthTimerIsCurrent
<1>6. gen \in 0 .. MaxGen
  BY <1>1 DEF TunnelTypes
<1>7. CASE /\ shutting_down /\ reconnect_timers' = R
           /\ SetUdp("Unavailable")
           /\ tcp' = tcp \ (opens \cup relays \cup Ended("Unavailable"))
           /\ MaybeExit(TRUE, NoConn, h3)
           /\ UNCHANGED <<terminal, pending>>
  <2>1. exit' = IF ~h3.conn /\ ~h3.reconnect THEN "0" ELSE exit
    BY <1>7, NoConnFields DEF MaybeExit
  <2>2. exit' = "none" => h3.conn
    BY <1>1, <1>7, <2>1 DEF Armed
  <2>3. TunnelTypes'
    BY <1>1, <1>3, <1>7, <2>1 DEF TunnelTypes
  <2>4. Armed'
    BY <1>1, <1>3, <1>7, <2>2 DEF Armed, Running
  <2>5. SocketTypes' /\ QueueOK(pending)'
    BY <1>2, <1>4, <1>7, UdpSet DEF SocketTypes, QueueOK
  <2>6. Owned(ToSet(pending))'
    BY <1>2, <1>4, <1>7, UdpSet DEF Owned
  <2>7. ClosedInv'
    BY <1>2, <1>7, UdpSet DEF ClosedInv
  <2> QED
    BY <1>5, <2>3, <2>4, <2>5, <2>6, <2>7 DEF CInv, TunnelInv, SocketInv
<1>8. CASE /\ ~shutting_down /\ reconnect /\ reconnect_timers' = Backoff(R)
           /\ SetUdp("Unknown")
           /\ tcp' = tcp \ (opens \cup relays)
           /\ UNCHANGED <<terminal, pending, exit>>
  <2>1. reconnect_timers' = {gen}
    BY <1>8 DEF Backoff
  <2>2. TunnelTypes'
    BY <1>1, <1>3, <1>6, <1>8, <2>1 DEF TunnelTypes
  <2>3. Armed'
    BY <1>1, <1>3, <1>6, <1>8, <2>1 DEF Armed
  <2>4. Assocs' = Assocs /\ udp' = "Unknown"
    <3>1. Assocs' = Assocs \ Ended("Unknown") /\ udp' = "Unknown"
      BY <1>2, <1>8, UdpSet
    <3>2. Ended("Unknown") = {}
      BY DEF Ended
    <3> QED
      BY <3>1, <3>2
  <2>5. SocketTypes' /\ QueueOK(pending)'
    BY <1>2, <1>4, <1>8, UdpSet DEF SocketTypes, QueueOK
  <2>6. Owned(ToSet(pending))'
    BY <1>2, <1>4, <1>8, <2>4, UdpSet DEF Owned
  <2>7. ClosedInv'
    BY <1>3, <1>8, <2>4 DEF ClosedInv
  <2> QED
    BY <1>5, <2>2, <2>3, <2>5, <2>6, <2>7 DEF CInv, TunnelInv, SocketInv
<1>9. CASE /\ ~shutting_down /\ ~reconnect /\ reconnect_timers' = R
           /\ terminal' = TRUE
           /\ SetUdp("Unavailable")
           /\ tcp' = tcp \ (opens \cup relays \cup Ended("Unavailable") \cup ToSet(pending))
           /\ pending' = <<>>
           /\ UNCHANGED exit
  <2>1. TunnelTypes'
    BY <1>1, <1>3, <1>9 DEF TunnelTypes
  <2>2. Armed'
    BY <1>3, <1>9 DEF Armed
  <2>3. ToSet(pending') = {} /\ QueueOK(pending')
    BY <1>9, EmptyList, ClientAssumption DEF QueueOK
  <2>4. SocketTypes'
    BY <1>2, <1>4, <1>9, UdpSet DEF SocketTypes
  <2>5. Owned(ToSet(pending))'
    BY <1>2, <1>4, <1>9, <2>3, UdpSet DEF Owned
  <2>6. ClosedInv'
    BY <1>2, <1>4, <1>9, <2>3, UdpSet DEF ClosedInv
  <2> QED
    BY <1>5, <2>1, <2>2, <2>3, <2>4, <2>5, <2>6 DEF CInv, TunnelInv, SocketInv
<1> QED
  BY <1>7, <1>8, <1>9 DEF ConnGone

LEMMA ReconnectDueInv ==
  ASSUME CInv, ReconnectDue
  PROVE  CInv'
<1>1. TunnelTypes /\ AuthTimerIsCurrent /\ Armed
  BY DEF CInv, TunnelInv
<1>2. PICK x \in reconnect_timers :
        \/ /\ gen' = NextGen
           /\ conn' = [NoConn EXCEPT !.id = NextGen]
           /\ reconnect_timers' = reconnect_timers \ {x}
           /\ UNCHANGED <<auth_timers, ingress_timers, pending_timers, life, requests, udpVars,
                          held, accepted>>
        \/ ConnGone(reconnect_timers \ {x})
  BY DEF ReconnectDue
<1>3. conn.id = 0 /\ ~terminal /\ ~shutting_down /\ reconnect_timers \ {x} = {}
  BY <1>1, <1>2 DEF Armed
<1>4. CASE ConnGone(reconnect_timers \ {x})
  BY <1>3, <1>4, ConnGoneInv DEF ReconnectDue
<1>5. CASE /\ gen' = NextGen
           /\ conn' = [NoConn EXCEPT !.id = NextGen]
           /\ reconnect_timers' = reconnect_timers \ {x}
           /\ UNCHANGED <<auth_timers, ingress_timers, pending_timers, life, requests, udpVars,
                          held, accepted>>
  <2>1. NextGen \in 1 .. MaxGen
    BY <1>1, ClientAssumption DEF NextGen, TunnelTypes
  <2>2. NextGen \in 0 .. MaxGen /\ NextGen # 0
    BY <2>1, ClientAssumption
  <2>3. conn' \in Conn /\ conn'.id = NextGen /\ ~conn'.ctrl /\ ~conn'.authed
    BY <1>5, <2>2 DEF NoConn, Conn
  <2>4. auth_timers' = {}
    BY <1>1, <1>3, <1>5 DEF AuthTimerIsCurrent, Armed
  <2>5. /\ reconnect_timers' = {} /\ h3' = h3
        /\ UNCHANGED <<reconnect, terminal, shutting_down, exit>>
    BY <1>3, <1>5 DEF ReconnectDue, life
  <2>6. TunnelTypes' /\ AuthTimerIsCurrent'
    BY <1>1, <1>5, <2>2, <2>3, <2>4, <2>5 DEF TunnelTypes, AuthTimerIsCurrent
  <2>7. Armed'
    BY <1>3, <2>2, <2>3, <2>5 DEF Armed
  <2>8. SocketInv' /\ ClosedInv'
    BY <1>5, SocketFrame DEF SameSockets, life
  <2> QED
    BY <2>6, <2>7, <2>8 DEF CInv, TunnelInv
<1> QED
  BY <1>2, <1>4, <1>5

LEMMA ConnClosedInv ==
  ASSUME CInv, ConnClosed
  PROVE  CInv'
<1>1. ~terminal /\ reconnect_timers = {}
  BY DEF ConnClosed, CInv, TunnelInv, Armed
<1> QED
  BY <1>1, ConnGoneInv DEF ConnClosed

(* The H3 tunnel's steps: only its own state and the exit change. *)
LEMMA H3Inv ==
  ASSUME CInv, H3Established \/ H3Closed \/ H3ReconnectDue
  PROVE  CInv'
<1>1. TunnelTypes /\ AuthTimerIsCurrent /\ Armed /\ Running
  BY DEF CInv, TunnelInv, H3Established, H3Closed, H3ReconnectDue
<1>2. UNCHANGED <<conn, gen, auth_timers, reconnect_timers, reconnect, terminal, shutting_down>>
  BY DEF H3Established, H3Closed, H3ReconnectDue, timers, life
<1>3. SocketInv' /\ ClosedInv'
  <2>1. SameSockets
    BY DEF SameSockets, H3Established, H3Closed, H3ReconnectDue, timers
  <2> QED
    BY <1>2, <2>1, SocketFrame
<1>4. /\ h3' \in [conn : BOOLEAN, up : BOOLEAN, reconnect : BOOLEAN]
      /\ shutting_down => ~h3'.reconnect
      /\ \/ exit' = exit /\ h3'.conn
         \/ exit' = exit /\ ~shutting_down
         \/ exit' = IF shutting_down /\ conn.id = 0 /\ ~h3'.conn /\ ~h3'.reconnect
                    THEN "0" ELSE exit
  <2>1. CASE H3Established
    BY <1>1, <2>1 DEF H3Established, TunnelTypes, MaybeExit
  <2>2. CASE H3Closed
    BY <1>1, <2>2 DEF H3Closed, H3Backoff, TunnelTypes, MaybeExit
  <2>3. CASE H3ReconnectDue
    BY <1>1, <2>3 DEF H3ReconnectDue, TunnelTypes, Armed, life
  <2> QED
    BY <2>1, <2>2, <2>3
<1>5. TunnelTypes'
  BY <1>1, <1>2, <1>4 DEF TunnelTypes
<1>6. AuthTimerIsCurrent'
  BY <1>1, <1>2 DEF AuthTimerIsCurrent
<1>7. exit' = "none" /\ shutting_down => conn.id # 0 \/ h3'.conn
  BY <1>4
<1>8. Armed'
  BY <1>1, <1>2, <1>4, <1>7 DEF Armed, Running
<1> QED
  BY <1>3, <1>5, <1>6, <1>8 DEF CInv, TunnelInv

----------------------------------------------------------------------------
LEMMA StepInv == CInv /\ [Next]_vars => CInv'
<1> SUFFICES ASSUME CInv, [Next]_vars PROVE CInv'
  OBVIOUS
<1>1. CASE Tunnel
  BY <1>1, ReconnectDueInv, ConnClosedInv, EstablishedInv, CtrlFailsInv, AuthRefusedInv,
     AuthOkInv, AuthDueInv, H3Inv, ShutdownInv DEF Tunnel
<1>2. CASE \E t \in Socks : Socket(t)
  BY <1>2, SocketStep
<1>3. CASE UNCHANGED vars
  <2>1. SameTunnel /\ SameSockets /\ terminal' = terminal /\ shutting_down' = shutting_down
    BY <1>3 DEF vars, SameTunnel, SameSockets, timers, life
  <2> QED
    BY <2>1, TunnelFrame, SocketFrame DEF CInv
<1> QED
  BY <1>1, <1>2, <1>3 DEF Next

(* The invariant of client/mod.rs that the two theorems below rest on: the *)
(* maps of the App, the shard's sockets, the timers and the two tunnels    *)
(* agree in every reachable state.                                         *)
THEOREM TunnelInvariant == Spec => []CInv
BY InitInv, StepInv, PTL DEF Spec

(* Every variable of the client keeps its type; in particular the pending  *)
(* queue never exceeds MAX_PENDING (pending.rs, Pending::push).            *)
THEOREM TunnelTypeOK == Spec => []TypeOK
BY TunnelInvariant, InvTypes, PTL

(* Whatever the order of connection events, timers and socket events: an   *)
(* open ingress socket has exactly one owner, Tm::Auth can only close the  *)
(* connection it was armed for, a client without connection has exactly    *)
(* one reconnect armed or is closed, and a closed one admits nothing.      *)
THEOREM TunnelIsSound == Spec => []TunnelSound
BY TunnelInvariant, InvSound, PTL
=============================================================================
