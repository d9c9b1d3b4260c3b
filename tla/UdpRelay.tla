------------------------------ MODULE UdpRelay ------------------------------
(***************************************************************************)
(* UDP sessions end to end over one raw connection at a time: the client's *)
(* associations and sessions (client/udp_assoc.rs, client/udp_session.rs), *)
(* the server's sessions and pre-OPEN buffer (server/udp_session.rs,       *)
(* udp/preopen.rs), the session streams between them and the datagrams,    *)
(* which are lost, delayed and reordered and overtake the OPEN.            *)
(*                                                                         *)
(* Sessions are numbered by k in the order they are made; the code knows   *)
(* only their sid, a wrapping counter.  A datagram is <<sid, k>>, packets  *)
(* of session k, of which more may always arrive: what a session's packets *)
(* hold and how they are cut into fragments is UdpFragments' subject.      *)
(* Each session has one stream, so k also names it.  Time is what the code *)
(* compares it to: a negative cache entry, a parked datagram and an idle   *)
(* session are recent or not.                                              *)
(***************************************************************************)
EXTENDS Integers, Sequences, FiniteSets, SequencesExt, Lists

CONSTANTS
  Assocs,                 \* control sockets of associations
  Targets,
  SidMod,                 \* sids are counted modulo this (2^32 in the code)
  MAX_SESSIONS_PER_CONN,
  MAX_DST_PER_ASSOC,
  PREOPEN_DGRAMS,
  MaxSessions,            \* bound: the sessions ever made
  None                    \* no session

Sids == 0 .. SidMod - 1
Ks == 1 .. MaxSessions

(* Session, at the client and at the server. *)
ClientSession ==
  [k : Ks, assoc : Assocs, target : Targets, phase : {"PendingAuth", "AwaitResp", "Open"}]
ServerSession ==
  [k : Ks, phase : {"Resolving", "Opening", "Live"}, active : BOOLEAN]

ASSUME UdpAssumption ==
  /\ IsFiniteSet(Assocs) /\ IsFiniteSet(Targets)
  /\ SidMod \in Nat \ {0} /\ MAX_SESSIONS_PER_CONN \in 1 .. SidMod
  /\ MAX_DST_PER_ASSOC \in Nat \ {0} /\ PREOPEN_DGRAMS \in Nat \ {0}
  /\ MaxSessions \in Nat /\ None \notin Nat
  /\ None \notin ClientSession /\ None \notin ServerSession

VARIABLES
  \* The client.
  udp,      \* UdpAvail
  closing,  \* Conn::closing: the app closed it, ConnClosed is to come
  assocs,   \* the associations
  dsts,     \* Assoc::dsts: "absent" or [session, failed]
  sess,     \* Sessions::by_sid
  count,    \* next_sid before it is wrapped
  made,     \* history: the count session k was made at
  \* The streams: what is on its way for stream k, and the datagrams.
  c2s, s2c, up, down,  \* what was ever sent may still arrive
  \* The server's side of the connection.
  srv,      \* Conn::udp
  preopen,  \* Conn::preopen, oldest first
  crossed   \* history: <<k, j>>: a packet of k went to the peer of another session j

client == <<udp, closing, assocs, dsts, sess, count, made>>
net == <<c2s, s2c, up, down>>
server == <<srv, preopen>>
vars == <<client, net, server, crossed>>

Absent == [session |-> None, failed |-> FALSE, present |-> FALSE]

Init ==
  /\ udp = "Unknown" /\ closing = FALSE /\ assocs = {}
  /\ dsts = [a \in Assocs |-> [t \in Targets |-> Absent]]
  /\ sess = [sid \in Sids |-> None]
  /\ count = 1 /\ made = <<>>
  /\ c2s = [k \in Ks |-> {}] /\ s2c = [k \in Ks |-> {}]
  /\ up = {} /\ down = {}
  /\ srv = [sid \in Sids |-> None]
  /\ preopen = <<>> /\ crossed = {}

Live == {sid \in Sids : sess[sid] # None}
Issued == {sid \in Live : sess[sid].phase # "PendingAuth"}
Admitted == {sid \in Sids : srv[sid] # None}

(* The stream of k is open at the client (by_stream), at the server. *)
ClientHolds(k) == \E sid \in Issued : sess[sid].k = k
ServerHolds(k) == \E sid \in Admitted : srv[sid].k = k

(* A packet of session k is handed to the peer of session j. *)
Hand(k, j) == IF k = j THEN {} ELSE {<<k, j>>}

----------------------------------------------------------------------------
(* The client's ends.                                                      *)

(* end_session for the sids of D: the entry of the DST stays and a refusal *)
(* marks it; a stream the facade still holds is reset (live).  What was on *)
(* its way to a forgotten stream is lost.                                  *)
ClearDsts(D, refused) ==
  [a \in Assocs |-> [t \in Targets |->
     IF dsts[a][t].session \in D
     THEN [dsts[a][t] EXCEPT !.session = None, !.failed = @ \/ refused]
     ELSE dsts[a][t]]]

StreamsOf(D) == {sess[sid].k : sid \in D \cap Issued}

(* Mutant: an ended session's stream is forgotten without a reset. *)
MutResetStreams(D, live) == c2s

ResetStreams(D, live) ==
  [k \in Ks |-> IF live /\ k \in StreamsOf(D) THEN c2s[k] \cup {"reset"} ELSE c2s[k]]

EndSessions(D, refused, live) ==
  /\ sess' = [sid \in Sids |-> IF sid \in D THEN None ELSE sess[sid]]
  /\ c2s' = ResetStreams(D, live)
  /\ s2c' = [k \in Ks |-> IF k \in StreamsOf(D) THEN {} ELSE s2c[k]]

EndSession(sid, refused, live) ==
  /\ EndSessions({sid}, refused, live)
  /\ dsts' = ClearDsts({sid}, refused)
  /\ UNCHANGED <<udp, closing, assocs, count, made, up, down, server, crossed>>

(* end_assoc for the associations of A. *)
EndAssocs(A) ==
  /\ assocs' = assocs \ A
  /\ dsts' = [a \in Assocs |-> IF a \in A THEN [t \in Targets |-> Absent] ELSE dsts[a]]
  /\ EndSessions({sid \in Live : sess[sid].assoc \in A}, FALSE, TRUE)

(* The control connection of an association ends. *)
EndAssoc(a) ==
  /\ a \in assocs
  /\ EndAssocs({a})
  /\ UNCHANGED <<udp, closing, count, made, up, down, server, crossed>>

(* An ASSOCIATE is served: its socket is open and its source learned. *)
NewAssoc(a) ==
  /\ a \notin assocs /\ udp # "Unavailable"
  /\ assocs' = assocs \cup {a}
  /\ UNCHANGED <<udp, closing, dsts, sess, count, made, net, server, crossed>>

----------------------------------------------------------------------------
(* The client's sessions.                                                  *)

(* session_send: queued while PendingAuth (issue sends what is queued). *)
SessionSend(a, t) ==
  /\ a \in assocs
  /\ \E sid \in Issued :
       /\ dsts[a][t].session = sid
       /\ up' = up \cup {<<sid, sess[sid].k>>}
  /\ UNCHANGED <<client, c2s, s2c, down, server, crossed>>

(* Mutant: the lowest sid that is not live. *)
MutAlloc == CHOOSE n \in Sids \ Live : \A m \in Sids \ Live : n <= m

(* alloc_sid: where the counter finds a sid that is not live. *)
Alloc == CHOOSE n \in count .. count + SidMod :
  /\ n % SidMod \notin Live
  /\ \A m \in count .. n - 1 : m % SidMod \in Live

Present(d) == {t \in Targets : d[t].present}

(* insert_dst: a free entry. *)
Reclaimable(d) == {t \in Present(d) : d[t].session = None /\ ~d[t].failed}

(* insert_dst: the tables with room for t; in a full one any free entry    *)
(* goes, and without one the datagram is dropped.                          *)
WithRoom(d, t) ==
  IF d[t].present \/ Cardinality(Present(d)) < MAX_DST_PER_ASSOC
  THEN {d}
  ELSE {[d EXCEPT ![x] = Absent] : x \in Reclaimable(d)}

NewSession(a, t, phase) ==
  [k |-> Len(made) + 1, assoc |-> a, target |-> t, phase |-> phase]

(* udp_outbound without a session for the DST, neither in the negative     *)
(* cache nor past a limit.  While UDP is Unknown the session waits; when   *)
(* it is Available its stream opens, the OPEN is written and the datagram  *)
(* follows at once; a failure of either ends the session.                  *)
Outbound(a, t) ==
  LET n == Alloc
      sid == n % SidMod
      k == Len(made) + 1
      entry(s) == [session |-> s, failed |-> FALSE, present |-> TRUE]
  IN  /\ a \in assocs
      /\ k \in Ks
      /\ dsts[a][t].session = None /\ ~dsts[a][t].failed
      /\ Cardinality(Live) < MAX_SESSIONS_PER_CONN
      /\ count' = n + 1
      /\ made' = Append(made, n)
      /\ \E d \in WithRoom(dsts[a], t) :
           \/ /\ udp = "Unknown"
              /\ sess' = [sess EXCEPT ![sid] = NewSession(a, t, "PendingAuth")]
              /\ dsts' = [dsts EXCEPT ![a] = [d EXCEPT ![t] = entry(sid)]]
              /\ UNCHANGED net
           \/ /\ udp = "Available"
              /\ sess' = [sess EXCEPT ![sid] = NewSession(a, t, "AwaitResp")]
              /\ dsts' = [dsts EXCEPT ![a] = [d EXCEPT ![t] = entry(sid)]]
              /\ c2s' = [c2s EXCEPT ![k] = {"open"}]
              /\ up' = up \cup {<<sid, k>>}
              /\ UNCHANGED <<s2c, down>>
           \/ /\ udp = "Available"
              /\ dsts' = [dsts EXCEPT ![a] = [d EXCEPT ![t] = entry(None)]]
              /\ UNCHANGED <<sess, net>>
      /\ UNCHANGED <<udp, closing, assocs, server, crossed>>

(* Mutant: only the first of the waiting sessions is issued. *)
MutWaiting == {sid \in Live \ Issued : \A x \in Live \ Issued : sid <= x}

Waiting == Live \ Issued

(* ctrl_readable, the server relays UDP: set_udp(Available), the control   *)
(* stream is drained, then udp_available: every waiting session is issued, *)
(* its queue sent; one that fails (F) ends and the others go on.           *)
Available ==
  /\ udp = "Unknown"
  /\ udp' = "Available"
  /\ UNCHANGED closing
  /\ \E F \in SUBSET Waiting :
       LET good == Waiting \ F
           ks == {sess[sid].k : sid \in good}
       IN  /\ sess' = [sid \in Sids |->
                         CASE sid \in F -> None
                           [] sid \in good -> [sess[sid] EXCEPT !.phase = "AwaitResp"]
                           [] OTHER -> sess[sid]]
           /\ dsts' = ClearDsts(F, FALSE)
           /\ c2s' = [k \in Ks |-> IF k \in ks THEN {"open"} ELSE c2s[k]]
           /\ up' = up \cup {<<sid, sess[sid].k>> : sid \in good}
  /\ UNCHANGED <<assocs, count, made, s2c, down, server, crossed>>

(* The same, with a reset behind the answer: the drain fails, the          *)
(* connection is closed and udp_available is not reached.                  *)
AvailableBroken ==
  /\ udp = "Unknown"
  /\ udp' = "Available" /\ closing' = TRUE
  /\ UNCHANGED <<assocs, dsts, sess, count, made, net, server, crossed>>

(* set_udp(Unavailable): the server does not relay UDP, or refused, which  *)
(* closes the connection, as a failing drain does.                         *)
Unavailable ==
  /\ udp = "Unknown"
  /\ udp' = "Unavailable" /\ closing' \in {closing, TRUE}
  /\ EndAssocs(assocs)
  /\ UNCHANGED <<count, made, up, down, server, crossed>>

(* close: the control stream fails, or AUTH is not answered in time.  The  *)
(* sessions stay until ConnClosed, and an answer may still be read.        *)
CloseConn ==
  /\ ~closing
  /\ closing' = TRUE
  /\ UNCHANGED <<udp, assocs, dsts, sess, count, made, net, server, crossed>>

(* udp_conn_gone, set_udp(Unknown): a connection or an attempt ends; every *)
(* session ends, the waiting ones too, and associations stay.  The server  *)
(* reaps its side, and datagrams do not outlive their connection.          *)
ConnGone ==
  /\ udp' = "Unknown" /\ closing' = FALSE
  /\ sess' = [sid \in Sids |-> None]
  /\ dsts' = ClearDsts(Live, FALSE)
  /\ c2s' = [k \in Ks |-> {}] /\ s2c' = [k \in Ks |-> {}]
  /\ up' = {} /\ down' = {}
  /\ srv' = [sid \in Sids |-> None]
  /\ preopen' = <<>>
  /\ UNCHANGED <<assocs, count, made, crossed>>

(* session_readable: a RESP OK opens the session, an error refuses it and  *)
(* its stream is reset, a reset closes it.                                 *)
RespOk(sid) ==
  /\ sid \in Issued /\ "ok" \in s2c[sess[sid].k]
  /\ sess' = [sess EXCEPT ![sid].phase = "Open"]
  /\ s2c' = [s2c EXCEPT ![sess[sid].k] = @ \ {"ok"}]
  /\ UNCHANGED <<udp, closing, assocs, dsts, count, made, c2s, up, down, server, crossed>>

RespError(sid) ==
  /\ sid \in Issued /\ "error" \in s2c[sess[sid].k]
  /\ EndSession(sid, TRUE, TRUE)

ServerReset(sid) ==
  /\ sid \in Issued /\ "reset" \in s2c[sess[sid].k]
  /\ EndSession(sid, FALSE, FALSE)

(* Tm::UdpResp: no RESP in time; session_writable: the OPEN cannot be      *)
(* written.                                                                *)
RespTimeout(sid) ==
  /\ sid \in Issued /\ sess[sid].phase = "AwaitResp"
  /\ EndSession(sid, FALSE, TRUE)

(* NEG_CACHE has passed since the refusal. *)
NegCacheExpires(a, t) ==
  /\ dsts[a][t].failed
  /\ dsts' = [dsts EXCEPT ![a][t].failed = FALSE]
  /\ UNCHANGED <<udp, closing, assocs, sess, count, made, net, server, crossed>>

(* deliver: a packet of a live sid goes to its association. *)
Deliver(m) ==
  /\ m \in down
  /\ crossed' = IF m[1] \in Live THEN crossed \cup Hand(m[2], sess[m[1]].k) ELSE crossed
  /\ UNCHANGED <<client, net, server>>

----------------------------------------------------------------------------
(* The server.                                                             *)

(* Answer m on stream k, if the client still has it. *)
Answer(k, m) ==
  IF ClientHolds(k) THEN [s2c EXCEPT ![k] = @ \cup {m}] ELSE s2c

(* PreOpen::discard. *)
Discard(sid) == Filter(preopen, {e \in Range(preopen) : e.sid # sid})

(* take_session; the stream then retires with an error RESP (refuse) or    *)
(* is reset (drop_data, end_session).                                      *)
TakeSession(sid, m) ==
  /\ srv' = [srv EXCEPT ![sid] = None]
  /\ preopen' = Discard(sid)
  /\ s2c' = Answer(srv[sid].k, m)
  /\ UNCHANGED crossed

(* udp_open: a duplicate sid resets the stream and keeps the session; past *)
(* the limit, or for a target that cannot be resolved, an error RESP; else *)
(* the session is admitted.  A stream whose request is malformed, late or  *)
(* past the budget is reset.                                               *)
UdpOpen(k) ==
  LET sid == made[k] % SidMod
  IN  /\ k \in DOMAIN made /\ "open" \in c2s[k]
      /\ c2s' = [c2s EXCEPT ![k] = @ \ {"open"}]
      /\ \/ /\ sid \in Admitted
            /\ s2c' = Answer(k, "reset") /\ UNCHANGED srv
         \/ /\ sid \notin Admitted
            /\ s2c' = Answer(k, "error") /\ UNCHANGED srv
         \/ s2c' = Answer(k, "reset") /\ UNCHANGED srv
         \/ /\ sid \notin Admitted
            /\ Cardinality(Admitted) < MAX_SESSIONS_PER_CONN
            /\ srv' = [srv EXCEPT ![sid] =
                         [k |-> k, phase |-> "Resolving", active |-> FALSE]]
            /\ UNCHANGED s2c
      /\ UNCHANGED <<client, up, down, preopen, crossed>>

(* data_readable: the client reset the stream. *)
ClientReset(k) ==
  /\ "reset" \in c2s[k]
  /\ c2s' = [c2s EXCEPT ![k] = {}]
  /\ \/ \E sid \in Admitted : srv[sid].k = k /\ TakeSession(sid, "reset")
     \/ ~ServerHolds(k) /\ UNCHANGED <<server, s2c, crossed>>
  /\ UNCHANGED <<client, up, down>>

(* udp_resolved. *)
UdpResolved(sid) ==
  /\ sid \in Admitted /\ srv[sid].phase = "Resolving"
  /\ \/ /\ srv' = [srv EXCEPT ![sid].phase = "Opening"]
        /\ UNCHANGED <<preopen, s2c, crossed>>
     \/ TakeSession(sid, "error")
  /\ UNCHANGED <<client, c2s, up, down>>

(* PreOpen::take: what it leaves parked. *)
Rest(sid) == Filter(preopen, {e \in Range(preopen) : e.sid # sid})

(* PreOpen::take: the packets that are not too old. *)
Taken(sid) == {e.k : e \in {x \in Range(preopen) : x.sid = sid /\ ~x.old}}

(* udp_socket: Live, the idle timer set, RESP OK and the parked datagrams; *)
(* a RESP that cannot be sent ends the session.  The flushed packets bear  *)
(* the time the timer was set at: they are no later activity.              *)
UdpSocket(sid) ==
  /\ sid \in Admitted /\ srv[sid].phase = "Opening"
  /\ \/ /\ srv' = [srv EXCEPT ![sid].phase = "Live"]
        /\ s2c' = Answer(srv[sid].k, "ok")
        /\ preopen' = Rest(sid)
        /\ crossed' = crossed \cup UNION {Hand(k, srv[sid].k) : k \in Taken(sid)}
     \/ TakeSession(sid, "error")
     \/ TakeSession(sid, "reset")
  /\ UNCHANGED <<client, c2s, up, down>>

(* PreOpen::push: what is too old is swept, then the oldest go. *)
Push(m) ==
  LET kept == Filter(preopen, {e \in Range(preopen) : ~e.old})
      room == IF Len(kept) < PREOPEN_DGRAMS THEN kept ELSE Tail(kept)
  IN  Append(room, [sid |-> m[1], k |-> m[2], old |-> FALSE])

(* udp_deliver: to the target of a Live session, else to the pre-OPEN      *)
(* buffer.  A send that fails is no activity.                              *)
UdpDeliver(m) ==
  /\ m \in up
  /\ \/ /\ m[1] \in Admitted /\ srv[m[1]].phase = "Live"
        /\ \/ /\ crossed' = crossed \cup Hand(m[2], srv[m[1]].k)
              /\ srv' = [srv EXCEPT ![m[1]].active = TRUE]
           \/ UNCHANGED <<crossed, srv>>
        /\ UNCHANGED preopen
     \/ /\ m[1] \in Admitted => srv[m[1]].phase # "Live"
        /\ preopen' = Push(m)
        /\ UNCHANGED <<crossed, srv>>
  /\ UNCHANGED <<client, net>>

(* PREOPEN_TTL has passed since the oldest of the recent was parked. *)
PreopenAges ==
  /\ \E i \in DOMAIN preopen :
       /\ ~preopen[i].old /\ \A j \in 1 .. i - 1 : preopen[j].old
       /\ preopen' = [preopen EXCEPT ![i].old = TRUE]
  /\ UNCHANGED <<client, net, srv, crossed>>

(* udp_reply: a packet from the session's target. *)
UdpReply(sid) ==
  /\ sid \in Admitted /\ srv[sid].phase = "Live"
  /\ down' = down \cup {<<sid, srv[sid].k>>}
  /\ srv' = [srv EXCEPT ![sid].active = TRUE]
  /\ UNCHANGED <<client, c2s, s2c, up, preopen, crossed>>

(* Tm::UdpIdle: activity since the timer was set re-arms it for the rest,  *)
(* none ends the session.                                                  *)
UdpIdle(sid) ==
  /\ sid \in Admitted /\ srv[sid].phase = "Live"
  /\ \/ /\ srv[sid].active
        /\ srv' = [srv EXCEPT ![sid].active = FALSE]
        /\ UNCHANGED <<preopen, s2c, crossed>>
     \/ /\ ~srv[sid].active
        /\ TakeSession(sid, "reset")
  /\ UNCHANGED <<client, c2s, up, down>>

----------------------------------------------------------------------------
(* A connection attempt comes to an end. *)
Attempt ==
  /\ udp = "Unknown"
  /\ Available \/ AvailableBroken \/ Unavailable \/ ConnGone

StreamStep(sid) == RespOk(sid) \/ RespError(sid) \/ ServerReset(sid)

Next ==
  \/ Attempt \/ (udp # "Unknown" /\ ConnGone) \/ CloseConn
  \/ \E a \in Assocs : NewAssoc(a) \/ EndAssoc(a)
  \/ \E a \in Assocs, t \in Targets :
       SessionSend(a, t) \/ Outbound(a, t) \/ NegCacheExpires(a, t)
  \/ \E sid \in Sids : StreamStep(sid) \/ RespTimeout(sid)
  \/ \E m \in down : Deliver(m)
  \/ \E k \in Ks : UdpOpen(k) \/ ClientReset(k)
  \/ \E sid \in Sids :
       UdpResolved(sid) \/ UdpSocket(sid) \/ UdpReply(sid) \/ UdpIdle(sid)
  \/ \E m \in up : UdpDeliver(m)
  \/ PreopenAges

Spec == Init /\ [][Next]_vars

(* A connection attempt ends (its timers), a connection that was closed    *)
(* gets its ConnClosed, and while the connection lasts what a stream       *)
(* carries arrives and the RESP deadline fires.  Nothing is assumed of     *)
(* datagrams, resolves, the applications or the targets.                   *)
Fairness ==
  /\ WF_vars(Attempt) /\ WF_vars(closing /\ ConnGone)
  /\ \A sid \in Sids : WF_vars(~closing /\ (StreamStep(sid) \/ RespTimeout(sid)))
  /\ \A k \in Ks : WF_vars(~closing /\ (UdpOpen(k) \/ ClientReset(k)))

FairSpec == Spec /\ Fairness

----------------------------------------------------------------------------
(* The values of the state; both session tables keep to their limit, every *)
(* association to its DSTs and the pre-OPEN buffer to its length.          *)
TypeOK ==
  /\ udp \in {"Unknown", "Available", "Unavailable"} /\ closing \in BOOLEAN
  /\ assocs \subseteq Assocs
  /\ dsts \in [Assocs -> [Targets ->
        [session : Sids \cup {None}, failed : BOOLEAN, present : BOOLEAN]]]
  /\ sess \in [Sids -> ClientSession \cup {None}]
  /\ srv \in [Sids -> ServerSession \cup {None}]
  /\ c2s \in [Ks -> SUBSET {"open", "reset"}]
  /\ s2c \in [Ks -> SUBSET {"ok", "error", "reset"}]
  /\ Cardinality(Live) <= MAX_SESSIONS_PER_CONN
  /\ Cardinality(Admitted) <= MAX_SESSIONS_PER_CONN
  /\ \A a \in Assocs : Cardinality(Present(dsts[a])) <= MAX_DST_PER_ASSOC
  /\ Len(preopen) <= PREOPEN_DGRAMS

(* The client's two tables mirror each other: a session belongs to a DST   *)
(* of a live association that names it, and the session a DST names is the *)
(* one made for it.  A wrong entry sends an application's packets into     *)
(* another's session.                                                      *)
SessionsMirrorDsts ==
  /\ \A sid \in Live :
       /\ sess[sid].assoc \in assocs
       /\ dsts[sess[sid].assoc][sess[sid].target].session = sid
  /\ \A a \in Assocs, t \in Targets :
       LET sid == dsts[a][t].session
       IN  sid # None => sid \in Live /\ sess[sid].assoc = a /\ sess[sid].target = t

(* A session waits for authentication only while UDP is Unknown: none is   *)
(* left waiting on a connection that relays UDP, but for one the app is    *)
(* closing, and none outlives the connection it was issued on.             *)
NoneLeftWaiting ==
  \A sid \in Live :
    IF sess[sid].phase = "PendingAuth"
    THEN udp = "Unknown" \/ (udp = "Available" /\ closing)
    ELSE udp = "Available"

(* Once nothing is on its way on a session's stream, both ends agree on    *)
(* it: neither holds it, or both do and it is Open at the client iff it is *)
(* Live at the server.  Timeouts, refusals, idle expiry, duplicate sids    *)
(* and resets that cross all keep to it.                                   *)
EndsAgree ==
  \A k \in DOMAIN made :
    c2s[k] = {} /\ s2c[k] = {} =>
      /\ ClientHolds(k) <=> ServerHolds(k)
      /\ \A sid \in Issued :
           sess[sid].k = k =>
             (sess[sid].phase = "Open" <=> srv[sid].phase = "Live")

(* Nothing is parked for a session that is Live: a datagram that overtook  *)
(* the OPEN is sent before every later one, or never.                      *)
NothingParkedWhenLive ==
  \A i \in DOMAIN preopen :
    preopen[i].sid \in Admitted => srv[preopen[i].sid].phase # "Live"

(* A late datagram of an ended session reaches the peer of another session *)
(* only when the sid counter has gone round in between: neither the pre-   *)
(* OPEN buffer nor the tables compare more than the sid.                   *)
CrossedOnlyAcrossWrap ==
  \A x \in crossed : LET d == made[x[1]] - made[x[2]]
                    IN  d >= SidMod \/ -d >= SidMod

(* The client's tables mirror each other and keep to their limits, a session*)
(* waits only while the answer to AUTH is unknown or the connection is      *)
(* being closed, and nothing stays parked for a session that lives.         *)
SessionMaps == TypeOK /\ SessionsMirrorDsts /\ NoneLeftWaiting /\ NothingParkedWhenLive

(* Once nothing of a session is on its way both ends agree on it, and a     *)
(* datagram reaches another session's peer only once its sid came round.    *)
SessionEnds == EndsAgree /\ CrossedOnlyAcrossWrap

(* Session k waits at the client, or only one end has it. *)
Unsettled(k) ==
  \/ \E sid \in Live : sess[sid].k = k /\ (sess[sid].phase # "Open" \/ ~ServerHolds(k))
  \/ ServerHolds(k) /\ ~ClientHolds(k)

(* A session that waits for authentication or for its RESP is answered or  *)
(* ended, and one that an end has dropped is dropped by the other, though  *)
(* its target goes on sending.                                             *)
SessionsSettle == \A k \in Ks : Unsettled(k) ~> ~Unsettled(k)

=============================================================================
