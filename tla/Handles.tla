------------------------------ MODULE Handles -------------------------------
(***************************************************************************)
(* The handles of the transport facade: connections and streams of xquic   *)
(* live behind generational slots, whose ids are the user data of every    *)
(* callback and the names the application knows; callbacks queue events,   *)
(* level ones at most once, and the application polls them later, when the *)
(* object may be gone.  One engine may exist on a thread.                  *)
(*                                                                         *)
(* Sources: mq-transport slots.rs, events.rs, lib.rs, stream.rs, conn.rs,  *)
(* datagram.rs, engine.rs, clock.rs, ffi/trampolines.rs.                   *)
(***************************************************************************)
EXTENDS Integers, Sequences, FiniteSets

CONSTANTS
  ConnSlots, StreamSlots,  \* slot indexes
  Objs,                    \* stream objects of xquic
  STREAM_CEILING,
  MaxGen, MaxQueue         \* bounds: generations of a slot, queued events

VARIABLES
  c,    \* connection slots: generation, value
  s,    \* stream slots
  x,    \* xquic's stream objects
  q,    \* the event queue
  app   \* what the application knows, and the engine of the thread

hvars == <<c, s, x, q, app>>

NoId == <<0, 0>>
NoConn == [on |-> FALSE, bound |-> FALSE, h3 |-> FALSE, streams |-> 0, pending |-> FALSE, closed_locally |-> FALSE,
           mp |-> FALSE, dg |-> FALSE, ring |-> 0, err |-> FALSE, by |-> "nobody"]
NoStream == [on |-> FALSE, conn |-> NoId, xqc |-> FALSE, rq |-> FALSE, wq |-> FALSE, abandoned |-> FALSE,
             reset |-> FALSE, stop |-> FALSE]
NoObj == [on |-> FALSE, ud |-> NoId, conn |-> NoId, data |-> FALSE]

HInit ==
  /\ c = [i \in ConnSlots |-> [gen |-> 1, v |-> NoConn]]
  /\ s = [i \in StreamSlots |-> [gen |-> 1, v |-> NoStream]]
  /\ x = [o \in Objs |-> NoObj]
  /\ q = <<>>
  /\ app = [engine |-> FALSE, claimed |-> FALSE, open |-> {}, closed |-> {}, told |-> {}, late |-> FALSE]

-----------------------------------------------------------------------------
(* Slots *)

Live(t, id) == id[1] \in DOMAIN t /\ t[id[1]].gen = id[2] /\ t[id[1]].v.on
Get(t, id) == t[id[1]].v
Put(t, id, v) == [t EXCEPT ![id[1]].v = v]
Vacant(t) == {<<i, t[i].gen>> : i \in {j \in DOMAIN t : ~t[j].v.on /\ t[j].gen <= MaxGen}}

(* remove: the generation moves on, and with it every id. *)
Remove(t, id) == [t EXCEPT ![id[1]].gen = @ + 1, ![id[1]].v.on = FALSE]

-----------------------------------------------------------------------------
(* Events *)

Event(e, id) == [e |-> e, id |-> id]
Room == app.engine /\ Len(q) < MaxQueue
ObjOf(id) == CHOOSE o \in Objs : x[o].on /\ x[o].ud = id

(* push_readable, push_writable: live, not abandoned, not queued. *)
PushReadable(id) ==
  LET v == Get(s, id)
  IN IF Live(s, id) /\ ~v.abandoned /\ ~v.rq
     THEN s' = Put(s, id, [v EXCEPT !.rq = TRUE]) /\ q' = Append(q, Event("readable", id))
     ELSE UNCHANGED <<s, q>>

PushWritable(id) ==
  LET v == Get(s, id)
  IN IF Live(s, id) /\ ~v.abandoned /\ ~v.wq
     THEN s' = Put(s, id, [v EXCEPT !.wq = TRUE]) /\ q' = Append(q, Event("writable", id))
     ELSE UNCHANGED <<s, q>>

(* pop: the level flag of the event is cleared. *)
Popped(e) ==
  /\ s' = IF e.e \in {"readable", "writable"} /\ Live(s, e.id)
          THEN Put(s, e.id, IF e.e = "readable" THEN [Get(s, e.id) EXCEPT !.rq = FALSE]
                            ELSE [Get(s, e.id) EXCEPT !.wq = FALSE])
          ELSE s
  /\ c' = IF e.e \in {"mp_ready", "datagram"} /\ Live(c, e.id)
          THEN Put(c, e.id, IF e.e = "mp_ready" THEN [Get(c, e.id) EXCEPT !.mp = FALSE]
                            ELSE [Get(c, e.id) EXCEPT !.dg = FALSE])
          ELSE c

OnConn == {"new_conn", "conn_event", "mp_ready", "datagram"}
OnStream == {"new_stream", "readable", "writable", "peer_reset", "stop_sending"}

(* poll_event: what is stale is dropped, but for the last word on an id.   *)
Deliverable(e) ==
  /\ e.e \in OnConn => Live(c, e.id)
  /\ e.e \in OnStream => Live(s, e.id)

(* The application, told. *)
Hears(e) ==
  LET a == [app EXCEPT !.late = @ \/ <<e.e \in OnStream \cup {"stream_closed"}, e.id>> \in app.closed]
      key == <<e.e \in OnStream \cup {"stream_closed"}, e.id>>
  IN CASE e.e \in {"new_stream", "new_conn"} -> [a EXCEPT !.open = @ \cup {key}]
       [] e.e \in {"stream_closed", "conn_closed"} ->
            [a EXCEPT !.open = @ \ {key}, !.closed = @ \cup {key}, !.told = @ \ {e.id}]
       [] e.e = "readable" -> [a EXCEPT !.told = @ \cup {e.id}]
       [] OTHER -> a

PollEvent ==
  /\ app.engine /\ q # <<>>
  /\ q' = Tail(q)
  /\ Popped(Head(q))
  /\ app' = IF Deliverable(Head(q)) THEN Hears(Head(q)) ELSE app
  /\ UNCHANGED x

-----------------------------------------------------------------------------
(* Connections *)

(* connect: the slot before the call; it may fail with the slot released   *)
(* by a close notification inside, or not.  server_accept and the create   *)
(* notification: ConnAdmission.                                            *)
Connect ==
  /\ Room
  /\ \E id \in Vacant(c), h3 \in BOOLEAN :
       LET v == [NoConn EXCEPT !.on = TRUE, !.bound = TRUE, !.h3 = h3]
       IN \/ c' = Put(c, id, v) /\ app' = [app EXCEPT !.open = @ \cup {<<FALSE, id>>}] /\ UNCHANGED q
          \/ c' = Remove(Put(c, id, v), id) /\ UNCHANGED app /\ q' = Append(q, Event("conn_closed", id))
          \/ c' = Remove(Put(c, id, v), id) /\ UNCHANGED <<app, q>>
  /\ UNCHANGED <<s, x>>

Accept ==
  /\ Room
  /\ \E id \in Vacant(c), h3 \in BOOLEAN :
       /\ c' = Put(c, id, [NoConn EXCEPT !.on = TRUE, !.bound = TRUE, !.h3 = h3])
       /\ q' = Append(q, Event("new_conn", id))
  /\ UNCHANGED <<s, x, app>>

ConnIds == {<<i, c[i].gen>> : i \in {j \in ConnSlots : c[j].v.on}}
StreamIds == {<<i, s[i].gen>> : i \in {j \in StreamSlots : s[j].v.on}}

(* Path ids available; handshake finished or path removed (conn_event).   *)
ConnNotify ==
  /\ Room
  /\ \E id \in ConnIds :
       \/ /\ ~Get(c, id).mp
          /\ c' = Put(c, id, [Get(c, id) EXCEPT !.mp = TRUE]) /\ q' = Append(q, Event("mp_ready", id))
       \/ q' = Append(q, Event("conn_event", id)) /\ UNCHANGED c
  /\ UNCHANGED <<s, x, app>>

(* on_datagram_read: the ring, or a drop; datagram_recv. *)
DatagramRead ==
  /\ Room
  /\ \E id \in ConnIds :
       LET v == Get(c, id)
       IN /\ v.ring = 0
          /\ c' = Put(c, id, [v EXCEPT !.ring = 1, !.dg = TRUE])
          /\ q' = IF v.dg THEN q ELSE Append(q, Event("datagram", id))
  /\ UNCHANGED <<s, x, app>>

DatagramRecv ==
  /\ app.engine
  /\ \E id \in ConnIds : Get(c, id).ring > 0 /\ c' = Put(c, id, [Get(c, id) EXCEPT !.ring = 0])
  /\ UNCHANGED <<s, x, q, app>>

(* mark_closed_locally, unless the peer's close came first. *)
ClosedLocally(v) == [v EXCEPT !.closed_locally = @ \/ ~v.err,
                              !.by = IF @ = "nobody" THEN "us" ELSE @]

(* close_conn, close_conn_with *)
CloseConn ==
  /\ app.engine
  /\ \E id \in ConnIds : <<FALSE, id>> \in app.open /\ c' = Put(c, id, ClosedLocally(Get(c, id)))
  /\ UNCHANGED <<s, x, q, app>>

(* A CONNECTION_CLOSE of the peer. *)
PeerCloses ==
  /\ app.engine
  /\ \E id \in ConnIds :
       c' = Put(c, id, [Get(c, id) EXCEPT !.err = TRUE, !.by = IF @ = "nobody" THEN "peer" ELSE @])
  /\ UNCHANGED <<s, x, q, app>>

(* drive: the deferred closes. *)
Drive ==
  /\ app.engine
  /\ \E id \in ConnIds :
       /\ Get(c, id).pending
       /\ c' = Put(c, id, [ClosedLocally(Get(c, id)) EXCEPT !.pending = FALSE])
  /\ UNCHANGED <<s, x, q, app>>

(* on_conn_close: after the streams of the connection. *)
ConnCloseNotify ==
  /\ Room
  /\ \E id \in ConnIds :
       /\ \A o \in Objs : ~(x[o].on /\ x[o].conn = id)
       /\ c' = Remove(c, id)
       /\ q' = Append(q, Event("conn_closed", id))
  /\ UNCHANGED <<s, x, app>>

-----------------------------------------------------------------------------
(* Streams *)

FreeObj == {o \in Objs : ~x[o].on}
Counted(id, n) == Put(c, id, [Get(c, id) EXCEPT !.streams = @ + n])

(* open_stream, open_uni: reserved and counted, then created; undone if    *)
(* xquic fails; or closed inside the call, whose notification undid it.    *)
OpenStream ==
  /\ Room
  /\ \E id \in ConnIds, sid \in Vacant(s) :
       /\ Get(c, id).streams < STREAM_CEILING
       /\ \/ \E o \in FreeObj :
               /\ x' = [x EXCEPT ![o] = [on |-> TRUE, ud |-> sid, conn |-> id, data |-> FALSE]]
               /\ s' = Put(s, sid, [NoStream EXCEPT !.on = TRUE, !.conn = id, !.xqc = TRUE])
               /\ c' = Counted(id, 1)
               /\ app' = [app EXCEPT !.open = @ \cup {<<TRUE, sid>>}] /\ UNCHANGED q
          \/ /\ s' = Remove(Put(s, sid, [NoStream EXCEPT !.on = TRUE]), sid)
             /\ q' \in {q, Append(q, Event("stream_closed", sid))}
             /\ UNCHANGED <<c, x, app>>

(* on_peer_stream_create: over the ceiling the object is left without a    *)
(* slot, and the connection is to be closed.                               *)
PeerStream ==
  /\ Room
  /\ \E id \in ConnIds, o \in FreeObj :
       LET v == Get(c, id)
       IN \/ /\ v.streams >= STREAM_CEILING
             /\ c' = Put(c, id, [v EXCEPT !.pending = TRUE])
             /\ x' = [x EXCEPT ![o] = [on |-> TRUE, ud |-> NoId, conn |-> id, data |-> FALSE]]
             /\ UNCHANGED <<s, q>>
          \/ /\ v.streams < STREAM_CEILING
             /\ \E sid \in Vacant(s) :
                  /\ c' = Counted(id, 1)
                  /\ s' = Put(s, sid, [NoStream EXCEPT !.on = TRUE, !.conn = id, !.xqc = TRUE])
                  /\ x' = [x EXCEPT ![o] = [on |-> TRUE, ud |-> sid, conn |-> id, data |-> FALSE]]
                  /\ q' = Append(q, Event("new_stream", sid))
  /\ UNCHANGED app

(* Mutant: an abandoned stream is left unread. *)
DrainNothing(o) == [x EXCEPT ![o].data = TRUE]

(* drain: what an abandoned stream receives is read and dropped. *)
Drain(o) == [x EXCEPT ![o].data = FALSE]

(* stream_read_notify *)
ReadNotify ==
  /\ Room
  /\ \E o \in Objs :
       /\ x[o].on
       /\ LET id == x[o].ud
          IN IF id = NoId THEN UNCHANGED <<s, x, q>>
             ELSE IF Get(s, id).abandoned THEN x' = Drain(o) /\ UNCHANGED <<s, q>>
             ELSE x' = [x EXCEPT ![o].data = TRUE] /\ PushReadable(id)
  /\ UNCHANGED <<c, app>>

WriteNotify ==
  /\ Room
  /\ \E o \in Objs : x[o].on /\ x[o].ud # NoId /\ PushWritable(x[o].ud)
  /\ UNCHANGED <<c, x, app>>

(* on_peer_abort: once for each kind, on H3 connections only. *)
PeerAbort ==
  /\ Room
  /\ \E o \in Objs :
       LET id == x[o].ud
           v == Get(s, id)
       IN /\ x[o].on /\ id # NoId /\ Get(c, v.conn).h3
          /\ \/ ~v.reset /\ s' = Put(s, id, [v EXCEPT !.reset = TRUE]) /\ q' = Append(q, Event("peer_reset", id))
             \/ ~v.stop /\ s' = Put(s, id, [v EXCEPT !.stop = TRUE]) /\ q' = Append(q, Event("stop_sending", id))
  /\ UNCHANGED <<c, x, app>>

(* stream_recv: the application reads what it was told of. *)
StreamRecv ==
  /\ app.engine
  /\ \E id \in app.told :
       /\ app' = [app EXCEPT !.told = @ \ {id}]
       /\ x' = IF Live(s, id) THEN [x EXCEPT ![ObjOf(id)].data = FALSE] ELSE x
  /\ UNCHANGED <<c, s, q>>

Release(id) ==
  /\ s' = Remove(s, id)
  /\ c' = IF Live(c, Get(s, id).conn) THEN Counted(Get(s, id).conn, -1) ELSE c

(* stream_close_notify, on_stream_close *)
StreamCloseNotify ==
  /\ Room
  /\ \E o \in Objs :
       /\ x[o].on
       /\ x' = [x EXCEPT ![o] = NoObj]
       /\ IF x[o].ud = NoId THEN UNCHANGED <<c, s, q>>
          ELSE Release(x[o].ud) /\ q' = Append(q, Event("stream_closed", x[o].ud))
  /\ UNCHANGED app

(* stream_reset: xquic may close the stream inside the call; if not, it is *)
(* abandoned and drained.                                                  *)
StreamReset ==
  /\ Room
  /\ \E id \in StreamIds :
       /\ <<TRUE, id>> \in app.open
       /\ LET o == ObjOf(id)
          IN \/ /\ Release(id) /\ x' = [x EXCEPT ![o] = NoObj]
                /\ q' = Append(q, Event("stream_closed", id))
             \/ /\ s' = Put(s, id, [Get(s, id) EXCEPT !.abandoned = TRUE])
                /\ x' = Drain(o) /\ UNCHANGED <<c, q>>
  /\ UNCHANGED app

-----------------------------------------------------------------------------
(* The engine *)

(* new, failing: before the transport is built, or by dropping it. *)
Failed == [app EXCEPT !.claimed = FALSE]

(* Transport::new: one to a thread; a bad ALPN, qlog, certificate or       *)
(* engine fails.                                                           *)
New ==
  /\ ~app.claimed
  /\ app' \in {Failed, [app EXCEPT !.claimed = TRUE, !.engine = TRUE]}
  /\ UNCHANGED <<c, s, x, q>>

(* close, or drop: the engine's destruction notifies every close into an   *)
(* Inner that goes with it.                                                *)
Close ==
  /\ app.engine
  /\ c' = [i \in ConnSlots |-> [gen |-> 1, v |-> NoConn]]
  /\ s' = [i \in StreamSlots |-> [gen |-> 1, v |-> NoStream]]
  /\ x' = [o \in Objs |-> NoObj]
  /\ q' = <<>>
  /\ app' = [app EXCEPT !.engine = FALSE, !.claimed = FALSE, !.open = {}, !.closed = {}, !.told = {}]

HNext ==
  \/ PollEvent \/ Connect \/ Accept \/ ConnNotify \/ DatagramRead \/ DatagramRecv \/ CloseConn \/ PeerCloses
  \/ Drive \/ ConnCloseNotify \/ OpenStream \/ PeerStream \/ ReadNotify \/ WriteNotify \/ PeerAbort \/ StreamRecv
  \/ StreamCloseNotify \/ StreamReset \/ New \/ Close

HSpec == HInit /\ [][HNext]_hvars

-----------------------------------------------------------------------------
(* Properties *)

Queued(e, id) == Cardinality({i \in DOMAIN q : q[i] = Event(e, id)})
Once(flag) == IF flag THEN 1 ELSE 0

(* The pointer of a live slot is a live object, of its connection, and an  *)
(* object's user data is its live slot: what every unsafe block relies on. *)
PointersValid ==
  /\ \A id \in StreamIds :
       /\ Cardinality({o \in Objs : x[o].on /\ x[o].ud = id}) = 1
       /\ x[ObjOf(id)].conn = Get(s, id).conn /\ Live(c, Get(s, id).conn)
  /\ \A o \in Objs : x[o].on /\ x[o].ud # NoId => Live(s, x[o].ud)

(* The ceiling counts what there is. *)
CeilingExact ==
  \A id \in ConnIds :
    /\ Get(c, id).streams = Cardinality({i \in StreamIds : Get(s, i).conn = id})
    /\ Get(c, id).streams <= STREAM_CEILING

(* A level flag is its event, queued once: a flag without one would mute   *)
(* the object for good.                                                    *)
FlagsAreQueued ==
  /\ \A id \in StreamIds : Queued("readable", id) = Once(Get(s, id).rq) /\ Queued("writable", id) = Once(Get(s, id).wq)
  /\ \A id \in ConnIds : Queued("mp_ready", id) = Once(Get(c, id).mp) /\ Queued("datagram", id) = Once(Get(c, id).dg)

(* An id the application holds is live or its close is on its way, once;   *)
(* after the close it hears of that id no more.                            *)
LastWord ==
  /\ \A k \in app.open :
       LET live == IF k[1] THEN Live(s, k[2]) ELSE Live(c, k[2])
       IN Queued(IF k[1] THEN "stream_closed" ELSE "conn_closed", k[2]) = Once(~live)
  /\ ~app.late

(* Unread data is announced, or the application has been told; of an       *)
(* abandoned stream nothing stays unread, or xquic would never close it.   *)
NothingUnread ==
  \A id \in StreamIds :
    x[ObjOf(id)].data => ~Get(s, id).abandoned /\ (Get(s, id).rq \/ id \in app.told)

(* The peer is blamed for a close only if its close came first. *)
BlameIsFair == \A id \in ConnIds : Get(c, id).closed_locally <=> Get(c, id).by = "us"

(* A thread is claimed while its engine exists, and no longer. *)
OneEngine == app.claimed = app.engine

(* Handles: no dangling pointer, no stale or lost event, no lost claim.    *)
HandlesSound ==
  PointersValid /\ CeilingExact /\ FlagsAreQueued /\ LastWord /\ NothingUnread /\ BlameIsFair /\ OneEngine
=============================================================================
