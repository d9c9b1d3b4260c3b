-------------------------- MODULE OriginPoolProofs --------------------------
(***************************************************************************)
(* Proofs about the origin bridge, for any number of requests and          *)
(* connections: no exchange is lost or sent twice with a body, no socket   *)
(* is leaked or acted on twice, and every account is exact.                *)
(*                                                                         *)
(* The operations of OriginPool are functions on the bridge's record, so   *)
(* the invariant is a predicate on such a record, and most lemmas are      *)
(* about values, not about steps.                                          *)
(***************************************************************************)
EXTENDS OriginPool, FiniteSetTheorems, TLAPS

-----------------------------------------------------------------------------
(* Types *)

Record ==
  [q : Reqs, st : {"assigned", "ended"}, ph : {"sent", "body"}, stored : BOOLEAN,
   reused : BOOLEAN, retried : BOOLEAN, clean : BOOLEAN]

LiveConn ==
  [driver : {"tls", "hs", "run", "done"}, proto : {None, "h1", "h2"}, send : BOOLEAN,
   pending : Waiting \cup {None}, reqs : SUBSET Record, busy : BOOLEAN, active : Int,
   unreleased : Int, completed : BOOLEAN, due : BOOLEAN, idle : BOOLEAN, rx : BOOLEAN,
   at : {"pool", "closing"}, sock : {"open", "ended", "lost"}, acts : Nat]

GoneConn == [at : {"gone"}, sock : {"none", "ended", "lost"}, acts : Nat]

Upload == [fin : BOOLEAN, aborted : BOOLEAN, live : Int, empty : BOOLEAN]

Bridge ==
  [conns : [Ids -> LiveConn \cup GoneConn], next : Nat, dials : [Reqs -> Waiting \cup {None}],
   by_h3 : [Reqs -> Ids \cup {0, None}], idle_timer : BOOLEAN,
   gw : [Reqs -> {"new", "origin", "fin_due", "done", "gone"}], up : [Reqs -> Upload],
   wire : [Reqs -> Nat], down : BOOLEAN, faults : Nat]

-----------------------------------------------------------------------------
(* The invariant, connection by connection *)

(* The socket: one action in all, and none before the removal. *)
SocketOK(c) ==
  /\ c.acts = IF c.sock = "ended" THEN 1 ELSE 0
  /\ c.at = "pool" => c.sock = "open"
  /\ c.at = "closing" => c.sock = "lost" \/ (c.due <=> c.sock = "open")

(* The handshake: a connection has a requester, and nothing else, until    *)
(* hyper runs on it.                                                       *)
PhaseOK(c) ==
  /\ (c.pending # None) <=> c.driver \in {"tls", "hs"}
  /\ c.pending # None =>
       /\ c.at = "pool" /\ ~c.send /\ ~c.idle
       /\ c.reqs = {} /\ c.unreleased = 0
  /\ c.driver = "tls" \/ c.proto # None
  /\ c.send => c.driver = "run"
  /\ c.idle => c.reqs = {}

(* The records: one per request, counted by `active`, within what the      *)
(* protocol allows; an h1 connection that has one says so.                 *)
CountOK(c) ==
  /\ IsFiniteSet(c.reqs) /\ c.active = Cardinality(c.reqs)
  /\ \A r, s \in c.reqs : (c.proto = "h1" \/ r.q = s.q) => r = s
  /\ (c.proto = "h1" /\ c.at = "pool" /\ c.reqs # {}) => c.busy
  /\ c.proto = "h2" => c.active <= MaxStreams

ConnOK(c) ==
  IF c.at = "gone" THEN c \in GoneConn /\ c.acts = (IF c.sock = "ended" THEN 1 ELSE 0)
  ELSE c \in LiveConn /\ SocketOK(c) /\ PhaseOK(c) /\ CountOK(c)

-----------------------------------------------------------------------------
(* The invariant, request by request: where it waits and where it runs *)

Pend(c, q) == c.at # "gone" /\ c.pending # None /\ c.pending.q = q

Recs(c, q) == IF c.at = "gone" THEN {} ELSE {r \in c.reqs : r.q = q}

Runs(c, q) == {r \in Recs(c, q) : r.st = "assigned"}

(* What may still be sent: nothing was, or a complete and empty request    *)
(* that is retried from its stored form.                                   *)
MaySend(p, n, u) == n = 0 \/ (n = 1 /\ ~p.ready /\ Bodiless(u))

Twice(b, q) == b.wire[q] <= 2 /\ (b.wire[q] = 2 => Bodiless(b.up[q]))

WireOK(b, q) ==
  /\ Twice(b, q)
  /\ b.dials[q] # None => MaySend(b.dials[q], b.wire[q], b.up[q])
  /\ \A i \in Ids : Pend(b.conns[i], q) => MaySend(b.conns[i].pending, b.wire[q], b.up[q])
  /\ \A i \in Ids : \A r \in Runs(b.conns[i], q) :
       r.reused /\ r.ph = "sent" => b.wire[q] = 0

PlaceOK(b, q) ==
  /\ b.by_h3[q] = 0 <=> b.dials[q] # None
  /\ b.dials[q] # None => b.dials[q].q = q
  /\ \A i \in Ids : Pend(b.conns[i], q) \/ Runs(b.conns[i], q) # {} => b.by_h3[q] = i

Nowhere(b, q) ==
  b.dials[q] = None /\ \A i \in Ids : ~Pend(b.conns[i], q) /\ Runs(b.conns[i], q) = {}

OwnerOK(b, q) ==
  /\ b.gw[q] = "new" =>
       b.wire[q] = 0 /\ b.dials[q] = None /\ \A i \in Ids : ~Pend(b.conns[i], q) /\ Recs(b.conns[i], q) = {}
  /\ b.gw[q] = "gone" => Nowhere(b, q)
  /\ b.gw[q] = "origin" => ~Nowhere(b, q)

ReqOK(b, q) == WireOK(b, q) /\ PlaceOK(b, q) /\ OwnerOK(b, q)

ConnsOK(b) == \A i \in Ids : ConnOK(b.conns[i]) /\ (i >= b.next => b.conns[i].at = "gone")

BInv(b) == b \in Bridge /\ ConnsOK(b) /\ \A q \in Reqs : ReqOK(b, q)

(* The inductive invariant: the records, and the sweep's timer between     *)
(* pumps.                                                                  *)
OInv ==
  /\ pc \in {"idle", "pump"}
  /\ BInv(o)
  /\ pc = "idle" => (o.idle_timer <=> \E i \in Ids : Live(o, i))
-----------------------------------------------------------------------------
(* Within an operation: the invariant of everything but the request it     *)
(* works on, and that request off the bridge.                              *)

But(b, q) ==
  /\ b \in Bridge /\ ConnsOK(b)
  /\ \A p \in Reqs \ {q} : ReqOK(b, p)
  /\ Twice(b, q)

Off(b, q) == Nowhere(b, q) /\ b.by_h3[q] # 0

(* A connection that looks the same to a request: only records that ended  *)
(* may have gone.                                                          *)
SameView(c, d, q) ==
  /\ Pend(d, q) <=> Pend(c, q)
  /\ Pend(c, q) => d.pending = c.pending
  /\ Runs(d, q) = Runs(c, q)
  /\ Recs(d, q) \subseteq Recs(c, q)

SameUpload(u, v) == u.fin = v.fin /\ u.empty = v.empty

-----------------------------------------------------------------------------
(* Requests that an operation leaves alone *)

(* What a request sees of the bridge decides ReqOK; its gateway may have   *)
(* ended it.                                                               *)
LEMMA FrameReq ==
  ASSUME NEW b, NEW d, NEW q \in Reqs, ReqOK(b, q),
         d.dials[q] = b.dials[q], d.by_h3[q] = b.by_h3[q], d.wire[q] = b.wire[q],
         SameUpload(b.up[q], d.up[q]),
         d.gw[q] = b.gw[q] \/ d.gw[q] \in {"done", "fin_due"},
         \A i \in Ids : SameView(b.conns[i], d.conns[i], q)
  PROVE  ReqOK(d, q)
<1>1. WireOK(d, q)
  BY DEF ReqOK, WireOK, SameView, SameUpload, Twice, Bodiless, MaySend
<1>2. PlaceOK(d, q)
  BY DEF ReqOK, PlaceOK, SameView
<1>3. Nowhere(d, q) <=> Nowhere(b, q)
  BY DEF Nowhere, SameView
<1>4. OwnerOK(d, q)
  <2>1. CASE d.gw[q] = "new"
    BY <2>1 DEF ReqOK, OwnerOK, SameView
  <2>2. CASE d.gw[q] # "new"
    BY <1>3, <2>2 DEF ReqOK, OwnerOK
  <2> QED BY <2>1, <2>2
<1> QED BY <1>1, <1>2, <1>4 DEF ReqOK

(* A request that is off the bridge, and that nobody waits on. *)
LEMMA OffBInv ==
  ASSUME NEW b, NEW q \in Reqs, But(b, q), Off(b, q), b.gw[q] \in {"fin_due", "done", "gone"}
  PROVE  BInv(b)
<1>1. WireOK(b, q) BY DEF But, Off, Nowhere, WireOK
<1>2. PlaceOK(b, q) BY DEF Off, Nowhere, PlaceOK
<1>3. OwnerOK(b, q) BY DEF Off, OwnerOK
<1> QED BY <1>1, <1>2, <1>3 DEF But, BInv, ReqOK

(* The request of a record that runs on a connection is nowhere else. *)
LEMMA RunsAlone ==
  ASSUME NEW b, BInv(b), NEW i \in Ids, Live(b, i), NEW r \in Assigned(b.conns[i])
  PROVE  /\ r.q \in Reqs /\ r \in Record /\ r \in Runs(b.conns[i], r.q)
         /\ b.dials[r.q] = None /\ b.by_h3[r.q] = i
         /\ b.conns[i] \in LiveConn /\ b.conns[i].pending = None
         /\ \A j \in Ids : ~Pend(b.conns[j], r.q) /\ (j # i => Runs(b.conns[j], r.q) = {})
<1>1. b.conns[i] \in LiveConn /\ PhaseOK(b.conns[i]) BY DEF BInv, ConnsOK, ConnOK, Live
<1>2. r \in Record /\ r.q \in Reqs /\ r \in Runs(b.conns[i], r.q)
  BY <1>1 DEF LiveConn, Assigned, Record, Runs, Recs, Live
<1>3. PlaceOK(b, r.q) BY <1>2 DEF BInv, ReqOK
<1>4. b.by_h3[r.q] = i BY <1>2, <1>3 DEF PlaceOK
<1>5. b.conns[i].pending = None BY <1>1 DEF PhaseOK, Assigned
<1>6. i # 0 BY DEF Ids
<1>7. b.dials[r.q] = None BY <1>3, <1>4, <1>6 DEF PlaceOK
<1>8. \A j \in Ids : ~Pend(b.conns[j], r.q) /\ (j # i => Runs(b.conns[j], r.q) = {})
  BY <1>3, <1>4, <1>5 DEF PlaceOK, Pend
<1> QED BY <1>1, <1>2, <1>4, <1>5, <1>7, <1>8

-----------------------------------------------------------------------------
(* The gateway and the uploads *)

(* AbortUpload changes one flag of one upload. *)
LEMMA AbortFields ==
  ASSUME NEW b \in Bridge, NEW q \in Reqs
  PROVE  /\ AbortUpload(b, q) \in Bridge
         /\ AbortUpload(b, q).conns = b.conns /\ AbortUpload(b, q).dials = b.dials
         /\ AbortUpload(b, q).by_h3 = b.by_h3 /\ AbortUpload(b, q).wire = b.wire
         /\ AbortUpload(b, q).gw = b.gw /\ AbortUpload(b, q).next = b.next
         /\ AbortUpload(b, q).idle_timer = b.idle_timer
         /\ \A p \in Reqs : SameUpload(b.up[p], AbortUpload(b, q).up[p])
<1> DEFINE u == [b.up[q] EXCEPT !.aborted = @ \/ ~b.up[q].fin]
<1>1. u \in Upload /\ SameUpload(b.up[q], u) BY DEF Bridge, Upload, SameUpload
<1>2. AbortUpload(b, q) = [b EXCEPT !.up = [b.up EXCEPT ![q] = u]] BY DEF AbortUpload, Bridge
<1> HIDE DEF u
<1> QED BY <1>1, <1>2 DEF Bridge, SameUpload

(* on_failure changes the gateway's state of one request, and its upload. *)
LEMMA FailFields ==
  ASSUME NEW b \in Bridge, NEW q \in Reqs
  PROVE  /\ Fail(b, q) \in Bridge
         /\ Fail(b, q).conns = b.conns /\ Fail(b, q).dials = b.dials
         /\ Fail(b, q).by_h3 = b.by_h3 /\ Fail(b, q).wire = b.wire
         /\ Fail(b, q).next = b.next /\ Fail(b, q).idle_timer = b.idle_timer
         /\ \A p \in Reqs : SameUpload(b.up[p], Fail(b, q).up[p])
         /\ \A p \in Reqs \ {q} : Fail(b, q).gw[p] = b.gw[p]
         /\ Fail(b, q).gw[q] # "origin"
         /\ Fail(b, q).gw[q] = b.gw[q] \/ Fail(b, q).gw[q] = "done"
<1> DEFINE d == [b EXCEPT !.gw[q] = "done"]
<1>1. /\ d \in Bridge /\ d.conns = b.conns /\ d.dials = b.dials /\ d.by_h3 = b.by_h3
      /\ d.wire = b.wire /\ d.up = b.up /\ d.gw = [b.gw EXCEPT ![q] = "done"]
      /\ d.next = b.next /\ d.idle_timer = b.idle_timer
  BY DEF Bridge
<1>2. Fail(b, q) = IF b.gw[q] \in {"origin", "fin_due"} THEN AbortUpload(d, q) ELSE b BY DEF Fail
<1>3. b.gw \in [Reqs -> {"new", "origin", "fin_due", "done", "gone"}] BY DEF Bridge
<1> HIDE DEF d
<1>4. \A p \in Reqs : SameUpload(b.up[p], b.up[p]) BY DEF SameUpload
<1>5. CASE b.gw[q] \in {"origin", "fin_due"}
  <2>1. Fail(b, q) = AbortUpload(d, q) BY <1>2, <1>5
  <2> QED BY <1>1, <1>3, <2>1, AbortFields
<1>6. CASE b.gw[q] \notin {"origin", "fin_due"}
  <2>1. Fail(b, q) = b BY <1>2, <1>6
  <2> QED BY <1>4, <1>6, <2>1
<1> QED BY <1>5, <1>6

(* A connection looks the same to a request as itself. *)
LEMMA SameConns ==
  ASSUME NEW b, NEW d, d.conns = b.conns
  PROVE  \A q \in Reqs : \A i \in Ids : SameView(b.conns[i], d.conns[i], q)
BY DEF SameView

(* A change of one gateway state, to done, keeps the invariant. *)
LEMMA FailBInv ==
  ASSUME NEW b, BInv(b), NEW q \in Reqs
  PROVE  BInv(Fail(b, q)) /\ Fail(b, q).gw[q] # "origin"
<1>1. b \in Bridge BY DEF BInv
<1> DEFINE d == Fail(b, q)
<1>2. /\ d \in Bridge /\ d.conns = b.conns /\ d.dials = b.dials /\ d.by_h3 = b.by_h3
      /\ d.wire = b.wire /\ d.next = b.next
      /\ \A p \in Reqs : SameUpload(b.up[p], d.up[p])
      /\ \A p \in Reqs : d.gw[p] = b.gw[p] \/ d.gw[p] = "done"
      /\ d.gw[q] # "origin"
  BY <1>1, FailFields
<1> HIDE DEF d
<1>3. ConnsOK(d) BY <1>2 DEF BInv, ConnsOK
<1>4. \A p \in Reqs : ReqOK(d, p) BY <1>2, SameConns, FrameReq DEF BInv
<1> QED BY <1>2, <1>3, <1>4 DEF BInv, d

(* A request that was taken off the bridge is failed. *)
LEMMA FailOff ==
  ASSUME NEW b, NEW q \in Reqs, But(b, q), Off(b, q), b.gw[q] # "new"
  PROVE  BInv(Fail(b, q))
<1>1. b \in Bridge BY DEF But
<1> DEFINE d == Fail(b, q)
<1>2. /\ d \in Bridge /\ d.conns = b.conns /\ d.dials = b.dials /\ d.by_h3 = b.by_h3
      /\ d.wire = b.wire /\ d.next = b.next
      /\ \A p \in Reqs : SameUpload(b.up[p], d.up[p])
      /\ \A p \in Reqs \ {q} : d.gw[p] = b.gw[p]
      /\ d.gw[q] # "origin" /\ (d.gw[q] = b.gw[q] \/ d.gw[q] = "done")
  BY <1>1, FailFields
<1>3. b.gw[q] \in {"new", "origin", "fin_due", "done", "gone"} BY <1>1 DEF Bridge
<1> HIDE DEF d
<1>4. ConnsOK(d) BY <1>2 DEF But, ConnsOK
<1>5. \A p \in Reqs \ {q} : ReqOK(d, p) BY <1>2, SameConns, FrameReq DEF But
<1>6. Twice(d, q) BY <1>2 DEF But, Twice, SameUpload, Bodiless
<1>7. But(d, q) BY <1>2, <1>4, <1>5, <1>6 DEF But
<1>8. Off(d, q) BY <1>2 DEF Off, Nowhere
<1> QED BY <1>2, <1>3, <1>7, <1>8, OffBInv DEF d

-----------------------------------------------------------------------------
(* One connection changes *)

LEMMA PutConn ==
  ASSUME NEW b \in Bridge, ConnsOK(b), NEW d, NEW i \in Ids, NEW c, ConnOK(c),
         c.at = "gone" \/ Live(b, i), d.conns = [b.conns EXCEPT ![i] = c], d.next = b.next
  PROVE  ConnsOK(d)
<1>1. b.conns \in [Ids -> LiveConn \cup GoneConn] BY DEF Bridge
<1> QED BY <1>1 DEF ConnsOK, Live

(* z is b with the connection c in place i, and the same otherwise. *)
Placed(z, b, i, c) == z = [b EXCEPT !.conns = [b.conns EXCEPT ![i] = c]]

LEMMA PutBridge ==
  ASSUME NEW b \in Bridge, NEW i \in Ids, NEW c \in LiveConn \cup GoneConn,
         NEW z, Placed(z, b, i, c)
  PROVE  /\ z \in Bridge /\ z.conns = [b.conns EXCEPT ![i] = c] /\ z.next = b.next
         /\ z.dials = b.dials /\ z.by_h3 = b.by_h3 /\ z.wire = b.wire /\ z.gw = b.gw
         /\ z.up = b.up
<1> DEFINE cs == [b.conns EXCEPT ![i] = c]
<1>1. cs \in [Ids -> LiveConn \cup GoneConn] BY DEF Bridge
<1>2. z = [b EXCEPT !.conns = cs] BY DEF Placed
<1> HIDE DEF cs
<1>3. z.conns = cs /\ z \in Bridge BY <1>1, <1>2 DEF Bridge
<1>4. /\ z.next = b.next /\ z.dials = b.dials /\ z.by_h3 = b.by_h3 /\ z.wire = b.wire
      /\ z.gw = b.gw /\ z.up = b.up
  BY <1>2 DEF Bridge
<1> QED BY <1>3, <1>4 DEF cs

LEMMA PutView ==
  ASSUME NEW b \in Bridge, NEW d, NEW i \in Ids, NEW c, NEW q,
         SameView(b.conns[i], c, q), d.conns = [b.conns EXCEPT ![i] = c]
  PROVE  \A j \in Ids : SameView(b.conns[j], d.conns[j], q)
<1>1. b.conns \in [Ids -> LiveConn \cup GoneConn] BY DEF Bridge
<1>2. \A j \in Ids \ {i} : d.conns[j] = b.conns[j] BY <1>1
<1>3. \A j \in Ids \ {i} : SameView(b.conns[j], d.conns[j], q) BY <1>2 DEF SameView
<1>4. d.conns[i] = c BY <1>1
<1> QED BY <1>3, <1>4

(* A connection that passes the checks is of its type. *)
LEMMA ConnTyped ==
  ASSUME NEW c, ConnOK(c)
  PROVE  c \in LiveConn \cup GoneConn
BY DEF ConnOK

(* A live connection is no dropped one. *)
LEMMA LiveTyped ==
  ASSUME NEW b, BInv(b) \/ (\E q \in Reqs : But(b, q)), NEW i \in Ids, Live(b, i)
  PROVE  /\ b.conns[i] \in LiveConn /\ SocketOK(b.conns[i])
         /\ PhaseOK(b.conns[i]) /\ CountOK(b.conns[i])
<1>1. ConnsOK(b) BY DEF BInv, But
<1> QED BY <1>1 DEF ConnsOK, ConnOK, Live

(* One record takes the place of another of the same request. *)
Replaced(d, c, r, e) == d = [c EXCEPT !.reqs = (@ \ {r}) \cup {e}]

LEMMA ReplaceRecord ==
  ASSUME NEW c \in LiveConn, PhaseOK(c), CountOK(c), SocketOK(c), NEW r \in c.reqs, NEW e \in Record,
         e.q = r.q, NEW d, Replaced(d, c, r, e)
  PROVE  /\ d \in LiveConn /\ ConnOK(d) /\ d.at = c.at
         /\ d.reqs = (c.reqs \ {r}) \cup {e} /\ d.pending = c.pending
         /\ \A p \in Reqs \ {r.q} : SameView(c, d, p)
         /\ \A p \in Reqs : Pend(d, p) <=> Pend(c, p)
         /\ Runs(d, r.q) = {s \in {e} : s.st = "assigned"}
<1>1. c.reqs \subseteq Record /\ r \in Record BY DEF LiveConn
<1>2. /\ d \in LiveConn /\ d.reqs = (c.reqs \ {r}) \cup {e}
      /\ d.driver = c.driver /\ d.proto = c.proto /\ d.send = c.send /\ d.pending = c.pending
      /\ d.busy = c.busy /\ d.active = c.active /\ d.unreleased = c.unreleased
      /\ d.due = c.due /\ d.idle = c.idle /\ d.at = c.at /\ d.sock = c.sock /\ d.acts = c.acts
  BY <1>1 DEF LiveConn, Replaced
<1> DEFINE rest == c.reqs \ {r}
<1>3. IsFiniteSet(c.reqs) /\ \A s \in rest : s.q # e.q BY DEF CountOK
<1>4. IsFiniteSet(rest) /\ Cardinality(rest) = Cardinality(c.reqs) - 1
  BY <1>3, FS_RemoveElement
<1>5. e \notin rest BY <1>3
<1>6. IsFiniteSet(d.reqs) /\ Cardinality(d.reqs) = Cardinality(rest) + 1
  <2> HIDE DEF rest
  <2>1. IsFiniteSet(rest \cup {e}) /\ Cardinality(rest \cup {e}) = Cardinality(rest) + 1
    BY <1>4, <1>5, FS_AddElement
  <2>2. d.reqs = rest \cup {e} BY <1>2 DEF rest
  <2> QED BY <2>1, <2>2
<1>7. Cardinality(c.reqs) \in Nat BY <1>3, FS_CardinalityType
<1>8. d.active = Cardinality(d.reqs) BY <1>2, <1>4, <1>6, <1>7 DEF CountOK
<1>9. \A s, t \in d.reqs : (d.proto = "h1" \/ s.q = t.q) => s = t BY <1>2, <1>3 DEF CountOK
<1>10. CountOK(d) BY <1>2, <1>6, <1>8, <1>9 DEF CountOK
<1>11. PhaseOK(d) BY <1>2 DEF PhaseOK
<1>12. SocketOK(d) BY <1>2 DEF SocketOK
<1>13. c.at # "gone" /\ d.at # "gone" BY <1>2 DEF LiveConn
<1>14. ConnOK(d) BY <1>2, <1>10, <1>11, <1>12, <1>13 DEF ConnOK
<1>15. \A p \in Reqs : Pend(d, p) <=> Pend(c, p) BY <1>2 DEF Pend
<1>16. \A p \in Reqs \ {r.q} : Recs(d, p) = Recs(c, p) BY <1>2, <1>13 DEF Recs
<1>17. \A p \in Reqs \ {r.q} : SameView(c, d, p) BY <1>2, <1>15, <1>16 DEF SameView, Runs
<1>18. Recs(d, r.q) = {e} BY <1>2, <1>3, <1>13 DEF Recs
<1>19. Runs(d, r.q) = {s \in {e} : s.st = "assigned"} BY <1>18 DEF Runs
<1> QED BY <1>2, <1>14, <1>15, <1>17, <1>19

-----------------------------------------------------------------------------
(* The end of a record *)

LEMMA EndOff ==
  ASSUME NEW b, NEW i \in Ids, Live(b, i), NEW r \in Assigned(b.conns[i]), r.q \in Reqs,
         But(b, r.q), b.by_h3[r.q] # 0, b.dials[r.q] = None,
         \A j \in Ids : ~Pend(b.conns[j], r.q) /\ (j # i => Runs(b.conns[j], r.q) = {}),
         NEW clean \in BOOLEAN
  PROVE  /\ But(End(b, i, r, clean), r.q) /\ Off(End(b, i, r, clean), r.q)
         /\ End(b, i, r, clean).gw = b.gw /\ End(b, i, r, clean).idle_timer = b.idle_timer
<1> DEFINE q == r.q
           u == AbortUpload(b, q)
           c == b.conns[i]
<1>1. b \in Bridge BY DEF But
<1>2. c \in LiveConn /\ SocketOK(c) /\ PhaseOK(c) /\ CountOK(c) BY LiveTyped
<1>3. r \in c.reqs /\ r \in Record BY <1>2 DEF Assigned, LiveConn
<1>4. /\ u \in Bridge /\ u.conns = b.conns /\ u.dials = b.dials /\ u.by_h3 = b.by_h3
      /\ u.wire = b.wire /\ u.gw = b.gw /\ u.next = b.next /\ u.idle_timer = b.idle_timer
      /\ \A p \in Reqs : SameUpload(b.up[p], u.up[p])
  BY <1>1, AbortFields
<1>5. u.up[q].aborted \in BOOLEAN BY <1>4 DEF Bridge, Upload
<1> DEFINE e == [r EXCEPT !.st = "ended", !.clean = clean /\ ~u.up[q].aborted]
           d == [c EXCEPT !.reqs = (@ \ {r}) \cup {e}]
           z == End(b, i, r, clean)
<1>6. e \in Record /\ e.q = r.q /\ e.st = "ended" BY <1>3, <1>5 DEF Record
<1>7. z = [u EXCEPT !.conns[i].reqs = (@ \ {r}) \cup {e}] BY DEF End
<1> HIDE DEF e, u
<1>8. z = [u EXCEPT !.conns = [b.conns EXCEPT ![i] = d]] BY <1>1, <1>4, <1>7 DEF Bridge
<1>9. Replaced(d, c, r, e) BY DEF Replaced
<1> HIDE DEF d, z
<1>10. /\ d \in LiveConn /\ ConnOK(d) /\ d.at = c.at
       /\ \A p \in Reqs \ {q} : SameView(c, d, p)
       /\ \A p \in Reqs : Pend(d, p) <=> Pend(c, p)
       /\ Runs(d, q) = {s \in {e} : s.st = "assigned"}
  BY <1>2, <1>3, <1>6, <1>9, ReplaceRecord
<1>11. /\ z \in Bridge /\ z.conns = [b.conns EXCEPT ![i] = d] /\ z.dials = b.dials
       /\ z.by_h3 = b.by_h3 /\ z.wire = b.wire /\ z.gw = b.gw /\ z.next = b.next
       /\ z.up = u.up /\ z.idle_timer = b.idle_timer
  BY <1>1, <1>4, <1>8, <1>10 DEF Bridge
<1>12. ConnsOK(z) BY <1>1, <1>10, <1>11, PutConn DEF But
<1>13. \A p \in Reqs \ {q} : ReqOK(z, p)
  <2> SUFFICES ASSUME NEW p \in Reqs \ {q} PROVE ReqOK(z, p) OBVIOUS
  <2>1. \A j \in Ids : SameView(b.conns[j], z.conns[j], p) BY <1>1, <1>10, <1>11, PutView
  <2>2. ReqOK(b, p) /\ SameUpload(b.up[p], z.up[p]) BY <1>4, <1>11 DEF But
  <2> QED BY <1>11, <2>1, <2>2, FrameReq
<1>14. Twice(z, q) BY <1>4, <1>11 DEF But, Twice, Bodiless, SameUpload
<1>15. But(z, q) BY <1>11, <1>12, <1>13, <1>14 DEF But
<1>16. Runs(d, q) = {} BY <1>6, <1>10
<1>17. \A j \in Ids : ~Pend(z.conns[j], q) /\ Runs(z.conns[j], q) = {}
  BY <1>1, <1>10, <1>11, <1>16 DEF Bridge
<1>18. Off(z, q) BY <1>11, <1>17 DEF Off, Nowhere
<1> QED BY <1>11, <1>15, <1>18 DEF z

(* A record whose request nobody waits on ends. *)
LEMMA EndBInv ==
  ASSUME NEW b, BInv(b), NEW i \in Ids, Live(b, i), NEW r \in Assigned(b.conns[i]),
         b.gw[r.q] # "origin", NEW clean \in BOOLEAN
  PROVE  BInv(End(b, i, r, clean))
<1>1. /\ r.q \in Reqs /\ b.dials[r.q] = None /\ b.by_h3[r.q] = i
      /\ r \in Runs(b.conns[i], r.q)
      /\ \A j \in Ids : ~Pend(b.conns[j], r.q) /\ (j # i => Runs(b.conns[j], r.q) = {})
  BY RunsAlone
<1>2. But(b, r.q) BY <1>1 DEF BInv, But, ReqOK, WireOK
<1>3. i # 0 BY DEF Ids
<1>4. b.gw[r.q] # "new" BY <1>1 DEF BInv, ReqOK, OwnerOK, Runs
<1>5. b.gw[r.q] \in {"fin_due", "done", "gone"} BY <1>1, <1>4 DEF BInv, Bridge
<1>6. /\ But(End(b, i, r, clean), r.q) /\ Off(End(b, i, r, clean), r.q)
      /\ End(b, i, r, clean).gw = b.gw
  BY <1>1, <1>2, <1>3, EndOff
<1> QED BY <1>1, <1>5, <1>6, OffBInv

-----------------------------------------------------------------------------
(* Removal *)

(* A connection about to be removed: its socket may be lost already. *)
Removable(c) ==
  /\ c \in LiveConn
  /\ c.acts = IF c.sock = "ended" THEN 1 ELSE 0
  /\ c.at = "pool" => c.sock # "ended"
  /\ c.at = "closing" => c.sock = "lost" \/ (c.due <=> c.sock = "open")

(* The socket action changes the socket, once, and nothing else. *)
LEMMA ActFields ==
  ASSUME NEW c \in LiveConn, NEW a, a = Act(c)
  PROVE  /\ a \in LiveConn
         /\ c.sock = "lost" => a.sock = "lost" /\ a.acts = c.acts
         /\ c.sock # "lost" => a.sock = "ended" /\ a.acts = c.acts + 1
         /\ a.driver = c.driver /\ a.proto = c.proto /\ a.send = c.send /\ a.pending = c.pending
         /\ a.busy = c.busy /\ a.active = c.active /\ a.unreleased = c.unreleased
         /\ a.idle = c.idle /\ a.reqs = c.reqs /\ a.due = c.due /\ a.at = c.at
<1>1. CASE c.sock = "lost" BY <1>1 DEF Act
<1>2. CASE c.sock # "lost"
  <2>1. a = [c EXCEPT !.sock = "ended", !.acts = c.acts + 1] BY <1>2 DEF Act
  <2>2. c.acts + 1 \in Nat BY DEF LiveConn
  <2> QED BY <1>2, <2>1, <2>2 DEF LiveConn
<1> QED BY <1>1, <1>2

(* With nothing running on it, or by a class that keeps nothing, it is     *)
(* dropped, its socket ended once.                                         *)
LEMMA RemoveDrops ==
  ASSUME NEW c, Removable(c), NEW class \in {"A", "B", "C", "D", "E", "Eprime", "Elost"},
         class = "Elost" => c.sock = "lost",
         class \in {"B", "E", "Elost"} => Assigned(c) = {}
  PROVE  ConnOK(Remove(c, class)) /\ Remove(c, class).at = "gone"
<1>1. c.at # "gone" BY DEF Removable, LiveConn
<1> DEFINE x == IF (c.at = "closing" /\ ~c.due) \/ class = "Elost" THEN c ELSE Act(c)
<1>2. Remove(c, class) = Dropped(x) BY <1>1 DEF Remove
<1>3. x.sock \in {"ended", "lost"} /\ x.acts = IF x.sock = "ended" THEN 1 ELSE 0
  BY DEF Removable, LiveConn, Act
<1> HIDE DEF x
<1> QED BY <1>2, <1>3 DEF Dropped, ConnOK, GoneConn

(* With a record still running it is kept, out of the pool, as it was to   *)
(* its requests.                                                           *)
LEMMA RemoveKeeps ==
  ASSUME NEW c, Removable(c), PhaseOK(c), CountOK(c), NEW class \in {"B", "E", "Elost"},
         class = "Elost" => c.sock = "lost", class = "B" => c.at = "pool",
         Assigned(c) # {}
  PROVE  /\ ConnOK(Remove(c, class)) /\ Remove(c, class).at = "closing"
         /\ Remove(c, class).pending = c.pending /\ Remove(c, class).reqs = c.reqs
<1>1. c \in LiveConn /\ c.at # "gone" BY DEF Removable, LiveConn
<1> DEFINE x == IF (c.at = "closing" /\ ~c.due) \/ class = "Elost" \/ class = "B" THEN c ELSE Act(c)
           d == [x EXCEPT !.at = "closing", !.due = class = "B"]
<1>2. Remove(c, class) = d BY <1>1 DEF Remove
<1>3. /\ x \in LiveConn /\ x.acts = (IF x.sock = "ended" THEN 1 ELSE 0)
      /\ class # "B" => x.sock \in {"ended", "lost"}
      /\ class = "B" => x.sock # "ended"
      /\ x.driver = c.driver /\ x.proto = c.proto /\ x.send = c.send /\ x.pending = c.pending
      /\ x.busy = c.busy /\ x.active = c.active /\ x.unreleased = c.unreleased
      /\ x.idle = c.idle /\ x.reqs = c.reqs
  <2>1. CASE x = c
    <3>1. class # "B" => c.sock \in {"ended", "lost"}
      BY <1>1, <2>1, ActFields DEF Removable, LiveConn
    <3> QED BY <1>1, <2>1, <3>1 DEF Removable
  <2>2. CASE x # c
    <3>1. x = Act(c) /\ class # "B" /\ ~(c.at = "closing" /\ ~c.due) BY <2>2
    <3>2. c.sock # "ended" BY <3>1, <1>1 DEF Removable, LiveConn
    <3> QED BY <1>1, <3>1, <3>2, ActFields DEF Removable
  <2> QED BY <2>1, <2>2
<1> HIDE DEF x
<1>4. /\ d \in LiveConn /\ d.acts = x.acts /\ d.sock = x.sock /\ d.at = "closing"
      /\ d.due = (class = "B")
      /\ d.driver = c.driver /\ d.proto = c.proto /\ d.send = c.send /\ d.pending = c.pending
      /\ d.busy = c.busy /\ d.active = c.active /\ d.unreleased = c.unreleased
      /\ d.idle = c.idle /\ d.reqs = c.reqs
  BY <1>3 DEF LiveConn
<1> HIDE DEF d
<1>5. c.reqs # {} BY DEF Assigned
<1>6. x.sock \in {"open", "ended", "lost"} BY <1>3 DEF LiveConn
<1>7. SocketOK(d) BY <1>3, <1>4, <1>6 DEF SocketOK
<1>8. PhaseOK(d) BY <1>4, <1>5 DEF PhaseOK
<1>9. CountOK(d) BY <1>4 DEF CountOK
<1> QED BY <1>2, <1>4, <1>7, <1>8, <1>9 DEF ConnOK

(* A removal keeps every request in its place, unless it was pending. *)
LEMMA RemoveView ==
  ASSUME NEW c, Removable(c), PhaseOK(c), CountOK(c), NEW class \in {"B", "E", "Elost"},
         class = "Elost" => c.sock = "lost", class = "B" => c.at = "pool",
         c.pending = None
  PROVE  ConnOK(Remove(c, class)) /\ \A q \in Reqs : SameView(c, Remove(c, class), q)
<1> DEFINE d == Remove(c, class)
<1>1. c.at # "gone" BY DEF Removable, LiveConn
<1>2. CASE Assigned(c) = {}
  <2>1. ConnOK(d) /\ d.at = "gone" BY <1>2, RemoveDrops
  <2> HIDE DEF d
  <2>2. \A q \in Reqs : SameView(c, d, q)
    BY <1>1, <1>2, <2>1 DEF SameView, Pend, Runs, Recs, Assigned
  <2> QED BY <2>1, <2>2 DEF d
<1>3. CASE Assigned(c) # {}
  <2>1. ConnOK(d) /\ d.at = "closing" /\ d.pending = c.pending /\ d.reqs = c.reqs
    BY <1>3, RemoveKeeps
  <2> HIDE DEF d
  <2>2. \A q \in Reqs : SameView(c, d, q)
    BY <1>1, <2>1 DEF SameView, Pend, Runs, Recs
  <2> QED BY <2>1, <2>2 DEF d
<1> QED BY <1>2, <1>3

LEMMA SoundRemovable ==
  ASSUME NEW c \in LiveConn, SocketOK(c)
  PROVE  Removable(c)
BY DEF SocketOK, Removable

-----------------------------------------------------------------------------
(* A request that has no connection yet *)

(* A pending request is in one place, and its connection has no other. *)
LEMMA PendsAlone ==
  ASSUME NEW b, BInv(b), NEW i \in Ids, Live(b, i), b.conns[i].pending # None,
         NEW p, p = b.conns[i].pending
  PROVE  /\ p \in Waiting /\ p.q \in Reqs
         /\ b.dials[p.q] = None /\ b.by_h3[p.q] = i /\ b.gw[p.q] # "new"
         /\ b.conns[i].reqs = {}
         /\ \A j \in Ids : Runs(b.conns[j], p.q) = {} /\ (j # i => ~Pend(b.conns[j], p.q))
         /\ MaySend(p, b.wire[p.q], b.up[p.q])
<1>1. b.conns[i] \in LiveConn /\ PhaseOK(b.conns[i]) BY LiveTyped
<1>2. p \in Waiting /\ p.q \in Reqs BY <1>1 DEF LiveConn, Waiting
<1>3. Pend(b.conns[i], p.q) BY DEF Pend, Live
<1>4. PlaceOK(b, p.q) /\ WireOK(b, p.q) /\ OwnerOK(b, p.q) BY <1>2 DEF BInv, ReqOK
<1>5. b.by_h3[p.q] = i BY <1>3, <1>4 DEF PlaceOK
<1>6. i # 0 BY DEF Ids
<1>7. b.dials[p.q] = None BY <1>4, <1>5, <1>6 DEF PlaceOK
<1>8. b.conns[i].reqs = {} BY <1>1 DEF PhaseOK
<1>9. \A j \in Ids \ {i} : ~Pend(b.conns[j], p.q) /\ Runs(b.conns[j], p.q) = {}
  BY <1>4, <1>5 DEF PlaceOK
<1>10. Runs(b.conns[i], p.q) = {} BY <1>8 DEF Runs, Recs
<1>11. MaySend(p, b.wire[p.q], b.up[p.q]) BY <1>3, <1>4 DEF WireOK
<1>12. b.gw[p.q] # "new" BY <1>3, <1>4 DEF OwnerOK
<1> QED BY <1>2, <1>5, <1>7, <1>8, <1>9, <1>10, <1>11, <1>12

(* drop_connecting clears by_h3, and may release a body. *)
LEMMA DropFields ==
  ASSUME NEW b \in Bridge, NEW p \in Waiting
  PROVE  LET d == DropConnecting(b, p)
         IN  /\ d \in Bridge /\ d.conns = b.conns /\ d.dials = b.dials /\ d.wire = b.wire
             /\ d.gw = b.gw /\ d.next = b.next /\ d.idle_timer = b.idle_timer
             /\ d.by_h3 = [b.by_h3 EXCEPT ![p.q] = None]
             /\ \A q \in Reqs : SameUpload(b.up[q], d.up[q])
<1>1. p.q \in Reqs /\ b.up \in [Reqs -> Upload] BY DEF Waiting, Bridge
<1> DEFINE u == [b.up[p.q] EXCEPT !.live = IF p.ready THEN @ - 1 ELSE @]
           d == DropConnecting(b, p)
<1>2. u \in Upload /\ SameUpload(b.up[p.q], u) BY <1>1 DEF Upload, SameUpload
<1>3. d = [b EXCEPT !.by_h3 = [b.by_h3 EXCEPT ![p.q] = None], !.up = [b.up EXCEPT ![p.q] = u]]
  BY <1>1 DEF DropConnecting, Bridge
<1> HIDE DEF u, d
<1>4. /\ d \in Bridge /\ d.conns = b.conns /\ d.dials = b.dials /\ d.wire = b.wire
      /\ d.gw = b.gw /\ d.next = b.next /\ d.idle_timer = b.idle_timer
      /\ d.by_h3 = [b.by_h3 EXCEPT ![p.q] = None] /\ d.up = [b.up EXCEPT ![p.q] = u]
  BY <1>1, <1>2, <1>3 DEF Bridge
<1>5. \A q \in Reqs : SameUpload(b.up[q], d.up[q]) BY <1>1, <1>2, <1>4 DEF SameUpload
<1> QED BY <1>4, <1>5 DEF d

(* Its connection is the only place of the pending request p. *)
PendsOnly(b, i, p) ==
  /\ Live(b, i) /\ b.conns[i].pending = p /\ b.conns[i].reqs = {} /\ b.dials[p.q] = None
  /\ \A j \in Ids : Runs(b.conns[j], p.q) = {} /\ (j # i => ~Pend(b.conns[j], p.q))

(* x is b with connection i gone, and maybe the entry of q in by_h3. *)
Swapped(x, b, i, g, q) ==
  /\ x \in Bridge /\ x.conns = [b.conns EXCEPT ![i] = g] /\ x.dials = b.dials
  /\ x.wire = b.wire /\ x.gw = b.gw /\ x.next = b.next /\ x.up = b.up
  /\ x.idle_timer = b.idle_timer
  /\ \A r \in Reqs \ {q} : x.by_h3[r] = b.by_h3[r]

(* A pending request leaves the bridge with its connection. *)
LEMMA DropConn ==
  ASSUME NEW b, NEW i \in Ids, NEW p \in Waiting, PendsOnly(b, i, p), But(b, p.q),
         NEW g, ConnOK(g), g.at = "gone", NEW x, Swapped(x, b, i, g, p.q),
         NEW y, y = DropConnecting(x, p)
  PROVE  But(y, p.q) /\ Off(y, p.q) /\ y.gw = b.gw /\ y.idle_timer = b.idle_timer
<1> USE DEF PendsOnly, Swapped
<1>1. b \in Bridge /\ p.q \in Reqs BY DEF But, Waiting
<1>2. /\ y \in Bridge /\ y.conns = x.conns /\ y.dials = x.dials /\ y.wire = x.wire
      /\ y.gw = x.gw /\ y.next = x.next /\ y.idle_timer = x.idle_timer
      /\ y.by_h3 = [x.by_h3 EXCEPT ![p.q] = None]
      /\ \A q \in Reqs : SameUpload(x.up[q], y.up[q])
  BY DropFields
<1>3. y.by_h3[p.q] = None /\ \A r \in Reqs \ {p.q} : y.by_h3[r] = b.by_h3[r]
  BY <1>1, <1>2 DEF Bridge
<1>4. ConnsOK(y) BY <1>1, <1>2, PutConn DEF But
<1>5. \A r \in Reqs \ {p.q} : ReqOK(y, r)
  <2> SUFFICES ASSUME NEW r \in Reqs \ {p.q} PROVE ReqOK(y, r) OBVIOUS
  <2>1. SameView(b.conns[i], g, r) BY DEF SameView, Pend, Runs, Recs
  <2>2. \A j \in Ids : SameView(b.conns[j], y.conns[j], r) BY ZenonT(60), <1>1, <1>2, <2>1, PutView
  <2>3. ReqOK(b, r) /\ SameUpload(b.up[r], y.up[r]) BY <1>2 DEF But
  <2> QED BY ZenonT(60), <1>2, <1>3, <2>2, <2>3, FrameReq
<1>6. Twice(y, p.q) BY <1>1, <1>2 DEF But, Twice, Bodiless, SameUpload
<1>7. \A j \in Ids : ~Pend(y.conns[j], p.q) /\ Runs(y.conns[j], p.q) = {}
  BY <1>1, <1>2 DEF Bridge, Pend, Runs, Recs
<1>8. None # 0 BY OriginPoolAssumption
<1>9. Off(y, p.q) BY <1>2, <1>3, <1>7, <1>8 DEF Off, Nowhere
<1> QED BY <1>2, <1>4, <1>5, <1>6, <1>9 DEF But

(* fail_conn: the connection is dropped, its requester told. *)
LEMMA FailConnBInv ==
  ASSUME NEW b, BInv(b), NEW i \in Ids, Live(b, i), b.conns[i].pending # None,
         NEW c, Removable(c), c.pending = b.conns[i].pending,
         NEW x \in Bridge, x = [b EXCEPT !.conns = [b.conns EXCEPT ![i] = c]]
  PROVE  BInv(FailConn(x, i))
<1>1. b \in Bridge BY DEF BInv
<1> DEFINE p == b.conns[i].pending
           g == Remove(c, "Eprime")
           y == [x EXCEPT !.conns[i] = Remove(@, "Eprime")]
<1>2. /\ p \in Waiting /\ p.q \in Reqs
      /\ b.dials[p.q] = None /\ b.by_h3[p.q] = i /\ b.gw[p.q] # "new"
      /\ b.conns[i].reqs = {}
      /\ \A j \in Ids : Runs(b.conns[j], p.q) = {} /\ (j # i => ~Pend(b.conns[j], p.q))
  BY PendsAlone
<1>3. ConnOK(g) /\ g.at = "gone" BY RemoveDrops
<1>4. x.conns = [b.conns EXCEPT ![i] = c] /\ x.conns[i] = c BY <1>1 DEF Bridge
<1>5. FailConn(x, i) = Fail(DropConnecting(y, p), p.q) BY <1>4 DEF FailConn
<1> HIDE DEF g
<1>6. y = [b EXCEPT !.conns = [b.conns EXCEPT ![i] = g]] BY ZenonT(60), <1>1, <1>4 DEF Bridge, g
<1>7. g \in GoneConn BY <1>3 DEF ConnOK
<1> HIDE DEF y
<1>8. /\ y \in Bridge /\ y.conns = [b.conns EXCEPT ![i] = g] /\ y.dials = b.dials
      /\ y.wire = b.wire /\ y.gw = b.gw /\ y.next = b.next /\ y.up = b.up
      /\ y.idle_timer = b.idle_timer /\ y.by_h3 = b.by_h3
  BY <1>1, <1>6, <1>7 DEF Bridge
<1>9. But(b, p.q) BY <1>2 DEF BInv, But, ReqOK, WireOK
<1>10. PendsOnly(b, i, p) BY <1>2 DEF PendsOnly
<1>11. Swapped(y, b, i, g, p.q) BY <1>8 DEF Swapped
<1> HIDE DEF p
<1>12. /\ But(DropConnecting(y, p), p.q) /\ Off(DropConnecting(y, p), p.q)
       /\ DropConnecting(y, p).gw = b.gw
  BY <1>2, <1>3, <1>9, <1>10, <1>11, DropConn
<1> QED BY <1>2, <1>5, <1>12, FailOff

(* cancel: whatever place the request has, it leaves it. *)
LEMMA CancelBInv ==
  ASSUME NEW b, NEW q \in Reqs, But(b, q), PlaceOK(b, q), b.gw[q] \in {"fin_due", "done", "gone"}
  PROVE  BInv(Cancel(b, q))
<1> DEFINE i == b.by_h3[q]
           x == [b EXCEPT !.by_h3[q] = None]
<1>1. b \in Bridge BY DEF But
<1>2. None \notin Ids /\ None # 0 /\ 0 \notin Ids BY OriginPoolAssumption DEF Ids
<1>3. i \in Ids \cup {0, None} BY <1>1 DEF Bridge
<1>4. /\ x \in Bridge /\ x.conns = b.conns /\ x.dials = b.dials /\ x.wire = b.wire /\ x.gw = b.gw
      /\ x.next = b.next /\ x.up = b.up /\ x.idle_timer = b.idle_timer
      /\ x.by_h3 = [b.by_h3 EXCEPT ![q] = None] /\ x.by_h3[q] = None
      /\ \A p \in Reqs \ {q} : x.by_h3[p] = b.by_h3[p]
  BY <1>1 DEF Bridge
<1> HIDE DEF x
<1>5. But(x, q)
  <2>1. ConnsOK(x) /\ Twice(x, q) BY <1>4 DEF But, ConnsOK, Twice
  <2>2. \A p \in Reqs \ {q} : ReqOK(x, p)
    <3> SUFFICES ASSUME NEW p \in Reqs \ {q} PROVE ReqOK(x, p) OBVIOUS
    <3>1. \A j \in Ids : SameView(b.conns[j], x.conns[j], p) BY <1>4 DEF SameView
    <3>2. ReqOK(b, p) /\ SameUpload(b.up[p], x.up[p]) BY <1>4 DEF But, SameUpload
    <3> QED BY <1>4, <3>1, <3>2, FrameReq
  <2> QED BY <1>4, <2>1, <2>2 DEF But
<1>6. Nowhere(b, q) => BInv(b) /\ BInv(x)
  <2> SUFFICES ASSUME Nowhere(b, q) PROVE BInv(b) /\ BInv(x) OBVIOUS
  <2>1. Off(b, q) BY DEF Off, Nowhere, PlaceOK
  <2>2. Off(x, q) BY <1>2, <1>4 DEF Off, Nowhere
  <2> QED BY <1>4, <1>5, <2>1, <2>2, OffBInv
<1>7. CASE i = None
  <2>1. Cancel(b, q) = b BY <1>2, <1>7 DEF Cancel
  <2>2. Nowhere(b, q) BY <1>2, <1>7 DEF Nowhere, PlaceOK
  <2> QED BY <1>6, <2>1, <2>2
<1>8. CASE i = 0
  <2> DEFINE p == b.dials[q]
             y == [x EXCEPT !.dials[q] = None]
  <2>1. p # None /\ p.q = q BY <1>8 DEF PlaceOK
  <2>2. p \in Waiting BY <1>1, <2>1 DEF Bridge
  <2>3. Cancel(b, q) = DropConnecting(y, p) BY <1>2, <1>8 DEF Cancel, x
  <2>4. /\ y \in Bridge /\ y.conns = b.conns /\ y.wire = b.wire /\ y.gw = b.gw
        /\ y.next = b.next /\ y.up = b.up /\ y.dials = [b.dials EXCEPT ![q] = None]
        /\ y.by_h3 = x.by_h3
    BY <1>4 DEF Bridge
  <2> HIDE DEF y, p
  <2> DEFINE z == DropConnecting(y, p)
  <2>5. /\ z \in Bridge /\ z.conns = y.conns /\ z.dials = y.dials /\ z.wire = y.wire
        /\ z.gw = y.gw /\ z.next = y.next
        /\ z.by_h3 = [y.by_h3 EXCEPT ![q] = None]
        /\ \A r \in Reqs : SameUpload(y.up[r], z.up[r])
    BY <2>1, <2>2, <2>4, DropFields
  <2> HIDE DEF z
  <2>6. ConnsOK(z) BY <2>4, <2>5 DEF But, ConnsOK
  <2>7. \A r \in Reqs \ {q} : ReqOK(z, r)
    <3> SUFFICES ASSUME NEW r \in Reqs \ {q} PROVE ReqOK(z, r) OBVIOUS
    <3>1. z.conns = b.conns /\ z.dials[r] = b.dials[r] /\ z.by_h3[r] = b.by_h3[r]
      BY <1>1, <1>4, <2>4, <2>5 DEF Bridge
    <3>2. \A j \in Ids : SameView(b.conns[j], z.conns[j], r) BY <3>1 DEF SameView
    <3>3. ReqOK(b, r) /\ SameUpload(b.up[r], z.up[r]) BY <2>4, <2>5 DEF But
    <3> QED BY <2>4, <2>5, <3>1, <3>2, <3>3, FrameReq
  <2>8. Twice(z, q) BY <2>4, <2>5 DEF But, Twice, Bodiless, SameUpload
  <2>9. But(z, q) BY <2>5, <2>6, <2>7, <2>8 DEF But
  <2>10. z.dials[q] = None /\ z.by_h3[q] = None BY <1>1, <1>4, <2>4, <2>5 DEF Bridge
  <2>11. \A j \in Ids : ~Pend(z.conns[j], q) /\ Runs(z.conns[j], q) = {}
    BY <1>2, <1>8, <2>4, <2>5 DEF PlaceOK
  <2>12. Off(z, q) BY <1>2, <2>10, <2>11 DEF Off, Nowhere
  <2> QED BY <2>3, <2>4, <2>5, <2>9, <2>12, OffBInv DEF z
<1>9. CASE i \in Ids
  <2>1. b.dials[q] = None /\ \A j \in Ids \ {i} : ~Pend(b.conns[j], q) /\ Runs(b.conns[j], q) = {}
    BY <1>2, <1>9 DEF PlaceOK
  <2> DEFINE mine == {r \in Assigned(b.conns[i]) : r.q = q}
  <2>2. CASE ~Live(b, i)
    <3>1. Cancel(b, q) = x BY <1>2, <1>9, <2>2 DEF Cancel, x
    <3>2. Nowhere(b, q) BY <2>1, <2>2 DEF Nowhere, Live, Pend, Runs, Recs
    <3> QED BY <1>6, <3>1, <3>2
  <2>3. CASE Live(b, i) /\ Pend(b.conns[i], q)
    <3> DEFINE c == b.conns[i]
               p == c.pending
               g == Remove(c, "D")
               y == [x EXCEPT !.conns[i] = Remove(@, "D")]
    <3>1. c \in LiveConn /\ SocketOK(c) /\ PhaseOK(c) BY <1>9, <2>3, LiveTyped
    <3>2. p # None /\ p.q = q BY <2>3 DEF Pend
    <3>3. Cancel(b, q) = DropConnecting(y, p) BY <1>2, <1>9, <2>3, <3>2 DEF Cancel, x
    <3>4. p \in Waiting /\ c.reqs = {} BY <3>1, <3>2 DEF LiveConn, PhaseOK
    <3>5. ConnOK(g) /\ g.at = "gone" BY <3>1, SoundRemovable, RemoveDrops
    <3> HIDE DEF g
    <3>6. y = [x EXCEPT !.conns = [b.conns EXCEPT ![i] = g]] BY <1>4, <1>9 DEF Bridge, g
    <3>7. g \in GoneConn BY <3>5 DEF ConnOK
    <3> HIDE DEF y
    <3>8. /\ y \in Bridge /\ y.conns = [b.conns EXCEPT ![i] = g] /\ y.dials = b.dials
          /\ y.wire = b.wire /\ y.gw = b.gw /\ y.next = b.next /\ y.up = b.up
          /\ y.idle_timer = b.idle_timer /\ y.by_h3 = x.by_h3
      BY <1>1, <1>4, <1>9, <3>6, <3>7 DEF Bridge
    <3>9. \A j \in Ids : Runs(b.conns[j], q) = {} /\ (j # i => ~Pend(b.conns[j], q))
      BY <2>1, <3>4 DEF Runs, Recs
    <3>10. \A r \in Reqs \ {q} : y.by_h3[r] = b.by_h3[r] BY <1>4, <3>8
    <3>11. PendsOnly(b, i, p) BY <2>1, <2>3, <3>2, <3>4, <3>9 DEF PendsOnly
    <3>12. Swapped(y, b, i, g, q) BY <3>8, <3>10 DEF Swapped
    <3> HIDE DEF p, i
    <3>13. /\ But(DropConnecting(y, p), q) /\ Off(DropConnecting(y, p), q)
           /\ DropConnecting(y, p).gw = b.gw
      BY <1>9, <3>2, <3>4, <3>5, <3>11, <3>12, DropConn
    <3> QED BY <3>3, <3>13, OffBInv
  <2>4. CASE Live(b, i) /\ ~Pend(b.conns[i], q) /\ mine = {}
    <3>1. Cancel(b, q) = x BY <1>2, <1>9, <2>4 DEF Cancel, x, Pend, Live
    <3>2. Runs(b.conns[i], q) = {} BY <2>4 DEF Runs, Recs, Assigned
    <3>3. Nowhere(b, q) BY <2>1, <2>4, <3>2 DEF Nowhere
    <3> QED BY <1>6, <3>1, <3>3
  <2>5. CASE Live(b, i) /\ ~Pend(b.conns[i], q) /\ mine # {}
    <3> DEFINE r == CHOOSE r \in mine : TRUE
    <3>1. Cancel(b, q) = End(x, i, r, FALSE) BY <1>2, <1>9, <2>5 DEF Cancel, x, Pend, Live
    <3>2. r \in mine BY <2>5
    <3> HIDE DEF r
    <3>3. r \in Assigned(x.conns[i]) /\ r.q = q BY <1>4, <3>2
    <3>4. Live(x, i) BY <1>4, <2>5 DEF Live
    <3>5. \A j \in Ids : ~Pend(x.conns[j], q) /\ (j # i => Runs(x.conns[j], q) = {})
      BY <1>4, <2>1, <2>5
    <3>6. x.by_h3[q] # 0 /\ x.dials[q] = None BY <1>2, <1>4, <2>1
    <3> HIDE DEF i
    <3>7. But(End(x, i, r, FALSE), q) /\ Off(End(x, i, r, FALSE), q) /\ End(x, i, r, FALSE).gw = x.gw
      BY <1>5, <1>9, <3>3, <3>4, <3>5, <3>6, EndOff
    <3> QED BY <1>4, <3>1, <3>7, OffBInv
  <2> QED BY <2>2, <2>3, <2>4, <2>5
<1> QED BY <1>3, <1>7, <1>8, <1>9

-----------------------------------------------------------------------------
(* The start of an exchange *)

(* d is c with the record r added. *)
OneMore(c, d, r) ==
  /\ d \in LiveConn /\ d.reqs = c.reqs \cup {r} /\ d.active = c.active + 1
  /\ (c.busy \/ c.proto = "h1") => d.busy
  /\ ~d.idle
  /\ d.driver = c.driver /\ d.proto = c.proto /\ d.send = c.send /\ d.pending = c.pending
  /\ d.unreleased = c.unreleased /\ d.due = c.due /\ d.at = c.at /\ d.sock = c.sock
  /\ d.acts = c.acts

(* A connection that may take one more record takes it. *)
LEMMA AddRecord ==
  ASSUME NEW c \in LiveConn, SocketOK(c), PhaseOK(c), CountOK(c), c.pending = None,
         c.proto = "h1" => c.reqs = {}, c.proto = "h2" => c.active < MaxStreams,
         NEW r \in Record, r.st = "assigned", Recs(c, r.q) = {},
         NEW d, OneMore(c, d, r)
  PROVE  /\ ConnOK(d) /\ d.at = c.at
         /\ \A q \in Reqs \ {r.q} : SameView(c, d, q)
         /\ Runs(d, r.q) = {r} /\ ~Pend(d, r.q)
<1> USE DEF OneMore
<1>1. c.at # "gone" /\ c.reqs \subseteq Record BY DEF LiveConn
<1>2. r \notin c.reqs /\ \A s \in c.reqs : s.q # r.q BY <1>1 DEF Recs
<1>3. IsFiniteSet(c.reqs) /\ c.active = Cardinality(c.reqs) BY DEF CountOK
<1>4. IsFiniteSet(c.reqs \cup {r}) /\ Cardinality(c.reqs \cup {r}) = Cardinality(c.reqs) + 1
  BY <1>2, <1>3, FS_AddElement
<1>5. \A s, t \in d.reqs : (d.proto = "h1" \/ s.q = t.q) => s = t BY <1>2 DEF CountOK
<1>6. d.proto = "h2" => d.active <= MaxStreams
  BY OriginPoolAssumption DEF LiveConn
<1>7. (d.proto = "h1" /\ d.at = "pool" /\ d.reqs # {}) => d.busy OBVIOUS
<1>8. IsFiniteSet(d.reqs) /\ d.active = Cardinality(d.reqs) BY <1>3, <1>4
<1>9. CountOK(d) BY <1>5, <1>6, <1>7, <1>8 DEF CountOK
<1>10. PhaseOK(d) BY DEF PhaseOK
<1>11. SocketOK(d) BY DEF SocketOK
<1>12. ConnOK(d) BY <1>1, <1>9, <1>10, <1>11 DEF ConnOK
<1>13. \A q \in Reqs \ {r.q} : SameView(c, d, q) BY <1>1 DEF SameView, Pend, Runs, Recs
<1>14. Runs(d, r.q) = {r} BY <1>1, <1>2 DEF Runs, Recs
<1>15. ~Pend(d, r.q) BY DEF Pend
<1> QED BY <1>12, <1>13, <1>14, <1>15

(* The record that OriginConn::exchange makes. *)
Sent(q, stored, reused, retried) ==
  [q |-> q, st |-> "assigned", ph |-> "sent", stored |-> stored, reused |-> reused,
   retried |-> retried, clean |-> FALSE]

(* z is b with the record r on connection i, and its request led there. *)
Exchanged(z, b, i, r) ==
  /\ z \in Bridge /\ OneMore(b.conns[i], z.conns[i], r)
  /\ z.conns = [b.conns EXCEPT ![i] = z.conns[i]]
  /\ z.dials = b.dials /\ z.wire = b.wire /\ z.gw = b.gw /\ z.next = b.next
  /\ z.by_h3 = [b.by_h3 EXCEPT ![r.q] = i]
  /\ \A p \in Reqs : SameUpload(b.up[p], z.up[p])

LEMMA ExchangeFields ==
  ASSUME NEW b \in Bridge, NEW i \in Ids, NEW q \in Reqs, NEW c \in LiveConn, c = b.conns[i],
         NEW stored \in BOOLEAN, NEW reused \in BOOLEAN, NEW retried \in BOOLEAN,
         NEW z, z = Exchange(b, i, q, stored, reused, retried),
         NEW r, r = Sent(q, stored, reused, retried)
  PROVE  r \in Record /\ Exchanged(z, b, i, r)
<1> DEFINE h1 == c.proto = "h1"
           rs == c.reqs \cup {r}
           ac == c.active + 1
           bz == c.busy \/ h1
           rz == c.rx /\ ~h1
           d == [c EXCEPT !.reqs = rs, !.active = ac, !.busy = bz, !.rx = rz, !.idle = FALSE]
           u == [b.up[q] EXCEPT !.live = IF stored THEN @ + 1 ELSE @]
           cs == [b.conns EXCEPT ![i] = d]
           by == [b.by_h3 EXCEPT ![q] = i]
           us == [b.up EXCEPT ![q] = u]
<1>1. r \in Record /\ r.q = q BY DEF Record, Sent
<1>2. u \in Upload /\ SameUpload(b.up[q], u) BY DEF Bridge, Upload, SameUpload
<1>3. bz \in BOOLEAN /\ rz \in BOOLEAN /\ (c.busy \/ c.proto = "h1" => bz) BY DEF LiveConn
<1>4. rs \in SUBSET Record /\ ac \in Int BY <1>1 DEF LiveConn
<1>5. z = [b EXCEPT !.conns = cs, !.by_h3 = by, !.up = us] BY DEF Exchange, Bridge, Sent
<1> HIDE DEF bz, rz, rs, ac
<1>6. d \in LiveConn BY ZenonT(60), <1>3, <1>4 DEF LiveConn
<1>7. d.reqs = rs /\ d.active = ac /\ d.busy = bz /\ d.idle = FALSE
  BY DEF LiveConn
<1>8. /\ d.driver = c.driver /\ d.proto = c.proto /\ d.send = c.send /\ d.pending = c.pending
      /\ d.unreleased = c.unreleased /\ d.due = c.due /\ d.at = c.at /\ d.sock = c.sock
      /\ d.acts = c.acts
  BY DEF LiveConn
<1> HIDE DEF d, u
<1>9. OneMore(c, d, r) BY <1>3, <1>6, <1>7, <1>8 DEF OneMore, rs, ac
<1>10. cs \in [Ids -> LiveConn \cup GoneConn] /\ cs[i] = d BY <1>6 DEF Bridge
<1>11. by \in [Reqs -> Ids \cup {0, None}] BY DEF Bridge
<1>12. us \in [Reqs -> Upload] /\ \A p \in Reqs : SameUpload(b.up[p], us[p])
  BY <1>2 DEF Bridge, SameUpload
<1>13. cs = [b.conns EXCEPT ![i] = cs[i]] BY <1>10
<1>14. by = [b.by_h3 EXCEPT ![r.q] = i] BY <1>1
<1> HIDE DEF cs, by, us
<1>15. /\ z \in Bridge /\ z.conns = cs /\ z.dials = b.dials /\ z.wire = b.wire /\ z.gw = b.gw
       /\ z.next = b.next /\ z.by_h3 = by /\ z.up = us
  BY <1>5, <1>10, <1>11, <1>12 DEF Bridge
<1> QED BY <1>1, <1>9, <1>10, <1>12, <1>13, <1>14, <1>15 DEF Exchanged

(* A connection that can carry one more exchange of the request q. *)
Takes(c, q) ==
  /\ c.pending = None /\ Recs(c, q) = {}
  /\ c.proto = "h1" => c.reqs = {}
  /\ c.proto = "h2" => c.active < MaxStreams

LEMMA ExchangeBInv ==
  ASSUME NEW b, NEW i \in Ids, NEW q \in Reqs, But(b, q), Nowhere(b, q), Live(b, i),
         Takes(b.conns[i], q), b.gw[q] \notin {"new", "gone"},
         NEW stored \in BOOLEAN, NEW reused \in BOOLEAN, NEW retried \in BOOLEAN,
         reused => b.wire[q] = 0
  PROVE  BInv(Exchange(b, i, q, stored, reused, retried))
<1> DEFINE c == b.conns[i]
           r == Sent(q, stored, reused, retried)
           z == Exchange(b, i, q, stored, reused, retried)
           d == z.conns[i]
<1>1. b \in Bridge BY DEF But
<1>2. c \in LiveConn /\ SocketOK(c) /\ PhaseOK(c) /\ CountOK(c) BY LiveTyped
<1>3. r \in Record /\ r.q = q /\ r.st = "assigned" /\ r.ph = "sent" /\ r.reused = reused
  BY DEF Sent, Record
<1>4. Exchanged(z, b, i, r) BY <1>1, <1>2, ExchangeFields
<1> HIDE DEF r, d, z
<1>5. /\ ConnOK(d) /\ \A p \in Reqs \ {q} : SameView(c, d, p)
      /\ Runs(d, q) = {r} /\ ~Pend(d, q)
  BY ZenonT(60), <1>2, <1>3, <1>4, AddRecord DEF Takes, Exchanged, d
<1>6. /\ z \in Bridge /\ z.conns = [b.conns EXCEPT ![i] = d]
      /\ z.dials = b.dials /\ z.wire = b.wire /\ z.gw = b.gw /\ z.next = b.next
      /\ z.by_h3 = [b.by_h3 EXCEPT ![q] = i]
      /\ \A p \in Reqs : SameUpload(b.up[p], z.up[p])
  BY <1>3, <1>4 DEF Exchanged, d
<1>7. ConnsOK(z) BY <1>1, <1>6, <1>5, PutConn DEF But
<1>8. \A p \in Reqs \ {q} : ReqOK(z, p)
  <2> SUFFICES ASSUME NEW p \in Reqs \ {q} PROVE ReqOK(z, p) OBVIOUS
  <2>1. \A j \in Ids : SameView(b.conns[j], z.conns[j], p) BY <1>1, <1>6, <1>5, PutView
  <2>2. ReqOK(b, p) /\ SameUpload(b.up[p], z.up[p]) BY <1>6 DEF But
  <2>3. z.by_h3[p] = b.by_h3[p] BY <1>1, <1>6 DEF Bridge
  <2> QED BY <1>6, <2>1, <2>2, <2>3, FrameReq
<1>9. z.by_h3[q] = i /\ i # 0 BY <1>1, <1>6 DEF Bridge, Ids
<1>10. /\ z.conns[i] = d
       /\ \A j \in Ids \ {i} : ~Pend(z.conns[j], q) /\ Runs(z.conns[j], q) = {}
  BY <1>1, <1>6 DEF Bridge, Nowhere
<1>11. z.dials[q] = None BY <1>6 DEF Nowhere
<1>12. WireOK(z, q)
  <2>1. Twice(z, q) BY <1>6 DEF But, Twice, Bodiless, SameUpload
  <2> QED BY <1>3, <1>6, <1>5, <1>10, <1>11, <2>1 DEF WireOK
<1>13. PlaceOK(z, q) BY <1>5, <1>9, <1>10, <1>11 DEF PlaceOK
<1>14. OwnerOK(z, q) BY <1>6, <1>5, <1>10 DEF OwnerOK, Nowhere
<1> QED BY <1>6, <1>7, <1>8, <1>12, <1>13, <1>14 DEF BInv, ReqOK, z

-----------------------------------------------------------------------------
(* What the invariant does not see *)

LEMMA SameBridge ==
  ASSUME NEW b, BInv(b), NEW d \in Bridge, d.conns = b.conns, d.next = b.next, d.dials = b.dials,
         d.by_h3 = b.by_h3, d.wire = b.wire,
         \A q \in Reqs : d.gw[q] = b.gw[q] \/ d.gw[q] \in {"done", "fin_due"},
         \A q \in Reqs : SameUpload(b.up[q], d.up[q])
  PROVE  BInv(d)
<1>1. ConnsOK(d) BY DEF BInv, ConnsOK
<1>2. \A q \in Reqs : ReqOK(d, q) BY SameConns, FrameReq DEF BInv
<1> QED BY <1>1, <1>2 DEF BInv

LEMMA FaultBInv ==
  ASSUME NEW b, BInv(b)
  PROVE  BInv([b EXCEPT !.faults = @ + 1])
<1> DEFINE d == [b EXCEPT !.faults = @ + 1]
<1>1. /\ d \in Bridge /\ d.conns = b.conns /\ d.next = b.next /\ d.dials = b.dials
      /\ d.by_h3 = b.by_h3 /\ d.wire = b.wire /\ d.gw = b.gw /\ d.up = b.up
  BY DEF BInv, Bridge
<1> HIDE DEF d
<1>2. \A q \in Reqs : SameUpload(b.up[q], d.up[q]) BY <1>1 DEF SameUpload
<1> QED BY <1>1, <1>2, SameBridge DEF d

(* One request changes, and no connection. *)
LEMMA FrameBut ==
  ASSUME NEW b, NEW q \in Reqs, But(b, q), NEW d \in Bridge, d.conns = b.conns, d.next = b.next,
         Twice(d, q),
         \A p \in Reqs \ {q} : /\ d.dials[p] = b.dials[p] /\ d.by_h3[p] = b.by_h3[p]
                               /\ d.wire[p] = b.wire[p] /\ d.gw[p] = b.gw[p]
                               /\ SameUpload(b.up[p], d.up[p])
  PROVE  But(d, q)
<1>1. ConnsOK(d) BY DEF But, ConnsOK
<1>2. \A p \in Reqs \ {q} : ReqOK(d, p) BY SameConns, FrameReq DEF But
<1> QED BY <1>1, <1>2 DEF But

(* Of the whole, what is left for one request. *)
LEMMA ButOne ==
  ASSUME NEW b, BInv(b), NEW q \in Reqs
  PROVE  But(b, q) /\ PlaceOK(b, q) /\ OwnerOK(b, q) /\ WireOK(b, q) /\ b \in Bridge
BY DEF BInv, But, ReqOK, WireOK

(* z is b with the request q dialling for p. *)
Dialled(z, b, q, p) ==
  /\ z \in Bridge /\ z.conns = b.conns /\ z.next = b.next /\ z.wire = b.wire /\ z.gw = b.gw
  /\ z.dials = [b.dials EXCEPT ![q] = p] /\ z.by_h3 = [b.by_h3 EXCEPT ![q] = 0] /\ z.up = b.up

LEMMA DialBInv ==
  ASSUME NEW b, NEW q \in Reqs, But(b, q), Nowhere(b, q), b.gw[q] \notin {"new", "gone"},
         NEW p \in Waiting, p.q = q, MaySend(p, b.wire[q], b.up[q]),
         NEW z, Dialled(z, b, q, p)
  PROVE  BInv(z)
<1> USE DEF Dialled
<1>1. b \in Bridge BY DEF But
<1>2. z.dials[q] = p /\ z.by_h3[q] = 0 /\ p # None /\ 0 \notin Ids
  BY <1>1, OriginPoolAssumption DEF Bridge, Ids
<1>3. \A r \in Reqs \ {q} : z.dials[r] = b.dials[r] /\ z.by_h3[r] = b.by_h3[r]
  BY <1>1 DEF Bridge
<1>4. \A r \in Reqs : SameUpload(b.up[r], z.up[r]) BY DEF SameUpload
<1>5. Twice(z, q) BY DEF But, Twice
<1>6. But(z, q) BY <1>3, <1>4, <1>5, FrameBut
<1>7. \A i \in Ids : ~Pend(z.conns[i], q) /\ Runs(z.conns[i], q) = {} BY DEF Nowhere
<1>8. WireOK(z, q) BY <1>2, <1>5, <1>7 DEF WireOK
<1>9. PlaceOK(z, q) BY <1>2, <1>7 DEF PlaceOK
<1>10. OwnerOK(z, q) BY <1>2 DEF OwnerOK, Nowhere
<1> QED BY <1>6, <1>8, <1>9, <1>10 DEF BInv, But, ReqOK

-----------------------------------------------------------------------------
(* Callbacks that concern one request *)

(* An upload whose end is known. *)
LEMMA UploadTyped ==
  ASSUME NEW u \in Upload, NEW f \in BOOLEAN, NEW e \in BOOLEAN,
         NEW v, v = [u EXCEPT !.fin = f, !.empty = e]
  PROVE  v \in Upload /\ v.fin = f /\ v.empty = e
<1>1. /\ [u EXCEPT !.fin = TRUE, !.empty = TRUE] \in Upload
      /\ [u EXCEPT !.fin = TRUE, !.empty = FALSE] \in Upload
      /\ [u EXCEPT !.fin = FALSE, !.empty = TRUE] \in Upload
      /\ [u EXCEPT !.fin = FALSE, !.empty = FALSE] \in Upload
  BY DEF Upload
<1>2. f \in {TRUE, FALSE} /\ e \in {TRUE, FALSE} OBVIOUS
<1>3. v \in Upload BY <1>1, <1>2, Zenon
<1>4. v.fin = f /\ v.empty = e BY DEF Upload
<1> QED BY <1>3, <1>4

(* Origin::start. *)
LEMMA StartReqBInv ==
  ASSUME BInv(o), NEW q \in Reqs, NEW ver \in {"h1", "any"}, NEW fin \in BOOLEAN,
         StartReq(q, ver, fin)
  PROVE  BInv(o') /\ pc' = "pump"
<1> DEFINE u == [o.up[q] EXCEPT !.fin = fin, !.empty = fin]
           b == [o EXCEPT !.gw[q] = "origin", !.up[q].fin = fin, !.up[q].empty = fin]
           hits == {i \in Pooled(o) : /\ o.conns[i].proto # None
                                      /\ Accepts(ver, o.conns[i].proto)
                                      /\ TakesRequest(o.conns[i])}
           dial == [b EXCEPT !.dials[q] = Connecting(q, ver, FALSE, FALSE), !.by_h3[q] = 0]
           refused == [o EXCEPT !.gw[q] = "done"]
<1>1. /\ o.gw[q] = "new"
      /\ \/ \E i \in hits : Callback(Exchange(b, i, q, TRUE, TRUE, FALSE))
         \/ Callback(dial)
         \/ Fault(refused)
  BY DEF StartReq
<1>2. But(o, q) /\ PlaceOK(o, q) /\ OwnerOK(o, q) /\ o \in Bridge BY ButOne
<1>3. /\ o.wire[q] = 0 /\ o.dials[q] = None
      /\ \A i \in Ids : ~Pend(o.conns[i], q) /\ Recs(o.conns[i], q) = {}
  BY <1>1, <1>2 DEF OwnerOK
<1>4. u \in Upload
  <2>1. o.up[q] \in Upload BY <1>2 DEF Bridge
  <2> QED BY <2>1, UploadTyped
<1>5. b = [o EXCEPT !.gw = [o.gw EXCEPT ![q] = "origin"], !.up = [o.up EXCEPT ![q] = u]]
  BY <1>2 DEF Bridge, Upload
<1> HIDE DEF u, b
<1>6. /\ b \in Bridge /\ b.conns = o.conns /\ b.next = o.next /\ b.dials = o.dials
      /\ b.by_h3 = o.by_h3 /\ b.wire = o.wire /\ b.gw = [o.gw EXCEPT ![q] = "origin"]
      /\ b.up = [o.up EXCEPT ![q] = u]
  BY <1>2, <1>4, <1>5 DEF Bridge
<1>7. b.gw[q] = "origin" /\ b.wire[q] = 0 /\ Twice(b, q) BY <1>2, <1>3, <1>6 DEF Bridge, Twice
<1>8. \A p \in Reqs \ {q} : b.gw[p] = o.gw[p] /\ SameUpload(o.up[p], b.up[p])
  BY <1>2, <1>6 DEF Bridge, SameUpload
<1>9. But(b, q) BY <1>2, <1>6, <1>7, <1>8, FrameBut
<1>10. Nowhere(b, q) BY <1>3, <1>6 DEF Nowhere, Runs
<1>11. CASE \E i \in hits : Callback(Exchange(b, i, q, TRUE, TRUE, FALSE))
  <2>1. PICK i \in hits : Callback(Exchange(b, i, q, TRUE, TRUE, FALSE)) BY <1>11
  <2>2. i \in Ids /\ Live(o, i) /\ o.conns[i].at = "pool" /\ TakesRequest(o.conns[i])
    BY DEF Pooled, Live
  <2>3. o.conns[i] \in LiveConn /\ PhaseOK(o.conns[i]) /\ CountOK(o.conns[i])
    BY <2>2, LiveTyped
  <2>4. Takes(o.conns[i], q)
    BY <1>3, <2>2, <2>3 DEF Takes, TakesRequest, PhaseOK, CountOK, LiveConn
  <2>5. Live(b, i) /\ Takes(b.conns[i], q) BY <1>6, <2>2, <2>4 DEF Live
  <2>6. BInv(Exchange(b, i, q, TRUE, TRUE, FALSE))
    BY <1>7, <1>9, <1>10, <2>2, <2>5, ExchangeBInv
  <2> QED BY <2>1, <2>6 DEF Callback
<1>12. CASE Callback(dial)
  <2> DEFINE p == Connecting(q, ver, FALSE, FALSE)
  <2>1. p \in Waiting /\ p.q = q BY DEF Connecting, Waiting
  <2>2. MaySend(p, b.wire[q], b.up[q]) BY <1>7 DEF MaySend
  <2> HIDE DEF p
  <2>3. Dialled(dial, b, q, p) BY <1>6, <2>1 DEF Dialled, Bridge, p
  <2>4. BInv(dial) BY <1>7, <1>9, <1>10, <2>1, <2>2, <2>3, DialBInv
  <2> QED BY <1>12, <2>4 DEF Callback
<1>13. CASE Fault(refused)
  <2>1. /\ refused \in Bridge /\ refused.conns = o.conns /\ refused.next = o.next
        /\ refused.dials = o.dials /\ refused.by_h3 = o.by_h3 /\ refused.wire = o.wire
        /\ refused.up = o.up /\ refused.gw = [o.gw EXCEPT ![q] = "done"]
    BY <1>2 DEF Bridge
  <2> HIDE DEF refused
  <2>2. \A p \in Reqs : /\ refused.gw[p] = o.gw[p] \/ refused.gw[p] \in {"done", "fin_due"}
                        /\ SameUpload(o.up[p], refused.up[p])
    BY <1>2, <2>1 DEF Bridge, SameUpload
  <2>3. BInv(refused) BY <2>1, <2>2, SameBridge
  <2>4. BInv([refused EXCEPT !.faults = @ + 1]) BY <2>3, FaultBInv
  <2> QED BY <1>13, <2>4 DEF Fault, Callback
<1> QED BY <1>1, <1>11, <1>12, <1>13

(* The H3 body reached its fin: nothing of the request was retried yet. *)
LEMMA UploadFinBInv ==
  ASSUME BInv(o), NEW q \in Reqs, UploadFin(q)
  PROVE  BInv(o') /\ pc' = "pump"
<1>1. PICK empty \in BOOLEAN : Callback([o EXCEPT !.up[q].fin = TRUE, !.up[q].empty = empty])
  BY DEF UploadFin
<1> DEFINE u == [o.up[q] EXCEPT !.fin = TRUE, !.empty = empty]
           z == [o EXCEPT !.up[q].fin = TRUE, !.up[q].empty = empty]
<1>2. But(o, q) /\ PlaceOK(o, q) /\ OwnerOK(o, q) /\ WireOK(o, q) /\ o \in Bridge BY ButOne
<1>3. o.up \in [Reqs -> Upload] /\ o.up[q] \in Upload BY <1>2 DEF Bridge
<1>4. u \in Upload BY <1>3, UploadTyped
<1>5. z = [o EXCEPT !.up = [o.up EXCEPT ![q] = u]] BY <1>2 DEF Bridge, Upload
<1> HIDE DEF u, z
<1>6. /\ z \in Bridge /\ z.conns = o.conns /\ z.next = o.next /\ z.dials = o.dials
      /\ z.by_h3 = o.by_h3 /\ z.wire = o.wire /\ z.gw = o.gw /\ z.up = [o.up EXCEPT ![q] = u]
  BY <1>2, <1>4, <1>5 DEF Bridge
<1>7. ~Bodiless(o.up[q]) BY DEF UploadFin, Bodiless
<1>8. o.wire[q] # 2 /\ Twice(z, q) BY <1>2, <1>6, <1>7 DEF WireOK, Twice
<1>9. \A p \in Reqs \ {q} : SameUpload(o.up[p], z.up[p]) BY <1>3, <1>6 DEF SameUpload
<1>10. But(z, q) BY <1>2, <1>6, <1>8, <1>9, FrameBut
<1>11. WireOK(z, q) BY <1>2, <1>6, <1>7, <1>8 DEF WireOK, MaySend
<1>12. PlaceOK(z, q) BY <1>2, <1>6 DEF PlaceOK
<1>13. OwnerOK(z, q) BY <1>2, <1>6 DEF OwnerOK, Nowhere
<1>14. BInv(z) BY <1>10, <1>11, <1>12, <1>13 DEF But, BInv, ReqOK
<1> QED BY <1>1, <1>14 DEF Callback, z

(* The relay ended at the gateway, with or without a cancel. *)
LEMMA GwEndsBInv ==
  ASSUME BInv(o), NEW q \in Reqs, GwEnds(q)
  PROVE  BInv(o') /\ pc' = "pump"
<1> DEFINE d == [o EXCEPT !.gw[q] = "done"]
           b == AbortUpload(d, q)
<1>1. Callback(b) \/ Fault(b) \/ Fault(Cancel(b, q)) BY DEF GwEnds
<1>2. o \in Bridge BY DEF BInv
<1>3. /\ d \in Bridge /\ d.conns = o.conns /\ d.next = o.next /\ d.dials = o.dials
      /\ d.by_h3 = o.by_h3 /\ d.wire = o.wire /\ d.gw = [o.gw EXCEPT ![q] = "done"] /\ d.up = o.up
  BY <1>2 DEF Bridge
<1>4. d.gw[q] = "done" /\ \A p \in Reqs : d.gw[p] = o.gw[p] \/ d.gw[p] \in {"done", "fin_due"}
  BY <1>2, <1>3 DEF Bridge
<1> HIDE DEF d
<1>5. /\ b \in Bridge /\ b.conns = o.conns /\ b.next = o.next /\ b.dials = o.dials
      /\ b.by_h3 = o.by_h3 /\ b.wire = o.wire /\ b.gw = d.gw
      /\ \A p \in Reqs : SameUpload(o.up[p], b.up[p])
  BY <1>3, AbortFields
<1> HIDE DEF b
<1>6. BInv(b) BY <1>4, <1>5, SameBridge
<1>7. But(b, q) /\ PlaceOK(b, q) BY <1>6, ButOne
<1>8. BInv(Cancel(b, q)) BY <1>4, <1>5, <1>7, CancelBInv
<1>9. BInv([b EXCEPT !.faults = @ + 1]) BY <1>6, FaultBInv
<1>10. BInv([Cancel(b, q) EXCEPT !.faults = @ + 1]) BY <1>8, FaultBInv
<1> QED BY <1>1, <1>6, <1>9, <1>10 DEF Callback, Fault

(* The H3 request is gone, and with it its place on the bridge. *)
LEMMA H3ClosedBInv ==
  ASSUME BInv(o), NEW q \in Reqs, H3Closed(q)
  PROVE  BInv(o') /\ pc' = "pump"
<1> DEFINE b == [o EXCEPT !.gw[q] = "gone"]
<1>1. Callback(Cancel(b, q)) BY DEF H3Closed
<1>2. But(o, q) /\ PlaceOK(o, q) /\ WireOK(o, q) /\ o \in Bridge BY ButOne
<1>3. /\ b \in Bridge /\ b.conns = o.conns /\ b.next = o.next /\ b.dials = o.dials
      /\ b.by_h3 = o.by_h3 /\ b.wire = o.wire /\ b.gw = [o.gw EXCEPT ![q] = "gone"] /\ b.up = o.up
  BY <1>2 DEF Bridge
<1> HIDE DEF b
<1>4. b.gw[q] = "gone" /\ \A p \in Reqs \ {q} : b.gw[p] = o.gw[p] /\ SameUpload(o.up[p], b.up[p])
  BY <1>2, <1>3 DEF Bridge, SameUpload
<1>5. Twice(b, q) BY <1>2, <1>3 DEF WireOK, Twice
<1>6. But(b, q) BY <1>2, <1>3, <1>4, <1>5, FrameBut
<1>7. PlaceOK(b, q) BY <1>2, <1>3 DEF PlaceOK
<1>8. BInv(Cancel(b, q)) BY <1>4, <1>6, <1>7, CancelBInv
<1> QED BY <1>1, <1>8 DEF Callback

(* hyper lets go of a body. *)
LEMMA HyperDropsBInv ==
  ASSUME BInv(o), NEW q \in Reqs, HyperDrops(q)
  PROVE  BInv(o') /\ pc' = "pump"
<1> DEFINE u == [o.up[q] EXCEPT !.live = @ - 1]
           z == [o EXCEPT !.up[q].live = @ - 1]
<1>1. o \in Bridge BY DEF BInv
<1>2. u \in Upload /\ SameUpload(o.up[q], u) BY <1>1 DEF Bridge, Upload, SameUpload
<1>3. z = [o EXCEPT !.up = [o.up EXCEPT ![q] = u]] BY <1>1 DEF Bridge
<1>4. o' = z /\ pc' = "pump" BY DEF HyperDrops, Poll
<1> HIDE DEF u, z
<1>5. /\ z \in Bridge /\ z.conns = o.conns /\ z.next = o.next /\ z.dials = o.dials
      /\ z.by_h3 = o.by_h3 /\ z.wire = o.wire /\ z.gw = o.gw /\ z.up = [o.up EXCEPT ![q] = u]
  BY <1>1, <1>2, <1>3 DEF Bridge
<1>6. \A p \in Reqs : SameUpload(o.up[p], z.up[p]) BY <1>1, <1>2, <1>5 DEF Bridge, SameUpload
<1>7. BInv(z) BY <1>5, <1>6, SameBridge
<1> QED BY <1>4, <1>7

-----------------------------------------------------------------------------
(* Dials *)

(* A request that dials is nowhere else. *)
LEMMA DialsAlone ==
  ASSUME BInv(o), NEW q \in Reqs, o.dials[q] # None
  PROVE  /\ o.dials[q] \in Waiting /\ o.dials[q].q = q /\ o.by_h3[q] = 0
         /\ o.gw[q] \notin {"new", "gone"}
         /\ MaySend(o.dials[q], o.wire[q], o.up[q])
         /\ \A i \in Ids : ~Pend(o.conns[i], q) /\ Runs(o.conns[i], q) = {}
<1>1. PlaceOK(o, q) /\ OwnerOK(o, q) /\ WireOK(o, q) /\ o \in Bridge BY ButOne
<1>2. o.dials[q] \in Waiting BY <1>1 DEF Bridge
<1>3. 0 \notin Ids BY DEF Ids
<1> QED BY <1>1, <1>2, <1>3 DEF PlaceOK, OwnerOK, WireOK, Nowhere

(* A dial failed: the requester is told. *)
LEMMA DialErrBInv ==
  ASSUME BInv(o), NEW q \in Reqs, DialErr(q)
  PROVE  BInv(o') /\ pc' = "pump"
<1> DEFINE p == o.dials[q]
           b == [o EXCEPT !.dials[q] = None]
           y == DropConnecting(b, p)
<1>1. p # None /\ Fault(Fail(y, q)) BY DEF DialErr
<1>2. /\ p \in Waiting /\ p.q = q /\ o.gw[q] # "new"
      /\ \A i \in Ids : ~Pend(o.conns[i], q) /\ Runs(o.conns[i], q) = {}
  BY <1>1, DialsAlone
<1>3. But(o, q) /\ WireOK(o, q) /\ o \in Bridge BY ButOne
<1>4. /\ b \in Bridge /\ b.conns = o.conns /\ b.next = o.next /\ b.by_h3 = o.by_h3
      /\ b.dials = [o.dials EXCEPT ![q] = None] /\ b.wire = o.wire /\ b.gw = o.gw /\ b.up = o.up
  BY <1>3 DEF Bridge
<1> HIDE DEF b, p
<1>5. /\ y \in Bridge /\ y.conns = b.conns /\ y.dials = b.dials /\ y.wire = b.wire
      /\ y.gw = b.gw /\ y.next = b.next /\ y.by_h3 = [b.by_h3 EXCEPT ![q] = None]
      /\ \A r \in Reqs : SameUpload(b.up[r], y.up[r])
  BY <1>2, <1>4, DropFields
<1> HIDE DEF y
<1>6. \A r \in Reqs \ {q} : /\ y.dials[r] = o.dials[r] /\ y.by_h3[r] = o.by_h3[r]
                            /\ SameUpload(o.up[r], y.up[r])
  BY <1>3, <1>4, <1>5 DEF Bridge
<1>7. Twice(y, q) BY <1>3, <1>4, <1>5 DEF WireOK, Twice, Bodiless, SameUpload
<1>8. But(y, q)
  <2>1. y \in Bridge /\ y.conns = o.conns /\ y.next = o.next /\ y.wire = o.wire /\ y.gw = o.gw
    BY <1>4, <1>5
  <2> QED BY <1>3, <1>6, <1>7, <2>1, FrameBut
<1>9. y.dials[q] = None /\ y.by_h3[q] = None /\ None # 0
  BY <1>3, <1>4, <1>5, OriginPoolAssumption DEF Bridge
<1>10. Off(y, q) BY <1>2, <1>4, <1>5, <1>9 DEF Off, Nowhere
<1>11. BInv(Fail(y, q)) BY <1>2, <1>4, <1>5, <1>8, <1>10, FailOff
<1>12. BInv([Fail(y, q) EXCEPT !.faults = @ + 1]) BY <1>11, FaultBInv
<1> QED BY <1>1, <1>12 DEF Fault, Callback

(* A new connection, its requester pending. *)
LEMMA NewConnOK ==
  ASSUME NEW p \in Waiting, NEW https \in BOOLEAN,
         NEW c, c = (IF https THEN NewConn(p) ELSE [NewConn(p) EXCEPT !.driver = "hs", !.proto = "h1"])
  PROVE  /\ ConnOK(c) /\ c \in LiveConn /\ c.at # "gone" /\ c.pending = p /\ c.reqs = {}
<1>1. p # None /\ None # "h1" BY OriginPoolAssumption
<1>2. /\ c \in LiveConn /\ c.at = "pool" /\ c.pending = p /\ c.reqs = {} /\ c.sock = "open"
      /\ c.acts = 0 /\ c.active = 0 /\ ~c.send /\ ~c.idle /\ c.unreleased = 0
      /\ c.driver \in {"tls", "hs"} /\ (c.driver = "tls" \/ c.proto # None) /\ c.proto \in {None, "h1"}
  <2> DEFINE k == NewConn(p)
  <2>1. /\ k \in LiveConn /\ k.at = "pool" /\ k.pending = p /\ k.reqs = {} /\ k.sock = "open"
        /\ k.acts = 0 /\ k.active = 0 /\ ~k.send /\ ~k.idle /\ k.unreleased = 0
        /\ k.driver = "tls" /\ k.proto = None
    BY <1>1 DEF NewConn, LiveConn
  <2> HIDE DEF k
  <2>2. CASE https BY <2>1, <2>2 DEF k
  <2>3. CASE ~https
    <3>1. c = [k EXCEPT !.driver = "hs", !.proto = "h1"] BY <2>3 DEF k
    <3> QED BY ZenonT(60), <1>1, <2>1, <3>1 DEF LiveConn
  <2> QED BY <2>2, <2>3
<1>3. SocketOK(c) BY <1>2 DEF SocketOK
<1>4. PhaseOK(c) BY <1>1, <1>2 DEF PhaseOK
<1>5. IsFiniteSet({}) /\ Cardinality({}) = 0 BY FS_EmptySet
<1>6. None # "h2" BY OriginPoolAssumption
<1>7. CountOK(c) BY <1>2, <1>5, <1>6 DEF CountOK
<1> QED BY <1>2, <1>3, <1>4, <1>7 DEF ConnOK

LEMMA DialOkBInv ==
  ASSUME BInv(o), NEW q \in Reqs, NEW https \in BOOLEAN, DialOk(q, https)
  PROVE  BInv(o') /\ pc' = "pump"
<1> DEFINE p == o.dials[q]
           i == o.next
           c == IF https THEN NewConn(p) ELSE [NewConn(p) EXCEPT !.driver = "hs", !.proto = "h1"]
           z == [o EXCEPT !.dials[q] = None, !.next = @ + 1, !.by_h3[q] = i, !.conns[i] = c]
<1>1. p # None /\ i \in Ids /\ o' = z /\ pc' = "pump" BY DEF DialOk, Callback
<1>2. /\ p \in Waiting /\ p.q = q /\ o.gw[q] \notin {"new", "gone"}
      /\ MaySend(p, o.wire[q], o.up[q])
      /\ \A j \in Ids : ~Pend(o.conns[j], q) /\ Runs(o.conns[j], q) = {}
  BY <1>1, DialsAlone
<1>3. But(o, q) /\ WireOK(o, q) /\ o \in Bridge BY ButOne
<1>4. ConnOK(c) /\ c \in LiveConn /\ c.at # "gone" /\ c.pending = p /\ c.reqs = {}
  BY <1>2, NewConnOK
<1>5. o.conns[i].at = "gone" /\ i \in Nat BY <1>1, <1>3 DEF But, ConnsOK, Ids
<1> HIDE DEF c
<1>6. /\ z \in Bridge /\ z.conns = [o.conns EXCEPT ![i] = c] /\ z.next = i + 1
      /\ z.by_h3 = [o.by_h3 EXCEPT ![q] = i] /\ z.dials = [o.dials EXCEPT ![q] = None]
      /\ z.wire = o.wire /\ z.gw = o.gw /\ z.up = o.up
  <2> DEFINE cs == [o.conns EXCEPT ![i] = c]
             by == [o.by_h3 EXCEPT ![q] = i]
             ds == [o.dials EXCEPT ![q] = None]
  <2>1. z = [o EXCEPT !.dials = ds, !.next = i + 1, !.by_h3 = by, !.conns = cs] BY <1>3 DEF Bridge
  <2>2. cs \in [Ids -> LiveConn \cup GoneConn] BY <1>3, <1>4 DEF Bridge
  <2>3. by \in [Reqs -> Ids \cup {0, None}] BY <1>1, <1>3 DEF Bridge
  <2>4. ds \in [Reqs -> Waiting \cup {None}] BY <1>3 DEF Bridge
  <2>5. i + 1 \in Nat BY <1>5
  <2> HIDE DEF cs, by, ds, z
  <2>6. /\ z \in Bridge /\ z.conns = cs /\ z.next = i + 1 /\ z.by_h3 = by /\ z.dials = ds
        /\ z.wire = o.wire /\ z.gw = o.gw /\ z.up = o.up
    BY <1>3, <2>1, <2>2, <2>3, <2>4, <2>5 DEF Bridge
  <2> QED BY <2>6 DEF cs, by, ds
<1> HIDE DEF z
<1>7. z.conns[i] = c /\ \A j \in Ids \ {i} : z.conns[j] = o.conns[j] BY <1>1, <1>3, <1>6 DEF Bridge
<1>8. ConnsOK(z)
  <2> SUFFICES ASSUME NEW j \in Ids
               PROVE  ConnOK(z.conns[j]) /\ (j >= z.next => z.conns[j].at = "gone")
    BY DEF ConnsOK
  <2>1. CASE j = i BY <1>4, <1>5, <1>6, <1>7, <2>1
  <2>2. CASE j # i
    <3>1. j >= z.next => j >= o.next BY <1>5, <1>6 DEF Ids
    <3> QED BY <1>3, <1>7, <2>2, <3>1 DEF But, ConnsOK
  <2> QED BY <2>1, <2>2
<1>9. \A r \in Reqs \ {q} : ReqOK(z, r)
  <2> SUFFICES ASSUME NEW r \in Reqs \ {q} PROVE ReqOK(z, r) OBVIOUS
  <2>1. SameView(o.conns[i], c, r) BY <1>2, <1>4, <1>5 DEF SameView, Pend, Runs, Recs
  <2>2. \A j \in Ids : SameView(o.conns[j], z.conns[j], r) BY <1>1, <1>3, <1>6, <2>1, PutView
  <2>3. z.by_h3[r] = o.by_h3[r] /\ z.dials[r] = o.dials[r] BY <1>3, <1>6 DEF Bridge
  <2>4. ReqOK(o, r) /\ SameUpload(o.up[r], z.up[r]) BY <1>3, <1>6 DEF But, SameUpload
  <2> QED BY <1>6, <2>2, <2>3, <2>4, FrameReq
<1>10. z.by_h3[q] = i /\ z.dials[q] = None /\ i # 0 BY <1>1, <1>3, <1>6 DEF Bridge, Ids
<1>11. p # None /\ Pend(c, q) /\ Runs(c, q) = {} BY <1>1, <1>2, <1>4 DEF Pend, Runs, Recs
<1>12. Twice(z, q) BY <1>3, <1>6 DEF WireOK, Twice
<1>13. WireOK(z, q)
  BY <1>2, <1>4, <1>6, <1>7, <1>10, <1>11, <1>12 DEF WireOK
<1>14. PlaceOK(z, q) BY <1>2, <1>7, <1>10 DEF PlaceOK
<1>15. OwnerOK(z, q) BY <1>1, <1>2, <1>6, <1>7, <1>11 DEF OwnerOK, Nowhere
<1> QED BY <1>1, <1>6, <1>8, <1>9, <1>13, <1>14, <1>15 DEF BInv, ReqOK

-----------------------------------------------------------------------------
(* Callbacks and polls that concern one connection *)

(* One connection changes, and no request sees it. *)
LEMMA PutBInv ==
  ASSUME NEW b, BInv(b), NEW i \in Ids, NEW c, ConnOK(c), c.at = "gone" \/ Live(b, i),
         \A q \in Reqs : SameView(b.conns[i], c, q),
         NEW z, z = [b EXCEPT !.conns = [b.conns EXCEPT ![i] = c]]
  PROVE  BInv(z)
<1>1. b \in Bridge /\ ConnsOK(b) BY DEF BInv
<1>2. c \in LiveConn \cup GoneConn BY ConnTyped
<1>3. /\ z \in Bridge /\ z.conns = [b.conns EXCEPT ![i] = c] /\ z.next = b.next
      /\ z.dials = b.dials /\ z.by_h3 = b.by_h3 /\ z.wire = b.wire /\ z.gw = b.gw /\ z.up = b.up
  BY <1>1, <1>2 DEF Bridge
<1>4. ConnsOK(z) BY <1>1, <1>3, PutConn
<1>5. \A q \in Reqs : ReqOK(z, q)
  <2> SUFFICES ASSUME NEW q \in Reqs PROVE ReqOK(z, q) OBVIOUS
  <2>1. \A j \in Ids : SameView(b.conns[j], z.conns[j], q) BY <1>1, <1>3, PutView
  <2>2. ReqOK(b, q) /\ SameUpload(b.up[q], z.up[q]) BY <1>3 DEF BInv, SameUpload
  <2> QED BY <1>3, <2>1, <2>2, FrameReq
<1> QED BY <1>3, <1>4, <1>5 DEF BInv

(* fail_conn of a connection as it is. *)
LEMMA FailConnHere ==
  ASSUME NEW b, BInv(b), NEW i \in Ids, Live(b, i), b.conns[i].pending # None
  PROVE  BInv(FailConn(b, i))
<1>1. b \in Bridge BY DEF BInv
<1>2. Removable(b.conns[i]) BY LiveTyped, SoundRemovable
<1>3. [b.conns EXCEPT ![i] = b.conns[i]] = b.conns BY <1>1 DEF Bridge
<1>4. b = [b EXCEPT !.conns = b.conns] BY <1>1 DEF Bridge
<1> QED BY <1>1, <1>2, <1>3, <1>4, FailConnBInv

(* on_tcp_end(Error). *)
LEMMA TcpErrBInv ==
  ASSUME BInv(o), NEW i \in Ids, TcpErr(i)
  PROVE  /\ BInv(o')
         /\ \/ pc' = "pump"
            \/ /\ pc' = pc /\ o'.idle_timer = o.idle_timer
               /\ \A j \in Ids : Live(o, j)' <=> Live(o, j)
<1> DEFINE c == o.conns[i]
           d == [c EXCEPT !.sock = "lost"]
           b == [o EXCEPT !.conns[i].sock = "lost"]
<1>1. c.sock = "open" BY DEF TcpErr
<1>2. o \in Bridge /\ ConnOK(c) BY DEF BInv, ConnsOK
<1>3. Live(o, i) BY <1>1, <1>2 DEF ConnOK, GoneConn, Live
<1>4. c \in LiveConn /\ SocketOK(c) /\ PhaseOK(c) /\ CountOK(c) BY <1>3, LiveTyped
<1>5. /\ d \in LiveConn /\ d.sock = "lost" /\ d.acts = c.acts /\ d.at = c.at /\ d.due = c.due
      /\ d.driver = c.driver /\ d.proto = c.proto /\ d.send = c.send /\ d.pending = c.pending
      /\ d.busy = c.busy /\ d.active = c.active /\ d.unreleased = c.unreleased
      /\ d.idle = c.idle /\ d.reqs = c.reqs
  BY <1>4 DEF LiveConn
<1>6. b = [o EXCEPT !.conns = [o.conns EXCEPT ![i] = d]] BY <1>2 DEF Bridge
<1> HIDE DEF d, b
<1>7. PhaseOK(d) /\ CountOK(d) BY <1>4, <1>5 DEF PhaseOK, CountOK
<1>8. Removable(d) BY <1>1, <1>4, <1>5 DEF SocketOK, Removable
<1>9. \A q \in Reqs : SameView(c, d, q) BY <1>5 DEF SameView, Pend, Runs, Recs
<1>10. CASE c.at # "pool"
  <2>1. o' = b /\ pc' = pc BY <1>10 DEF TcpErr, b
  <2>2. SocketOK(d) BY <1>1, <1>4, <1>5, <1>10 DEF SocketOK
  <2>3. ConnOK(d) BY <1>3, <1>5, <1>7, <2>2 DEF ConnOK, Live
  <2>4. BInv(b) BY <1>3, <1>6, <1>9, <2>3, PutBInv
  <2>5. b.idle_timer = o.idle_timer /\ b.conns = [o.conns EXCEPT ![i] = d] BY <1>2, <1>6 DEF Bridge
  <2>6. \A j \in Ids : (b.conns[j].at # "gone") <=> (o.conns[j].at # "gone")
    BY <1>2, <1>5, <2>5 DEF Bridge
  <2> QED BY <2>1, <2>4, <2>5, <2>6 DEF Live
<1>11. CASE c.at = "pool" /\ c.pending # None
  <2>1. Fault(FailConn(b, i)) BY <1>11 DEF TcpErr, b
  <2>2. b \in Bridge BY <1>2, <1>5, <1>6 DEF Bridge
  <2>3. BInv(FailConn(b, i)) BY <1>3, <1>5, <1>6, <1>8, <1>11, <2>2, FailConnBInv
  <2>4. BInv([FailConn(b, i) EXCEPT !.faults = @ + 1]) BY <2>3, FaultBInv
  <2> QED BY <2>1, <2>4 DEF Fault, Callback
<1>12. CASE c.at = "pool" /\ c.pending = None
  <2> DEFINE g == Remove(d, "Elost")
             z == [b EXCEPT !.conns[i] = Remove(@, "Elost")]
  <2>1. Fault(z) BY <1>12 DEF TcpErr, b
  <2>2. ConnOK(g) /\ \A q \in Reqs : SameView(d, g, q) BY <1>5, <1>7, <1>8, <1>12, RemoveView
  <2>3. b.conns = [o.conns EXCEPT ![i] = d] /\ b.conns[i] = d BY <1>2, <1>6 DEF Bridge
  <2> HIDE DEF g
  <2>4. z = [o EXCEPT !.conns = [o.conns EXCEPT ![i] = g]] BY <1>2, <1>6, <2>3 DEF Bridge, g
  <2>5. \A q \in Reqs : SameView(c, g, q) BY <1>9, <2>2 DEF SameView
  <2>6. BInv(z) BY <1>3, <2>2, <2>4, <2>5, PutBInv
  <2>7. BInv([z EXCEPT !.faults = @ + 1]) BY <2>6, FaultBInv
  <2> QED BY <2>1, <2>7 DEF Fault, Callback
<1> QED BY <1>10, <1>11, <1>12

LEMMA ConnectTimeoutBInv ==
  ASSUME BInv(o), NEW i \in Ids, ConnectTimeout(i)
  PROVE  BInv(o') /\ pc' = "pump"
<1>1. Live(o, i) /\ o.conns[i].pending # None /\ Fault(FailConn(o, i)) BY DEF ConnectTimeout
<1>2. BInv(FailConn(o, i)) BY <1>1, FailConnHere
<1>3. BInv([FailConn(o, i) EXCEPT !.faults = @ + 1]) BY <1>2, FaultBInv
<1> QED BY <1>1, <1>3 DEF Fault, Callback

(* A connection in its handshake, in the pool: someone waits for it. *)
LEMMA Handshaking ==
  ASSUME BInv(o), NEW i \in Ids, o.conns[i].at = "pool", o.conns[i].driver \in {"tls", "hs"}
  PROVE  Live(o, i) /\ o.conns[i].pending # None
<1>1. Live(o, i) BY DEF Live
<1> QED BY <1>1, LiveTyped DEF PhaseOK

LEMMA TlsStepBInv ==
  ASSUME BInv(o), NEW i \in Ids, TlsStep(i)
  PROVE  BInv(o') /\ pc' = "pump"
<1> DEFINE c == o.conns[i]
<1>1. c.at = "pool" /\ c.driver = "tls" BY DEF TlsStep
<1>2. Live(o, i) /\ c.pending # None BY <1>1, Handshaking
<1>3. c \in LiveConn /\ SocketOK(c) /\ PhaseOK(c) /\ CountOK(c) BY <1>2, LiveTyped
<1>4. CASE PollFault(FailConn(o, i))
  <2>1. BInv(FailConn(o, i)) BY <1>2, FailConnHere
  <2>2. BInv([FailConn(o, i) EXCEPT !.faults = @ + 1]) BY <2>1, FaultBInv
  <2> QED BY <1>4, <2>2 DEF PollFault, Poll
<1>5. CASE \E proto \in {"h1", "h2"} :
             Poll([o EXCEPT !.conns[i].driver = "hs", !.conns[i].proto = proto])
  <2>1. PICK proto \in {"h1", "h2"} :
               Poll([o EXCEPT !.conns[i].driver = "hs", !.conns[i].proto = proto])
    BY <1>5
  <2> DEFINE d == [c EXCEPT !.driver = "hs", !.proto = proto]
             z == [o EXCEPT !.conns[i].driver = "hs", !.conns[i].proto = proto]
  <2>2. /\ d \in LiveConn /\ d.driver = "hs" /\ d.proto = proto
        /\ d.sock = c.sock /\ d.acts = c.acts /\ d.at = c.at /\ d.due = c.due
        /\ d.send = c.send /\ d.pending = c.pending
        /\ d.busy = c.busy /\ d.active = c.active /\ d.unreleased = c.unreleased
        /\ d.idle = c.idle /\ d.reqs = c.reqs
    BY <1>3 DEF LiveConn
  <2>3. o \in Bridge BY DEF BInv
  <2>4. z = [o EXCEPT !.conns = [o.conns EXCEPT ![i] = d]] BY <2>3 DEF Bridge
  <2> HIDE DEF d, z
  <2>5. c.reqs = {} /\ c.active = 0 BY <1>2, <1>3, FS_EmptySet DEF PhaseOK, CountOK
  <2>6. None # "h1" /\ None # "h2" BY OriginPoolAssumption
  <2>7. PhaseOK(d) BY <1>1, <1>2, <1>3, <2>2, <2>6 DEF PhaseOK
  <2>8. MaxStreams \in Nat BY OriginPoolAssumption
  <2>9. CountOK(d) BY <1>3, <2>2, <2>5, <2>8 DEF CountOK
  <2>10. SocketOK(d) BY <1>3, <2>2 DEF SocketOK
  <2>11. ConnOK(d) BY <1>1, <2>2, <2>7, <2>9, <2>10 DEF ConnOK
  <2>12. \A q \in Reqs : SameView(c, d, q) BY <2>2 DEF SameView, Pend, Runs, Recs
  <2>13. BInv(z) BY <1>2, <2>4, <2>11, <2>12, PutBInv
  <2> QED BY <2>1, <2>13 DEF Poll, z
<1> QED BY <1>4, <1>5 DEF TlsStep

LEMMA TlsFatalBInv ==
  ASSUME BInv(o), NEW i \in Ids, TlsFatal(i)
  PROVE  BInv(o') /\ pc' = "pump"
<1> DEFINE c == o.conns[i]
           g == Remove(c, "E")
           z == [o EXCEPT !.conns[i] = Remove(@, "E")]
<1>1. c.at = "pool" /\ c.driver \in {"run", "done"} /\ PollFault(z) BY DEF TlsFatal
<1>2. Live(o, i) BY <1>1 DEF Live
<1>3. c \in LiveConn /\ SocketOK(c) /\ PhaseOK(c) /\ CountOK(c) BY <1>2, LiveTyped
<1>4. c.pending = None BY <1>1, <1>3 DEF PhaseOK
<1>5. ConnOK(g) /\ \A q \in Reqs : SameView(c, g, q) BY <1>3, <1>4, SoundRemovable, RemoveView
<1>6. o \in Bridge BY DEF BInv
<1>7. z = [o EXCEPT !.conns = [o.conns EXCEPT ![i] = g]] BY <1>6 DEF Bridge
<1> HIDE DEF g, z
<1>8. BInv(z) BY <1>2, <1>5, <1>7, PutBInv
<1>9. BInv([z EXCEPT !.faults = @ + 1]) BY <1>8, FaultBInv
<1> QED BY <1>1, <1>9 DEF PollFault, Poll

LEMMA ConnectionDoneBInv ==
  ASSUME BInv(o), NEW i \in Ids, ConnectionDone(i)
  PROVE  BInv(o') /\ pc' = "pump"
<1> DEFINE c == o.conns[i]
           d == [c EXCEPT !.driver = "done", !.send = FALSE]
           z == [o EXCEPT !.conns[i].driver = "done", !.conns[i].send = FALSE]
<1>1. Live(o, i) /\ c.driver = "run" /\ PollFault(z) BY DEF ConnectionDone
<1>2. c \in LiveConn /\ SocketOK(c) /\ PhaseOK(c) /\ CountOK(c) BY <1>1, LiveTyped
<1>3. /\ d \in LiveConn /\ d.driver = "done" /\ d.proto = c.proto /\ d.send = FALSE
      /\ d.sock = c.sock /\ d.acts = c.acts /\ d.at = c.at /\ d.due = c.due
      /\ d.pending = c.pending /\ d.busy = c.busy /\ d.active = c.active
      /\ d.unreleased = c.unreleased /\ d.idle = c.idle /\ d.reqs = c.reqs
  BY <1>2 DEF LiveConn
<1>4. o \in Bridge BY DEF BInv
<1>5. z = [o EXCEPT !.conns = [o.conns EXCEPT ![i] = d]] BY <1>4 DEF Bridge
<1> HIDE DEF d, z
<1>6. PhaseOK(d) BY <1>1, <1>2, <1>3 DEF PhaseOK
<1>7. CountOK(d) /\ SocketOK(d) BY <1>2, <1>3 DEF CountOK, SocketOK
<1>8. ConnOK(d) BY <1>1, <1>3, <1>6, <1>7 DEF ConnOK, Live
<1>9. \A q \in Reqs : SameView(c, d, q) BY <1>3 DEF SameView, Pend, Runs, Recs
<1>10. BInv(z) BY <1>1, <1>5, <1>8, <1>9, PutBInv
<1>11. BInv([z EXCEPT !.faults = @ + 1]) BY <1>10, FaultBInv
<1> QED BY <1>1, <1>11 DEF PollFault, Poll

(* z is b with w sends of the request q. *)
Counted(z, b, q, w) == z = [b EXCEPT !.wire[q] = w]

LEMMA CountWire ==
  ASSUME NEW b \in Bridge, NEW q \in Reqs, NEW w \in Nat, NEW z, Counted(z, b, q, w)
  PROVE  /\ z \in Bridge /\ z.conns = b.conns /\ z.next = b.next /\ z.dials = b.dials
         /\ z.by_h3 = b.by_h3 /\ z.gw = b.gw /\ z.up = b.up
         /\ z.wire[q] = w /\ \A p \in Reqs \ {q} : z.wire[p] = b.wire[p]
<1> DEFINE ws == [b.wire EXCEPT ![q] = w]
<1>1. b.wire \in [Reqs -> Nat] BY DEF Bridge
<1>2. ws \in [Reqs -> Nat] /\ ws[q] = w /\ \A p \in Reqs \ {q} : ws[p] = b.wire[p] BY <1>1
<1>3. z = [b EXCEPT !.wire = ws] BY DEF Counted
<1> HIDE DEF ws
<1> QED BY <1>2, <1>3 DEF Bridge

(* hyper runs on the connection: its requester's exchange starts, or its   *)
(* request cannot be built.                                                *)
LEMMA HandshakeStepBInv ==
  ASSUME BInv(o), NEW i \in Ids, HandshakeStep(i)
  PROVE  BInv(o') /\ pc' = "pump"
<1> DEFINE c == o.conns[i]
           p == c.pending
           b == [o EXCEPT !.conns[i].driver = "run", !.conns[i].send = TRUE]
           d == [c EXCEPT !.driver = "run", !.send = TRUE, !.pending = None]
           x == [b EXCEPT !.conns[i].pending = None]
           y == [x EXCEPT !.wire[p.q] = @ + 1]
<1>1. c.at = "pool" /\ c.driver = "hs" BY DEF HandshakeStep
<1>2. Live(o, i) /\ p # None BY <1>1, Handshaking
<1>3. c \in LiveConn /\ SocketOK(c) /\ PhaseOK(c) /\ CountOK(c) BY <1>2, LiveTyped
<1>4. /\ p \in Waiting /\ p.q \in Reqs
      /\ o.dials[p.q] = None /\ o.by_h3[p.q] = i /\ o.gw[p.q] # "new" /\ c.reqs = {}
      /\ \A j \in Ids : Runs(o.conns[j], p.q) = {} /\ (j # i => ~Pend(o.conns[j], p.q))
      /\ MaySend(p, o.wire[p.q], o.up[p.q])
  BY SMTT(30), <1>2, PendsAlone
<1>5. But(o, p.q) /\ OwnerOK(o, p.q) /\ o \in Bridge BY <1>4, ButOne
<1>6. o.gw[p.q] # "gone" BY <1>2, <1>4, <1>5 DEF OwnerOK, Nowhere, Pend, Live
<1>7. /\ d \in LiveConn /\ d.driver = "run" /\ d.proto = c.proto /\ d.send = TRUE
      /\ d.pending = None /\ d.reqs = c.reqs /\ d.active = c.active
      /\ d.sock = c.sock /\ d.acts = c.acts /\ d.at = c.at /\ d.due = c.due
      /\ d.busy = c.busy /\ d.unreleased = c.unreleased /\ d.idle = c.idle
  BY <1>3 DEF LiveConn
<1>8. /\ b.conns = [o.conns EXCEPT ![i] = [c EXCEPT !.driver = "run", !.send = TRUE]]
      /\ b.conns[i].pending = p
  BY <1>3, <1>5 DEF Bridge, LiveConn
<1>9. x = [o EXCEPT !.conns = [o.conns EXCEPT ![i] = d]] BY <1>3, <1>5 DEF Bridge
<1>10. \/ Poll(Exchange(y, i, p.q, ~p.ready, FALSE, p.retried))
       \/ Poll(Fail(DropConnecting(x, p), p.q))
       \/ PollFault(FailConn(o, i))
  BY <1>8 DEF HandshakeStep, Assign
<1> HIDE DEF d, b
<1>11. /\ x \in Bridge /\ x.conns = [o.conns EXCEPT ![i] = d] /\ x.next = o.next
       /\ x.dials = o.dials /\ x.by_h3 = o.by_h3 /\ x.wire = o.wire /\ x.gw = o.gw /\ x.up = o.up
  <2>1. d \in LiveConn \cup GoneConn BY <1>7
  <2>2. Placed(x, o, i, d) BY <1>9 DEF Placed
  <2> HIDE DEF x
  <2> QED BY <1>5, <2>1, <2>2, PutBridge
<1>12. ConnOK(d)
  <2>1. PhaseOK(d) BY <1>1, <1>3, <1>7 DEF PhaseOK
  <2>2. CountOK(d) /\ SocketOK(d) BY <1>3, <1>7 DEF CountOK, SocketOK
  <2> QED BY <1>1, <1>7, <2>1, <2>2 DEF ConnOK
<1>13. x.conns[i] = d /\ \A j \in Ids \ {i} : x.conns[j] = o.conns[j]
  BY <1>5, <1>11 DEF Bridge
<1> HIDE DEF x
<1>14. ConnsOK(x) BY <1>2, <1>5, <1>11, <1>12, PutConn DEF But
<1>15. \A r \in Reqs \ {p.q} : ReqOK(x, r)
  <2> SUFFICES ASSUME NEW r \in Reqs \ {p.q} PROVE ReqOK(x, r) OBVIOUS
  <2>1. SameView(c, d, r) BY <1>2, <1>7 DEF SameView, Pend, Runs, Recs
  <2>2. \A j \in Ids : SameView(o.conns[j], x.conns[j], r) BY <1>5, <1>11, <2>1, PutView
  <2>3. ReqOK(o, r) /\ SameUpload(o.up[r], x.up[r]) BY <1>5, <1>11 DEF But, SameUpload
  <2> QED BY <1>11, <2>2, <2>3, FrameReq
<1>16. Twice(x, p.q) BY <1>5, <1>11 DEF But, Twice
<1>17. But(x, p.q) BY <1>11, <1>14, <1>15, <1>16 DEF But
<1>18. ~Pend(d, p.q) /\ Recs(d, p.q) = {} /\ Runs(d, p.q) = {} BY <1>4, <1>7 DEF Pend, Recs, Runs
<1>19. Nowhere(x, p.q) BY <1>4, <1>11, <1>13, <1>18 DEF Nowhere
<1>20. CASE Poll(Exchange(y, i, p.q, ~p.ready, FALSE, p.retried))
  <2>1. /\ y \in Bridge /\ y.conns = x.conns /\ y.next = x.next /\ y.dials = x.dials
        /\ y.by_h3 = x.by_h3 /\ y.gw = x.gw /\ y.up = x.up
        /\ y.wire[p.q] = x.wire[p.q] + 1 /\ \A r \in Reqs \ {p.q} : y.wire[r] = x.wire[r]
    <3> DEFINE q == p.q
               w == x.wire[q] + 1
    <3>1. q \in Reqs /\ x \in Bridge /\ Counted(y, x, q, w) BY <1>4, <1>11 DEF Counted
    <3>2. w \in Nat BY <3>1 DEF Bridge
    <3> HIDE DEF q, y, w
    <3>3. /\ y \in Bridge /\ y.conns = x.conns /\ y.next = x.next /\ y.dials = x.dials
          /\ y.by_h3 = x.by_h3 /\ y.gw = x.gw /\ y.up = x.up
          /\ y.wire[q] = w /\ \A r \in Reqs \ {q} : y.wire[r] = x.wire[r]
      BY <3>1, <3>2, CountWire
    <3> QED BY <3>3 DEF q, w
  <2>2. y.wire[p.q] = o.wire[p.q] + 1 /\ o.wire[p.q] \in Nat BY <1>4, <1>5, <1>11, <2>1 DEF Bridge
  <2> HIDE DEF y
  <2>3. Twice(y, p.q)
    <3>1. MaySend(p, o.wire[p.q], o.up[p.q]) BY <1>4
    <3>2. o.wire[p.q] = 0 \/ (o.wire[p.q] = 1 /\ Bodiless(o.up[p.q])) BY Zenon, <3>1 DEF MaySend
    <3>3. y.up[p.q] = o.up[p.q] BY Zenon, <1>11, <2>1
    <3>4. y.wire[p.q] <= 2 /\ (y.wire[p.q] = 2 => o.wire[p.q] = 1) BY <2>2, <3>2
    <3> QED BY <3>2, <3>3, <3>4, 1 # 0 DEF Twice
  <2>4. \A r \in Reqs \ {p.q} : y.wire[r] = x.wire[r] /\ SameUpload(x.up[r], y.up[r])
    BY <1>11, <2>1 DEF Bridge, SameUpload
  <2>5. But(y, p.q) BY <1>4, <1>17, <2>1, <2>3, <2>4, FrameBut
  <2>6. Nowhere(y, p.q) BY <1>19, <2>1 DEF Nowhere
  <2>7. Live(y, i) /\ y.conns[i] = d BY <1>1, <1>7, <1>13, <2>1 DEF Live
  <2>8. d.active = 0 BY <1>3, <1>4, <1>7, FS_EmptySet DEF CountOK
  <2>9. Takes(y.conns[i], p.q)
    <3>1. d.active < MaxStreams BY <2>8, OriginPoolAssumption
    <3>2. d.pending = None /\ d.reqs = {} BY Zenon, <1>4, <1>7
    <3> QED BY Zenon, <1>18, <2>7, <3>1, <3>2 DEF Takes
  <2>10. y.gw[p.q] \notin {"new", "gone"} BY <1>4, <1>6, <1>11, <2>1
  <2>11. p.ready \in BOOLEAN /\ p.retried \in BOOLEAN BY <1>4 DEF Waiting
  <2>12. (~p.ready) \in BOOLEAN OBVIOUS
  <2> DEFINE st == ~p.ready
             rt == p.retried
             q == p.q
  <2> HIDE DEF p, q, st, rt
  <2>13. BInv(Exchange(y, i, q, st, FALSE, rt))
    BY <1>4, <2>5, <2>6, <2>7, <2>9, <2>10, <2>11, <2>12, ExchangeBInv DEF q, st, rt
  <2> QED BY <1>20, <2>13 DEF Poll, q, st, rt
<1>21. CASE Poll(Fail(DropConnecting(x, p), p.q))
  <2> DEFINE z == DropConnecting(x, p)
  <2>1. /\ z \in Bridge /\ z.conns = x.conns /\ z.dials = x.dials /\ z.wire = x.wire
        /\ z.gw = x.gw /\ z.next = x.next /\ z.by_h3 = [x.by_h3 EXCEPT ![p.q] = None]
        /\ \A r \in Reqs : SameUpload(x.up[r], z.up[r])
    BY <1>4, <1>11, DropFields
  <2> HIDE DEF z
  <2>2. Twice(z, p.q) BY <1>4, <1>16, <2>1 DEF Twice, Bodiless, SameUpload
  <2>3. z.by_h3[p.q] = None /\ \A r \in Reqs \ {p.q} : z.by_h3[r] = x.by_h3[r]
    BY <1>4, <1>11, <2>1 DEF Bridge
  <2>4. /\ z \in Bridge /\ z.conns = x.conns /\ z.dials = x.dials /\ z.wire = x.wire
        /\ z.gw = x.gw /\ z.next = x.next /\ \A r \in Reqs : SameUpload(x.up[r], z.up[r])
    BY <2>1
  <2>5. But(z, p.q) BY <1>4, <1>17, <2>2, <2>3, <2>4, FrameBut
  <2>6. None # 0 BY OriginPoolAssumption
  <2>7. Off(z, p.q) BY <1>19, <2>3, <2>4, <2>6 DEF Off, Nowhere
  <2>8. z.gw[p.q] # "new" BY <1>4, <1>11, <2>4
  <2>9. BInv(Fail(z, p.q)) BY <1>4, <2>5, <2>7, <2>8, FailOff
  <2> QED BY <1>21, <2>9 DEF Poll, z
<1>22. CASE PollFault(FailConn(o, i))
  <2>1. BInv(FailConn(o, i)) BY <1>2, FailConnHere
  <2>2. BInv([FailConn(o, i) EXCEPT !.faults = @ + 1]) BY <2>1, FaultBInv
  <2> QED BY <1>22, <2>2 DEF PollFault, Poll
<1> QED BY <1>10, <1>20, <1>21, <1>22

-----------------------------------------------------------------------------
(* The exchange: response, retry, body *)

(* Only connection i has a record that runs for r's request. *)
RunsOnly(b, i, r) ==
  /\ Live(b, i) /\ r \in Assigned(b.conns[i]) /\ r.q \in Reqs
  /\ b.by_h3[r.q] # 0 /\ b.dials[r.q] = None /\ b.gw[r.q] \notin {"new", "gone"}
  /\ \A j \in Ids : ~Pend(b.conns[j], r.q) /\ (j # i => Runs(b.conns[j], r.q) = {})

LEMMA RunsOnlyHere ==
  ASSUME NEW b, BInv(b), NEW i \in Ids, Live(b, i), NEW r \in Assigned(b.conns[i])
  PROVE  /\ RunsOnly(b, i, r) /\ r \in Record /\ b.by_h3[r.q] = i
         /\ r \in Runs(b.conns[i], r.q) /\ But(b, r.q) /\ WireOK(b, r.q)
<1>1. /\ r.q \in Reqs /\ r \in Record /\ r \in Runs(b.conns[i], r.q)
      /\ b.dials[r.q] = None /\ b.by_h3[r.q] = i
      /\ \A j \in Ids : ~Pend(b.conns[j], r.q) /\ (j # i => Runs(b.conns[j], r.q) = {})
  BY RunsAlone
<1>2. But(b, r.q) /\ OwnerOK(b, r.q) /\ WireOK(b, r.q) BY <1>1, ButOne
<1>3. b.gw[r.q] \notin {"new", "gone"} BY <1>1, <1>2 DEF OwnerOK, Nowhere, Runs
<1>4. i # 0 BY DEF Ids
<1> QED BY <1>1, <1>2, <1>3, <1>4 DEF RunsOnly

(* The exchange failed: the gateway is told, the record ends. *)
LEMMA FailedBInv ==
  ASSUME NEW b, NEW i \in Ids, NEW r, RunsOnly(b, i, r), But(b, r.q)
  PROVE  BInv(End(Fail(b, r.q), i, r, FALSE))
<1> USE DEF RunsOnly
<1>1. b \in Bridge BY DEF But
<1> DEFINE d == Fail(b, r.q)
<1>2. /\ d \in Bridge /\ d.conns = b.conns /\ d.dials = b.dials /\ d.by_h3 = b.by_h3
      /\ d.wire = b.wire /\ d.next = b.next
      /\ \A p \in Reqs : SameUpload(b.up[p], d.up[p])
      /\ \A p \in Reqs \ {r.q} : d.gw[p] = b.gw[p]
      /\ d.gw[r.q] # "origin" /\ (d.gw[r.q] = b.gw[r.q] \/ d.gw[r.q] = "done")
  BY <1>1, FailFields
<1>3. b.gw[r.q] \in {"new", "origin", "fin_due", "done", "gone"} BY <1>1 DEF Bridge
<1> HIDE DEF d
<1>4. Twice(d, r.q) BY <1>2 DEF But, Twice, SameUpload, Bodiless
<1>5. But(d, r.q) BY <1>2, <1>4, FrameBut
<1>6. /\ Live(d, i) /\ r \in Assigned(d.conns[i]) /\ d.by_h3[r.q] # 0 /\ d.dials[r.q] = None
      /\ \A j \in Ids : ~Pend(d.conns[j], r.q) /\ (j # i => Runs(d.conns[j], r.q) = {})
  BY <1>2 DEF Live
<1>7. /\ But(End(d, i, r, FALSE), r.q) /\ Off(End(d, i, r, FALSE), r.q)
      /\ End(d, i, r, FALSE).gw = d.gw
  BY <1>5, <1>6, EndOff
<1>8. d.gw[r.q] \in {"fin_due", "done", "gone"} BY <1>2, <1>3
<1> QED BY <1>7, <1>8, OffBInv DEF d

(* z is b with the connection c at i, which no request but q sees. *)
Put(z, b, i, c, q) ==
  /\ z = [b EXCEPT !.conns = [b.conns EXCEPT ![i] = c]]
  /\ \A p \in Reqs \ {q} : SameView(b.conns[i], c, p)

LEMMA PutBut ==
  ASSUME NEW b, NEW q \in Reqs, But(b, q), NEW i \in Ids, NEW c, ConnOK(c), Live(b, i),
         NEW z, Put(z, b, i, c, q)
  PROVE  /\ But(z, q) /\ z.conns[i] = c /\ \A j \in Ids \ {i} : z.conns[j] = b.conns[j]
         /\ z \in Bridge /\ z.next = b.next /\ z.dials = b.dials /\ z.by_h3 = b.by_h3
         /\ z.wire = b.wire /\ z.gw = b.gw /\ z.up = b.up
<1>1. b \in Bridge /\ ConnsOK(b) BY DEF But
<1>2. c \in LiveConn \cup GoneConn BY ConnTyped
<1>3. /\ z \in Bridge /\ z.conns = [b.conns EXCEPT ![i] = c] /\ z.next = b.next
      /\ z.dials = b.dials /\ z.by_h3 = b.by_h3 /\ z.wire = b.wire /\ z.gw = b.gw /\ z.up = b.up
  <2>1. Placed(z, b, i, c) BY DEF Placed, Put
  <2> QED BY <1>1, <1>2, <2>1, PutBridge
<1>4. ConnsOK(z) BY <1>1, <1>3, PutConn
<1>5. \A p \in Reqs \ {q} : ReqOK(z, p)
  <2> SUFFICES ASSUME NEW p \in Reqs \ {q} PROVE ReqOK(z, p) OBVIOUS
  <2>1. \A j \in Ids : SameView(b.conns[j], z.conns[j], p) BY <1>1, <1>3, PutView DEF Put
  <2>2. ReqOK(b, p) /\ SameUpload(b.up[p], z.up[p]) BY <1>3 DEF But, SameUpload
  <2> QED BY <1>3, <2>1, <2>2, FrameReq
<1>6. Twice(z, q) BY <1>3 DEF But, Twice
<1>7. z.conns[i] = c /\ \A j \in Ids \ {i} : z.conns[j] = b.conns[j] BY <1>1, <1>3 DEF Bridge
<1> QED BY <1>3, <1>4, <1>5, <1>6, <1>7 DEF But

(* A record leaves its connection. *)
Taken(d, c, r) == d = [c EXCEPT !.reqs = @ \ {r}, !.active = @ - 1]

LEMMA TakeRecord ==
  ASSUME NEW c \in LiveConn, SocketOK(c), PhaseOK(c), CountOK(c), NEW r \in c.reqs,
         NEW d, Taken(d, c, r)
  PROVE  /\ ConnOK(d) /\ d.at = c.at
         /\ \A p \in Reqs \ {r.q} : SameView(c, d, p)
         /\ \A p \in Reqs : Pend(d, p) <=> Pend(c, p)
         /\ Runs(d, r.q) = {}
<1> DEFINE rs == c.reqs \ {r}
           ac == c.active - 1
<1>1. c.reqs \subseteq Record /\ c.at # "gone" BY DEF LiveConn
<1>2. rs \in SUBSET Record /\ ac \in Int BY <1>1 DEF LiveConn
<1>3. \A s \in rs : s.q # r.q BY DEF CountOK
<1>4. IsFiniteSet(c.reqs) /\ c.active = Cardinality(c.reqs) BY DEF CountOK
<1>5. IsFiniteSet(rs) /\ Cardinality(rs) = ac BY <1>4, FS_RemoveElement
<1>6. ac <= c.active BY DEF LiveConn
<1>7. \A s, t \in rs : (c.proto = "h1" \/ s.q = t.q) => s = t BY DEF CountOK
<1>8. \A p \in Reqs \ {r.q} : {s \in rs : s.q = p} = {s \in c.reqs : s.q = p} OBVIOUS
<1>9. rs # {} => c.reqs # {} OBVIOUS
<1> HIDE DEF rs, ac
<1>10. d = [c EXCEPT !.reqs = rs, !.active = ac] BY DEF rs, ac, Taken
<1>11. d \in LiveConn BY <1>2, <1>10 DEF LiveConn
<1>12. /\ d.reqs = rs /\ d.active = ac
       /\ d.driver = c.driver /\ d.proto = c.proto /\ d.send = c.send /\ d.pending = c.pending
       /\ d.busy = c.busy /\ d.unreleased = c.unreleased
       /\ d.due = c.due /\ d.idle = c.idle /\ d.at = c.at /\ d.sock = c.sock /\ d.acts = c.acts
  BY <1>10 DEF LiveConn
<1>13. MaxStreams \in Int /\ c.active \in Int /\ ac \in Int BY <1>2, OriginPoolAssumption DEF LiveConn
<1>14. CountOK(d) BY <1>5, <1>6, <1>7, <1>9, <1>12, <1>13 DEF CountOK
<1>15. PhaseOK(d) BY <1>9, <1>12 DEF PhaseOK
<1>16. SocketOK(d) BY <1>12 DEF SocketOK
<1>17. ConnOK(d) BY <1>1, <1>11, <1>12, <1>14, <1>15, <1>16 DEF ConnOK
<1>18. \A p \in Reqs : Pend(d, p) <=> Pend(c, p) BY <1>12 DEF Pend
<1>19. \A p \in Reqs \ {r.q} : Recs(d, p) = Recs(c, p) BY <1>1, <1>8, <1>12 DEF Recs
<1>20. \A p \in Reqs \ {r.q} : SameView(c, d, p) BY <1>12, <1>18, <1>19 DEF SameView, Runs
<1>21. Runs(d, r.q) = {} BY <1>3, <1>12 DEF Runs, Recs
<1> QED BY <1>12, <1>17, <1>18, <1>20, <1>21

(* A record is retried: its request dials again. *)
LEMMA RetryBInv ==
  ASSUME NEW b, NEW i \in Ids, NEW r, RunsOnly(b, i, r), But(b, r.q), NEW ready \in BOOLEAN,
         MaySend(Connecting(r.q, "h1", ready, TRUE), b.wire[r.q], b.up[r.q])
  PROVE  BInv(Retry(b, i, r, ready))
<1> USE DEF RunsOnly
<1> DEFINE c == b.conns[i]
           d == [c EXCEPT !.reqs = @ \ {r}, !.active = @ - 1]
           x == [b EXCEPT !.conns = [b.conns EXCEPT ![i] = d]]
           p == Connecting(r.q, "h1", ready, TRUE)
           z == Retry(b, i, r, ready)
           q == r.q
<1>1. b \in Bridge BY DEF But
<1>2. c \in LiveConn /\ SocketOK(c) /\ PhaseOK(c) /\ CountOK(c) BY LiveTyped
<1>3. r \in c.reqs BY DEF Assigned
<1>4. Taken(d, c, r) BY DEF Taken
<1>5. z = [x EXCEPT !.dials = [b.dials EXCEPT ![q] = p], !.by_h3 = [b.by_h3 EXCEPT ![q] = 0]]
  BY <1>1 DEF Retry, Bridge
<1> HIDE DEF d
<1>6. /\ ConnOK(d) /\ d.at = c.at /\ \A s \in Reqs \ {q} : SameView(c, d, s)
      /\ \A s \in Reqs : Pend(d, s) <=> Pend(c, s)
      /\ Runs(d, q) = {}
  BY <1>2, <1>3, <1>4, TakeRecord
<1>7. Put(x, b, i, d, q) BY <1>6 DEF Put
<1> HIDE DEF x
<1>8. /\ But(x, q) /\ x.conns[i] = d /\ \A j \in Ids \ {i} : x.conns[j] = b.conns[j]
      /\ x \in Bridge /\ x.next = b.next /\ x.dials = b.dials /\ x.by_h3 = b.by_h3
      /\ x.wire = b.wire /\ x.gw = b.gw /\ x.up = b.up
  BY <1>6, <1>7, PutBut
<1>9. Nowhere(x, q) BY <1>6, <1>8 DEF Nowhere
<1>10. p \in Waiting /\ p.q = q BY DEF Connecting, Waiting
<1>11. MaySend(p, x.wire[q], x.up[q]) BY <1>8
<1> HIDE DEF p
<1>12. Dialled(z, x, q, p)
  <2> DEFINE ds == [b.dials EXCEPT ![q] = p]
             by == [b.by_h3 EXCEPT ![q] = 0]
  <2>1. ds \in [Reqs -> Waiting \cup {None}] /\ by \in [Reqs -> Ids \cup {0, None}]
    BY <1>1, <1>10 DEF Bridge
  <2>2. z = [x EXCEPT !.dials = ds, !.by_h3 = by] BY <1>5
  <2>3. ds = [x.dials EXCEPT ![q] = p] /\ by = [x.by_h3 EXCEPT ![q] = 0] BY <1>8
  <2> HIDE DEF ds, by, z
  <2>4. /\ z \in Bridge /\ z.conns = x.conns /\ z.next = x.next /\ z.wire = x.wire /\ z.gw = x.gw
        /\ z.dials = ds /\ z.by_h3 = by /\ z.up = x.up
    BY <1>8, <2>1, <2>2 DEF Bridge
  <2> QED BY <2>3, <2>4 DEF Dialled
<1>13. x.gw[q] \notin {"new", "gone"} /\ q \in Reqs BY <1>8
<1> HIDE DEF q, z
<1>14. BInv(z) BY <1>8, <1>9, <1>10, <1>11, <1>12, <1>13, DialBInv
<1> QED BY <1>14 DEF z

(* A reused connection's exchange counts as sent once its fate is known. *)
LEMMA SentBut ==
  ASSUME NEW b, BInv(b), NEW i \in Ids, Live(b, i), NEW r \in Assigned(b.conns[i]), r.ph = "sent",
         NEW w, w = b.wire[r.q] + (IF r.reused THEN 1 ELSE 0), NEW z, Counted(z, b, r.q, w)
  PROVE  /\ But(z, r.q) /\ RunsOnly(z, i, r) /\ z.by_h3[r.q] = i
         /\ z.up = b.up /\ z.wire[r.q] = w /\ z.conns = b.conns
<1> DEFINE q == r.q
<1>1. /\ RunsOnly(b, i, r) /\ r \in Record /\ b.by_h3[q] = i
      /\ r \in Runs(b.conns[i], q) /\ But(b, q) /\ WireOK(b, q)
  BY RunsOnlyHere
<1>2. q \in Reqs /\ b \in Bridge BY <1>1 DEF RunsOnly, But
<1>3. b.wire[q] \in Nat /\ w \in Nat BY <1>2 DEF Bridge
<1>4. Counted(z, b, q, w) OBVIOUS
<1>5. r.reused => b.wire[q] = 0 BY <1>1 DEF WireOK
<1>6. Twice(b, q) BY <1>1 DEF WireOK
<1> HIDE DEF q
<1>7. /\ z \in Bridge /\ z.conns = b.conns /\ z.next = b.next /\ z.dials = b.dials
      /\ z.by_h3 = b.by_h3 /\ z.gw = b.gw /\ z.up = b.up
      /\ z.wire[q] = w /\ \A p \in Reqs \ {q} : z.wire[p] = b.wire[p]
  BY <1>2, <1>3, <1>4, CountWire
<1>8. Twice(z, q)
  <2>1. CASE r.reused BY <1>5, <1>7, <2>1 DEF Twice, q
  <2>2. CASE ~r.reused BY <1>3, <1>6, <1>7, <2>2 DEF Twice, q
  <2> QED BY <2>1, <2>2
<1>9. \A p \in Reqs \ {q} : SameUpload(b.up[p], z.up[p]) BY <1>7 DEF SameUpload
<1>10. But(b, q) BY <1>1 DEF q
<1>11. But(z, q) BY <1>2, <1>7, <1>8, <1>9, <1>10, FrameBut
<1>12. RunsOnly(z, i, r) BY <1>1, <1>7 DEF RunsOnly, Live
<1> QED BY <1>1, <1>7, <1>11, <1>12 DEF q

(* The connection read something. *)
Got(z, b, i) == z = [b EXCEPT !.conns[i].rx = TRUE]

LEMMA GotBut ==
  ASSUME NEW b, NEW i \in Ids, NEW r, But(b, r.q), RunsOnly(b, i, r), b.by_h3[r.q] = i,
         NEW z, Got(z, b, i)
  PROVE  But(z, r.q) /\ RunsOnly(z, i, r) /\ z.by_h3[r.q] = i
<1> DEFINE q == r.q
           c == b.conns[i]
           d == [c EXCEPT !.rx = TRUE]
<1>1. b \in Bridge /\ q \in Reqs /\ Live(b, i) /\ But(b, q) BY DEF But, RunsOnly
<1>2. c \in LiveConn /\ SocketOK(c) /\ PhaseOK(c) /\ CountOK(c) BY <1>1, LiveTyped
<1>3. /\ d \in LiveConn /\ d.driver = c.driver /\ d.proto = c.proto /\ d.send = c.send
      /\ d.sock = c.sock /\ d.acts = c.acts /\ d.at = c.at /\ d.due = c.due
      /\ d.pending = c.pending /\ d.busy = c.busy /\ d.active = c.active
      /\ d.unreleased = c.unreleased /\ d.idle = c.idle /\ d.reqs = c.reqs
  BY <1>2 DEF LiveConn
<1>4. z = [b EXCEPT !.conns = [b.conns EXCEPT ![i] = d]] BY <1>1 DEF Bridge, Got
<1> HIDE DEF d
<1>5. PhaseOK(d) /\ CountOK(d) /\ SocketOK(d) BY <1>2, <1>3 DEF PhaseOK, CountOK, SocketOK
<1>6. ConnOK(d) BY <1>1, <1>3, <1>5 DEF ConnOK, Live
<1>7. \A p \in Reqs : SameView(c, d, p) BY <1>3 DEF SameView, Pend, Runs, Recs
<1>8. Put(z, b, i, d, q) BY <1>4, <1>7 DEF Put
<1> HIDE DEF q
<1>9. /\ But(z, q) /\ z.conns[i] = d /\ \A j \in Ids \ {i} : z.conns[j] = b.conns[j]
      /\ z.dials = b.dials /\ z.by_h3 = b.by_h3 /\ z.gw = b.gw
  BY <1>1, <1>6, <1>8, PutBut
<1>10. ~Pend(d, q) BY <1>3 DEF RunsOnly, Pend, q
<1>11. RunsOnly(z, i, r) BY <1>1, <1>3, <1>9, <1>10 DEF RunsOnly, Live, Assigned, q
<1> QED BY <1>9, <1>11 DEF q

(* The head arrived: the record's body follows. *)
Headed(z, b, i, r) ==
  z = [b EXCEPT !.conns[i].reqs = (@ \ {r}) \cup {[r EXCEPT !.ph = "body"]}]

LEMMA HeadBInv ==
  ASSUME NEW b, NEW i \in Ids, NEW r, But(b, r.q), RunsOnly(b, i, r), b.by_h3[r.q] = i,
         NEW z, Headed(z, b, i, r)
  PROVE  BInv(z)
<1> DEFINE q == r.q
           c == b.conns[i]
           e == [r EXCEPT !.ph = "body"]
           d == [c EXCEPT !.reqs = (@ \ {r}) \cup {e}]
<1>1. b \in Bridge /\ q \in Reqs /\ Live(b, i) /\ But(b, q) BY DEF But, RunsOnly
<1>2. c \in LiveConn /\ SocketOK(c) /\ PhaseOK(c) /\ CountOK(c) BY <1>1, LiveTyped
<1>3. r \in c.reqs /\ r \in Record /\ r.st = "assigned" BY <1>2 DEF RunsOnly, Assigned, LiveConn
<1>4. e \in Record /\ e.q = r.q /\ e.st = "assigned" /\ e.ph = "body" BY <1>3 DEF Record
<1>5. z = [b EXCEPT !.conns[i].reqs = (@ \ {r}) \cup {e}] BY DEF Headed
<1> HIDE DEF e
<1>6. z = [b EXCEPT !.conns = [b.conns EXCEPT ![i] = d]] BY <1>1, <1>5 DEF Bridge
<1>7. Replaced(d, c, r, e) BY DEF Replaced
<1> HIDE DEF d
<1>8. /\ d \in LiveConn /\ ConnOK(d) /\ d.at = c.at
      /\ \A p \in Reqs \ {q} : SameView(c, d, p)
      /\ \A p \in Reqs : Pend(d, p) <=> Pend(c, p)
      /\ Runs(d, q) = {s \in {e} : s.st = "assigned"}
  BY <1>2, <1>3, <1>4, <1>7, ReplaceRecord
<1>9. Put(z, b, i, d, q) BY <1>6, <1>8 DEF Put
<1>10. Runs(d, q) = {e} /\ ~Pend(d, q) BY <1>1, <1>4, <1>8 DEF RunsOnly
<1> HIDE DEF q
<1>11. /\ But(z, q) /\ z.conns[i] = d /\ \A j \in Ids \ {i} : z.conns[j] = b.conns[j]
       /\ z \in Bridge /\ z.dials = b.dials /\ z.by_h3 = b.by_h3 /\ z.gw = b.gw
  BY <1>1, <1>8, <1>9, PutBut
<1>12. /\ z.dials[q] = None /\ z.by_h3[q] = i /\ i # 0 /\ z.gw[q] \notin {"new", "gone"}
       /\ \A j \in Ids : ~Pend(z.conns[j], q) /\ (j # i => Runs(z.conns[j], q) = {})
  BY <1>10, <1>11 DEF RunsOnly, q, Ids
<1>13. WireOK(z, q) BY <1>4, <1>10, <1>11, <1>12 DEF WireOK, But
<1>14. PlaceOK(z, q) BY <1>12 DEF PlaceOK
<1>15. OwnerOK(z, q) BY <1>10, <1>11, <1>12 DEF OwnerOK, Nowhere
<1> QED BY <1>1, <1>11, <1>13, <1>14, <1>15 DEF BInv, But, ReqOK

(* poll_exchanges, the response future. *)
LEMMA ResponseStepBInv ==
  ASSUME BInv(o), NEW i \in Ids, ResponseStep(i)
  PROVE  BInv(o') /\ pc' = "pump"
<1>1. PICK r \in IF Live(o, i) THEN Assigned(o.conns[i]) ELSE {} :
        /\ r.ph = "sent"
        /\ LET c == o.conns[i]
               sent == [o EXCEPT !.wire[r.q] = @ + (IF r.reused THEN 1 ELSE 0)]
               got == [sent EXCEPT !.conns[i].rx = TRUE]
               failed(b) == End(Fail(b, r.q), i, r, FALSE)
           IN \/ Poll([got EXCEPT !.conns[i].reqs = (@ \ {r}) \cup {[r EXCEPT !.ph = "body"]}])
              \/ PollFault(failed(got))
              \/ /\ r.reused /\ c.proto = "h1" /\ o.up[r.q].live > 0
                 /\ PollFault(IF r.retried THEN failed(o) ELSE Retry(o, i, r, TRUE))
              \/ PollFault(IF MayRetry(c, r, o.up[r.q]) THEN Retry(sent, i, r, FALSE) ELSE failed(sent))
  BY DEF ResponseStep
<1>2. Live(o, i) /\ r \in Assigned(o.conns[i]) /\ r.ph = "sent" BY <1>1
<1> DEFINE w == o.wire[r.q] + (IF r.reused THEN 1 ELSE 0)
           sent == [o EXCEPT !.wire[r.q] = @ + (IF r.reused THEN 1 ELSE 0)]
           got == [sent EXCEPT !.conns[i].rx = TRUE]
           failed(b) == End(Fail(b, r.q), i, r, FALSE)
           head == [got EXCEPT !.conns[i].reqs = (@ \ {r}) \cup {[r EXCEPT !.ph = "body"]}]
<1>3. /\ RunsOnly(o, i, r) /\ But(o, r.q) /\ WireOK(o, r.q) /\ o \in Bridge
      /\ r \in Runs(o.conns[i], r.q)
  BY <1>2, RunsOnlyHere DEF But
<1>4. Counted(sent, o, r.q, w) BY DEF Counted
<1>5. \/ Poll(head) \/ PollFault(failed(got)) \/ PollFault(failed(o)) \/ PollFault(failed(sent))
      \/ r.reused /\ PollFault(Retry(o, i, r, TRUE))
      \/ MayRetry(o.conns[i], r, o.up[r.q]) /\ PollFault(Retry(sent, i, r, FALSE))
  BY <1>1
<1>6. Got(got, sent, i) BY DEF Got
<1>7. Headed(head, got, i, r) BY DEF Headed
<1> HIDE DEF head
<1> HIDE DEF got
<1> HIDE DEF sent
<1>8. /\ But(sent, r.q) /\ RunsOnly(sent, i, r) /\ sent.by_h3[r.q] = i
      /\ sent.up = o.up /\ sent.wire[r.q] = w
  BY <1>2, <1>4, SentBut
<1>9. But(got, r.q) /\ RunsOnly(got, i, r) /\ got.by_h3[r.q] = i BY <1>6, <1>8, GotBut
<1>10. BInv(head) BY <1>7, <1>9, HeadBInv
<1>11. BInv(failed(got)) /\ BInv(failed(o)) /\ BInv(failed(sent)) BY <1>3, <1>8, <1>9, FailedBInv
<1>12. r.reused => o.wire[r.q] = 0 BY <1>2, <1>3 DEF WireOK
<1>13. r.reused => BInv(Retry(o, i, r, TRUE))
  <2> SUFFICES ASSUME r.reused PROVE BInv(Retry(o, i, r, TRUE)) OBVIOUS
  <2>1. MaySend(Connecting(r.q, "h1", TRUE, TRUE), o.wire[r.q], o.up[r.q]) BY <1>12 DEF MaySend
  <2> QED BY <1>3, <2>1, RetryBInv
<1>14. MayRetry(o.conns[i], r, o.up[r.q]) => BInv(Retry(sent, i, r, FALSE))
  <2> SUFFICES ASSUME MayRetry(o.conns[i], r, o.up[r.q]) PROVE BInv(Retry(sent, i, r, FALSE))
    OBVIOUS
  <2>1. r.reused /\ Bodiless(sent.up[r.q]) BY <1>8 DEF MayRetry
  <2>2. sent.wire[r.q] = 1 BY <1>8, <1>12, <2>1
  <2>3. Connecting(r.q, "h1", FALSE, TRUE).ready = FALSE BY DEF Connecting
  <2>4. MaySend(Connecting(r.q, "h1", FALSE, TRUE), sent.wire[r.q], sent.up[r.q])
    BY <2>1, <2>2, <2>3 DEF MaySend
  <2> QED BY <1>8, <2>4, RetryBInv
<1> HIDE DEF failed
<1>15. /\ BInv([failed(got) EXCEPT !.faults = @ + 1]) /\ BInv([failed(o) EXCEPT !.faults = @ + 1])
       /\ BInv([failed(sent) EXCEPT !.faults = @ + 1])
  BY <1>11, FaultBInv
<1>16. r.reused => BInv([Retry(o, i, r, TRUE) EXCEPT !.faults = @ + 1]) BY <1>13, FaultBInv
<1>17. MayRetry(o.conns[i], r, o.up[r.q]) => BInv([Retry(sent, i, r, FALSE) EXCEPT !.faults = @ + 1])
  BY <1>14, FaultBInv
<1> QED BY <1>5, <1>10, <1>15, <1>16, <1>17 DEF Poll, PollFault

(* The body's end, or its error. *)
LEMMA BodyStepBInv ==
  ASSUME BInv(o), NEW i \in Ids, BodyStep(i)
  PROVE  BInv(o') /\ pc' = "pump"
<1>1. PICK r \in IF Live(o, i) THEN Assigned(o.conns[i]) ELSE {} :
        \/ Poll(End([o EXCEPT !.gw[r.q] = IF @ = "origin" THEN "fin_due" ELSE @], i, r, TRUE))
        \/ PollFault(End(Fail(o, r.q), i, r, FALSE))
  BY DEF BodyStep
<1>2. Live(o, i) /\ r \in Assigned(o.conns[i]) BY <1>1
<1>3. RunsOnly(o, i, r) /\ But(o, r.q) /\ o \in Bridge /\ r.q \in Reqs
  BY <1>2, RunsOnlyHere DEF But, RunsOnly
<1> DEFINE g == IF o.gw[r.q] = "origin" THEN "fin_due" ELSE o.gw[r.q]
           b == [o EXCEPT !.gw[r.q] = IF @ = "origin" THEN "fin_due" ELSE @]
<1>4. g \in {"new", "fin_due", "done", "gone"} /\ (g = o.gw[r.q] \/ g = "fin_due")
  BY <1>3 DEF Bridge
<1>5. b = [o EXCEPT !.gw = [o.gw EXCEPT ![r.q] = g]] BY <1>3 DEF Bridge
<1> HIDE DEF g, b
<1>6. /\ b \in Bridge /\ b.conns = o.conns /\ b.next = o.next /\ b.dials = o.dials
      /\ b.by_h3 = o.by_h3 /\ b.wire = o.wire /\ b.up = o.up
      /\ b.gw = [o.gw EXCEPT ![r.q] = g]
  BY <1>3, <1>4, <1>5 DEF Bridge
<1>7. \A p \in Reqs : /\ b.gw[p] = o.gw[p] \/ b.gw[p] \in {"done", "fin_due"}
                      /\ SameUpload(o.up[p], b.up[p])
  BY <1>3, <1>4, <1>6 DEF Bridge, SameUpload
<1>8. BInv(b) BY <1>6, <1>7, SameBridge
<1>9. b.gw[r.q] # "origin" BY <1>3, <1>4, <1>6 DEF Bridge
<1>10. BInv(End(b, i, r, TRUE))
  <2>1. Live(b, i) /\ r \in Assigned(b.conns[i]) BY <1>2, <1>6 DEF Live
  <2> QED BY <1>8, <1>9, <2>1, EndBInv
<1>11. BInv(End(Fail(o, r.q), i, r, FALSE)) BY <1>3, FailedBInv
<1>12. BInv([End(Fail(o, r.q), i, r, FALSE) EXCEPT !.faults = @ + 1]) BY <1>11, FaultBInv
<1> QED BY <1>1, <1>10, <1>12 DEF Poll, PollFault, b

-----------------------------------------------------------------------------
(* Operations on every connection *)

(* A connection may be replaced by one that no request tells from it. *)
Alike(c, d) == ConnOK(d) /\ (c.at = "gone" => d.at = "gone") /\ \A q \in Reqs : SameView(c, d, q)

LEMMA AlikeItself ==
  ASSUME NEW c, ConnOK(c)
  PROVE  Alike(c, c)
BY DEF Alike, SameView

LEMMA AlikeConns ==
  ASSUME NEW b \in Bridge, ConnsOK(b), NEW d, d.next = b.next,
         \A i \in Ids : ConnOK(d.conns[i]) /\ (b.conns[i].at = "gone" => d.conns[i].at = "gone")
  PROVE  ConnsOK(d)
BY DEF ConnsOK

(* A connection with nothing running or pending is dropped. *)
LEMMA DropAlike ==
  ASSUME NEW c \in LiveConn, c.pending = None, Assigned(c) = {}, NEW d, ConnOK(d), d.at = "gone"
  PROVE  Alike(c, d)
<1>1. \A q \in Reqs : SameView(c, d, q) BY DEF SameView, Pend, Runs, Recs, Assigned
<1> QED BY <1>1 DEF Alike

(* The sweep takes a connection that is idle, or whose records all ended. *)
LEMMA SweptConn ==
  ASSUME NEW c \in LiveConn, SocketOK(c), PhaseOK(c), CountOK(c), NEW aged \in BOOLEAN,
         SweepClass(c, aged) # "keep"
  PROVE  Alike(c, Remove(c, SweepClass(c, aged)))
<1>1. Removable(c) /\ c.at # "gone" BY SoundRemovable DEF LiveConn
<1>2. CASE SweepClass(c, aged) = "A"
  <2>1. c.idle BY <1>2 DEF SweepClass
  <2>2. c.reqs = {} /\ c.pending = None BY <2>1 DEF PhaseOK
  <2>3. ConnOK(Remove(c, "A")) /\ Remove(c, "A").at = "gone" BY <1>1, RemoveDrops
  <2>4. Assigned(c) = {} BY <2>2 DEF Assigned
  <2> QED BY <1>2, <2>2, <2>3, <2>4, DropAlike
<1>3. CASE SweepClass(c, aged) = "E"
  <2>1. c.unreleased > 0 BY <1>3 DEF SweepClass
  <2>2. c.pending = None BY <2>1 DEF PhaseOK
  <2>3. ConnOK(Remove(c, "E")) /\ \A q \in Reqs : SameView(c, Remove(c, "E"), q)
    BY <1>1, <2>2, RemoveView
  <2> QED BY <1>1, <1>3, <2>3 DEF Alike
<1> QED BY <1>2, <1>3 DEF SweepClass

LEMMA SweepBInv ==
  ASSUME BInv(o), Sweep
  PROVE  BInv(o') /\ pc' = "pump"
<1>1. PICK old \in SUBSET Pooled(o) :
        LET Swept(i) == LET class == SweepClass(o.conns[i], i \in old)
                        IN IF class = "keep" THEN o.conns[i] ELSE Remove(o.conns[i], class)
        IN Callback([o EXCEPT !.idle_timer = FALSE,
                       !.conns = [i \in Ids |-> IF i \in Pooled(o) THEN Swept(i) ELSE @[i]]])
  BY DEF Sweep
<1> DEFINE cs == [i \in Ids |->
                    IF i \in Pooled(o) /\ SweepClass(o.conns[i], i \in old) # "keep"
                    THEN Remove(o.conns[i], SweepClass(o.conns[i], i \in old)) ELSE o.conns[i]]
           z == [o EXCEPT !.idle_timer = FALSE, !.conns = cs]
<1>2. Callback(z) BY <1>1
<1>3. o \in Bridge /\ ConnsOK(o) BY DEF BInv
<1>4. \A i \in Ids : Alike(o.conns[i], cs[i])
  <2> SUFFICES ASSUME NEW i \in Ids PROVE Alike(o.conns[i], cs[i]) OBVIOUS
  <2>1. CASE i \in Pooled(o) /\ SweepClass(o.conns[i], i \in old) # "keep"
    <3> DEFINE aged == i \in old
    <3>1. Live(o, i) BY <2>1 DEF Pooled, Live
    <3>2. /\ o.conns[i] \in LiveConn /\ SocketOK(o.conns[i])
          /\ PhaseOK(o.conns[i]) /\ CountOK(o.conns[i])
      BY <3>1, LiveTyped
    <3>3. aged \in BOOLEAN OBVIOUS
    <3>4. cs[i] = Remove(o.conns[i], SweepClass(o.conns[i], aged)) BY <2>1
    <3>5. SweepClass(o.conns[i], aged) # "keep" BY <2>1
    <3> HIDE DEF aged, cs
    <3> QED BY <3>2, <3>3, <3>4, <3>5, SweptConn
  <2>2. CASE ~(i \in Pooled(o) /\ SweepClass(o.conns[i], i \in old) # "keep")
    <3>1. cs[i] = o.conns[i] BY <2>2
    <3> HIDE DEF cs
    <3> QED BY <1>3, <3>1, AlikeItself DEF ConnsOK
  <2> QED BY <2>1, <2>2
<1>5. DOMAIN cs = Ids /\ cs = [i \in Ids |-> cs[i]] OBVIOUS
<1> HIDE DEF cs
<1>6. cs \in [Ids -> LiveConn \cup GoneConn] BY <1>4, <1>5, ConnTyped DEF Alike
<1>7. /\ z \in Bridge /\ z.conns = cs /\ z.next = o.next /\ z.dials = o.dials
      /\ z.by_h3 = o.by_h3 /\ z.wire = o.wire /\ z.gw = o.gw /\ z.up = o.up
  BY <1>3, <1>6 DEF Bridge
<1> HIDE DEF z
<1>8. ConnsOK(z) BY <1>3, <1>4, <1>7, AlikeConns DEF Alike
<1>9. \A q \in Reqs : ReqOK(z, q)
  <2> SUFFICES ASSUME NEW q \in Reqs PROVE ReqOK(z, q) OBVIOUS
  <2>1. \A i \in Ids : SameView(o.conns[i], z.conns[i], q) BY <1>4, <1>7 DEF Alike
  <2>2. ReqOK(o, q) /\ SameUpload(o.up[q], z.up[q]) BY <1>7 DEF BInv, SameUpload
  <2> QED BY <1>7, <2>1, <2>2, FrameReq
<1> QED BY <1>2, <1>7, <1>8, <1>9 DEF BInv, Callback

(* At the shutdown nothing stays pending, and what runs runs on. *)
LEMMA ShutConn ==
  ASSUME NEW c \in LiveConn, SocketOK(c), PhaseOK(c), CountOK(c),
         NEW d, d = Remove([c EXCEPT !.pending = None], "E")
  PROVE  /\ ConnOK(d)
         /\ \A q \in Reqs : ~Pend(d, q) /\ Runs(d, q) = Runs(c, q) /\ Recs(d, q) \subseteq Recs(c, q)
<1> DEFINE e == [c EXCEPT !.pending = None]
<1>1. e \in LiveConn /\ e.pending = None /\ e.at = c.at /\ e.sock = c.sock /\ e.acts = c.acts
      /\ e.due = c.due /\ e.reqs = c.reqs /\ c.at # "gone"
  BY DEF LiveConn
<1>2. c.pending = None => e = c BY DEF LiveConn
<1>3. d = Remove(e, "E") OBVIOUS
<1> HIDE DEF e
<1>4. CASE c.pending = None
  <2>1. ConnOK(d) /\ \A q \in Reqs : SameView(c, d, q)
    BY <1>2, <1>3, <1>4, SoundRemovable, RemoveView
  <2>2. \A q \in Reqs : ~Pend(c, q) BY <1>4 DEF Pend
  <2> QED BY <2>1, <2>2 DEF SameView
<1>5. CASE c.pending # None
  <2>1. c.reqs = {} BY <1>5 DEF PhaseOK
  <2>2. Removable(e) BY <1>1 DEF SocketOK, Removable
  <2>3. Assigned(e) = {} BY <1>1, <2>1 DEF Assigned
  <2>4. ConnOK(d) /\ d.at = "gone" BY <1>3, <2>2, <2>3, RemoveDrops
  <2> QED BY <1>1, <2>1, <2>4 DEF Pend, Runs, Recs
<1> QED BY <1>4, <1>5

(* Origin::shutdown: the requests on their way are dropped, and every      *)
(* relay the gateway still had ends.                                       *)
LEMMA ShutdownBInv ==
  ASSUME BInv(o), Shutdown
  PROVE  BInv(o') /\ pc' = "pump"
<1> DEFINE waiting == {o.conns[i].pending.q : i \in {j \in Ids : Live(o, j) /\ o.conns[j].pending # None}}
           connecting == {q \in Reqs : o.dials[q] # None} \cup waiting
           ds == [q \in Reqs |-> None]
           by == [q \in Reqs |-> IF q \in connecting THEN None ELSE o.by_h3[q]]
           cs == [i \in Ids |-> IF Live(o, i) THEN Remove([o.conns[i] EXCEPT !.pending = None], "E")
                                ELSE o.conns[i]]
           gs == [q \in Reqs |-> IF o.gw[q] \in {"origin", "fin_due"} THEN "done" ELSE o.gw[q]]
           us == [q \in Reqs |-> IF o.gw[q] \in {"origin", "fin_due"}
                                 THEN [o.up[q] EXCEPT !.aborted = @ \/ ~o.up[q].fin,
                                                      !.live = @ - (IF q \in HandedBack(o) THEN 1 ELSE 0)]
                                 ELSE o.up[q]]
           z == [o EXCEPT !.dials = ds, !.by_h3 = by, !.conns = cs, !.gw = gs, !.up = us, !.down = TRUE]
<1>1. Fault(z) BY DEF Shutdown
<1>2. o \in Bridge /\ ConnsOK(o) BY DEF BInv
<1>3. \A i \in Ids : /\ ConnOK(cs[i]) /\ (o.conns[i].at = "gone" => cs[i].at = "gone")
                     /\ \A q \in Reqs : /\ ~Pend(cs[i], q) /\ Runs(cs[i], q) = Runs(o.conns[i], q)
                                        /\ Recs(cs[i], q) \subseteq Recs(o.conns[i], q)
  <2> SUFFICES ASSUME NEW i \in Ids
               PROVE  /\ ConnOK(cs[i]) /\ (o.conns[i].at = "gone" => cs[i].at = "gone")
                      /\ \A q \in Reqs : /\ ~Pend(cs[i], q) /\ Runs(cs[i], q) = Runs(o.conns[i], q)
                                         /\ Recs(cs[i], q) \subseteq Recs(o.conns[i], q)
    OBVIOUS
  <2>1. CASE Live(o, i)
    <3>1. cs[i] = Remove([o.conns[i] EXCEPT !.pending = None], "E") BY <2>1
    <3>2. /\ o.conns[i] \in LiveConn /\ SocketOK(o.conns[i])
          /\ PhaseOK(o.conns[i]) /\ CountOK(o.conns[i])
      BY <2>1, LiveTyped
    <3> HIDE DEF cs
    <3> QED BY <2>1, <3>1, <3>2, ShutConn DEF Live
  <2>2. CASE ~Live(o, i)
    <3>1. cs[i] = o.conns[i] /\ o.conns[i].at = "gone" BY <2>2 DEF Live
    <3> HIDE DEF cs
    <3>2. \A q \in Reqs : ~Pend(o.conns[i], q) BY <3>1 DEF Pend
    <3> QED BY <1>2, <3>1, <3>2 DEF ConnsOK
  <2> QED BY <2>1, <2>2
<1>4. cs = [i \in Ids |-> cs[i]] OBVIOUS
<1>5. \A q \in Reqs : us[q] \in Upload /\ SameUpload(o.up[q], us[q])
  <2> SUFFICES ASSUME NEW q \in Reqs PROVE us[q] \in Upload /\ SameUpload(o.up[q], us[q])
    OBVIOUS
  <2> DEFINE u == o.up[q]
             a == u.aborted \/ ~u.fin
             l == u.live - (IF q \in HandedBack(o) THEN 1 ELSE 0)
  <2>1. u \in Upload BY <1>2 DEF Bridge
  <2>2. a \in BOOLEAN /\ l \in Int BY <2>1 DEF Upload
  <2>3. us[q] = u \/ us[q] = [u EXCEPT !.aborted = a, !.live = l] OBVIOUS
  <2> HIDE DEF us, u, a, l
  <2>4. [u EXCEPT !.aborted = a, !.live = l] \in Upload /\ SameUpload(u, [u EXCEPT !.aborted = a, !.live = l])
    BY <2>1, <2>2 DEF Upload, SameUpload
  <2>5. SameUpload(u, u) BY DEF SameUpload
  <2>6. us[q] \in Upload /\ SameUpload(u, us[q]) BY <2>1, <2>3, <2>4, <2>5
  <2> QED BY <2>6 DEF u
<1>6. us \in [Reqs -> Upload]
  <2>1. us = [q \in Reqs |-> us[q]] OBVIOUS
  <2> HIDE DEF us
  <2> QED BY <1>5, <2>1
<1>7. ds \in [Reqs -> Waiting \cup {None}] /\ \A q \in Reqs : ds[q] = None OBVIOUS
<1>8. by \in [Reqs -> Ids \cup {0, None}] BY <1>2 DEF Bridge
<1>9. /\ gs \in [Reqs -> {"new", "origin", "fin_due", "done", "gone"}]
      /\ \A q \in Reqs : gs[q] # "origin" /\ (gs[q] = o.gw[q] \/ gs[q] = "done")
  BY <1>2 DEF Bridge
<1>10. \A q \in Reqs : by[q] = IF q \in connecting THEN None ELSE o.by_h3[q] OBVIOUS
<1> HIDE DEF cs, us, ds, by, gs
<1>11. cs \in [Ids -> LiveConn \cup GoneConn] BY <1>3, <1>4, ConnTyped
<1>12. /\ z \in Bridge /\ z.conns = cs /\ z.next = o.next /\ z.dials = ds
       /\ z.by_h3 = by /\ z.wire = o.wire /\ z.gw = gs /\ z.up = us
  BY <1>2, <1>6, <1>7, <1>8, <1>9, <1>11 DEF Bridge
<1> HIDE DEF z
<1>13. ConnsOK(z) BY <1>2, <1>3, <1>12, AlikeConns
<1>14. ASSUME NEW q \in Reqs PROVE ReqOK(z, q)
  <2>1. PlaceOK(o, q) /\ OwnerOK(o, q) /\ WireOK(o, q) BY ButOne
  <2>2. z.dials[q] = None /\ \A i \in Ids : ~Pend(z.conns[i], q) BY <1>3, <1>7, <1>12
  <2>3. \A i \in Ids : /\ Runs(z.conns[i], q) = Runs(o.conns[i], q)
                       /\ Recs(z.conns[i], q) \subseteq Recs(o.conns[i], q)
    BY <1>3, <1>12
  <2>4. Twice(z, q) BY <1>5, <1>12, <2>1 DEF WireOK, Twice, Bodiless, SameUpload
  <2>5. WireOK(z, q) BY <1>12, <2>1, <2>2, <2>3, <2>4 DEF WireOK
  <2>6. None # 0 BY OriginPoolAssumption
  <2>7. by[q] # 0
    <3>1. CASE q \in connecting BY <1>10, <2>6, <3>1
    <3>2. CASE q \notin connecting
      <4>1. o.dials[q] = None BY <3>2
      <4> QED BY <1>10, <2>1, <3>2, <4>1 DEF PlaceOK
    <3> QED BY <3>1, <3>2
  <2>8. ASSUME NEW i \in Ids, Runs(o.conns[i], q) # {} PROVE by[q] = i
    <3>1. o.by_h3[q] = i BY <2>1, <2>8 DEF PlaceOK
    <3>2. o.dials[q] = None BY <2>1, <3>1 DEF PlaceOK, Ids
    <3>3. q \notin waiting
      <4> SUFFICES ASSUME q \in waiting PROVE FALSE OBVIOUS
      <4>1. PICK j \in Ids : Live(o, j) /\ o.conns[j].pending # None /\ o.conns[j].pending.q = q
        OBVIOUS
      <4>2. Pend(o.conns[j], q) BY <4>1 DEF Pend, Live
      <4>3. j = i BY <2>1, <3>1, <4>2 DEF PlaceOK
      <4>4. o.conns[i].reqs = {} BY <4>1, <4>3, LiveTyped DEF PhaseOK
      <4> QED BY <2>8, <4>4 DEF Runs, Recs
    <3> QED BY <1>10, <3>1, <3>2, <3>3
  <2>9. PlaceOK(z, q) BY <1>12, <2>2, <2>3, <2>7, <2>8 DEF PlaceOK
  <2>10. OwnerOK(z, q)
    <3>1. z.gw[q] # "origin" /\ (z.gw[q] = o.gw[q] \/ z.gw[q] = "done") BY <1>9, <1>12
    <3>2. z.gw[q] = "gone" => Nowhere(z, q)
      BY <2>1, <2>2, <2>3, <3>1 DEF OwnerOK, Nowhere
    <3>3. z.gw[q] = "new" => \A i \in Ids : Recs(z.conns[i], q) = {}
      BY <2>1, <2>3, <3>1 DEF OwnerOK
    <3>4. z.gw[q] = "new" => z.wire[q] = 0 BY <1>12, <2>1, <3>1 DEF OwnerOK
    <3> QED BY <2>2, <3>1, <3>2, <3>3, <3>4 DEF OwnerOK
  <2> QED BY <2>5, <2>9, <2>10 DEF ReqOK
<1>15. BInv(z) BY <1>12, <1>13, <1>14 DEF BInv
<1>16. BInv([z EXCEPT !.faults = @ + 1]) BY <1>15, FaultBInv
<1> QED BY <1>1, <1>16 DEF Fault, Callback

-----------------------------------------------------------------------------
(* Settling *)

EndedOf(c) == {r \in c.reqs : r.st = "ended"}

StuckOf(c) == {r \in EndedOf(c) : o.up[r.q].live > 0}

(* d is c without the records that were released. *)
Trimmed(c, d) ==
  /\ d \in LiveConn
  /\ d.reqs = (c.reqs \ EndedOf(c)) \cup StuckOf(c)
  /\ d.active = c.active - Cardinality(EndedOf(c) \ StuckOf(c))
  /\ d.unreleased = Cardinality(StuckOf(c)) /\ (d.completed <=> c.driver = "done")
  /\ (c.proto = "h1" /\ c.at = "pool" /\ Assigned(c) # {}) => d.busy
  /\ d.driver = c.driver /\ d.proto = c.proto /\ d.send = c.send /\ d.pending = c.pending
  /\ d.due = c.due /\ d.idle = c.idle /\ d.at = c.at /\ d.sock = c.sock /\ d.acts = c.acts

(* Of c's records, those that run are left, and those that are stuck. *)
LEMMA TrimmedRecords ==
  ASSUME NEW c \in LiveConn, SocketOK(c), PhaseOK(c), CountOK(c), NEW d, Trimmed(c, d)
  PROVE  /\ Removable(d) /\ PhaseOK(d) /\ Assigned(d) = Assigned(c) /\ d.at # "gone"
         /\ \A q \in Reqs : SameView(c, d, q)
         /\ (c.proto = "h1" /\ c.at = "pool" => StuckOf(c) = {}) => CountOK(d)
<1> USE DEF Trimmed
<1> DEFINE out == EndedOf(c) \ StuckOf(c)
<1>1. c.reqs \subseteq Record /\ c.at # "gone" BY DEF LiveConn
<1>2. d.reqs = c.reqs \ out /\ out \subseteq c.reqs BY DEF EndedOf, StuckOf
<1>3. \A r \in out : r.st = "ended" BY DEF EndedOf
<1>4. IsFiniteSet(c.reqs) /\ c.active = Cardinality(c.reqs) BY DEF CountOK
<1>5. IsFiniteSet(out) BY <1>2, <1>4, FS_Subset
<1> HIDE DEF out
<1>6. /\ IsFiniteSet(d.reqs)
      /\ Cardinality(d.reqs) = Cardinality(c.reqs) - Cardinality(out)
  <2>1. c.reqs \cap out = out BY <1>2
  <2>2. /\ IsFiniteSet(c.reqs \ out)
        /\ Cardinality(c.reqs \ out) = Cardinality(c.reqs) - Cardinality(c.reqs \cap out)
    BY <1>4, FS_Difference
  <2> QED BY <1>2, <2>1, <2>2
<1>7. d.active = Cardinality(d.reqs) BY <1>4, <1>6 DEF out
<1>8. Assigned(d) = Assigned(c) BY <1>2, <1>3 DEF Assigned
<1>9. Removable(d) BY DEF SocketOK, Removable
<1>10. PhaseOK(d)
  <2>1. c.pending # None => d.unreleased = 0
    <3> SUFFICES ASSUME c.pending # None PROVE d.unreleased = 0 OBVIOUS
    <3>1. StuckOf(c) = {} BY DEF PhaseOK, StuckOf, EndedOf
    <3> QED BY <3>1, FS_EmptySet
  <2>2. c.reqs = {} => d.reqs = {} BY <1>2
  <2> QED BY <2>1, <2>2 DEF PhaseOK
<1>11. \A q \in Reqs : SameView(c, d, q)
  <2>1. \A q \in Reqs : Pend(d, q) <=> Pend(c, q) BY DEF Pend
  <2>2. \A q \in Reqs : Recs(d, q) \subseteq Recs(c, q) BY <1>1, <1>2 DEF Recs
  <2>3. \A q \in Reqs : Runs(d, q) = Runs(c, q) BY <1>1, <1>2, <1>3 DEF Runs, Recs
  <2> QED BY <2>1, <2>2, <2>3 DEF SameView
<1>12. ASSUME c.proto = "h1" /\ c.at = "pool" => StuckOf(c) = {}
       PROVE  CountOK(d)
  <2>1. \A r, s \in d.reqs : (d.proto = "h1" \/ r.q = s.q) => r = s BY <1>2 DEF CountOK
  <2>2. (d.proto = "h1" /\ d.at = "pool" /\ d.reqs # {}) => d.busy
    <3> SUFFICES ASSUME c.proto = "h1", c.at = "pool", d.reqs # {} PROVE d.busy OBVIOUS
    <3>1. PICK r : r \in c.reqs \ EndedOf(c) BY <1>12
    <3>2. r \in Assigned(c) BY <1>1, <3>1 DEF Assigned, EndedOf, Record
    <3> QED BY <3>2
  <2>3. Cardinality(out) \in Nat BY <1>5, FS_CardinalityType
  <2>4. d.active <= c.active /\ d.active \in Int /\ c.active \in Int BY <2>3 DEF out, LiveConn
  <2>5. MaxStreams \in Nat BY OriginPoolAssumption
  <2>6. d.proto = "h2" => d.active <= MaxStreams BY <2>4, <2>5 DEF CountOK
  <2> QED BY <1>6, <1>7, <2>1, <2>2, <2>6 DEF CountOK
<1> QED BY <1>1, <1>8, <1>9, <1>10, <1>11, <1>12

(* A trimmed connection settles: kept, idle, out of the pool or dropped,   *)
(* and no request can tell.                                                *)
LEMMA SettledConn ==
  ASSUME NEW c \in LiveConn, SocketOK(c), PhaseOK(c), CountOK(c), NEW d, Trimmed(c, d),
         NEW x, NEW ready \in BOOLEAN, NEW closed \in BOOLEAN, closed => c.send,
         x = IF c.at = "closing" /\ Assigned(c) # {} THEN d
             ELSE IF c.at = "closing" THEN Dropped(IF c.due THEN Act(d) ELSE d)
             ELSE IF c.proto = "h1" /\ StuckOf(c) # {} THEN Remove(d, "E")
             ELSE IF c.proto = "h1" /\ \E r \in EndedOf(c) : ~r.clean THEN Remove(d, "C")
             ELSE IF (c.proto = "h1" /\ closed) \/ (d.completed /\ (c.proto = "h1" \/ d.reqs = {}))
                  THEN Remove(d, "B")
             ELSE IF d.reqs = {} /\ c.send /\ ready THEN [d EXCEPT !.idle = TRUE]
             ELSE d
  PROVE  ConnOK(x) /\ \A q \in Reqs : SameView(c, x, q)
<1>1. /\ Removable(d) /\ PhaseOK(d) /\ Assigned(d) = Assigned(c) /\ d.at # "gone"
      /\ \A q \in Reqs : SameView(c, d, q)
      /\ (c.proto = "h1" /\ c.at = "pool" => StuckOf(c) = {}) => CountOK(d)
  BY TrimmedRecords
<1>2. c.at \in {"pool", "closing"} BY DEF LiveConn
<1>3. d \in LiveConn /\ d.proto = c.proto /\ d.at = c.at /\ d.pending = c.pending /\ d.sock = c.sock
      /\ d.driver = c.driver /\ d.send = c.send
      /\ d.due = c.due /\ d.acts = c.acts /\ (d.completed <=> c.driver = "done")
  BY DEF Trimmed
<1>4. SocketOK(d) BY <1>3 DEF SocketOK
<1>5. CountOK(d) => ConnOK(d) BY <1>1, <1>3, <1>4 DEF ConnOK
<1>6. ASSUME NEW y, ConnOK(y), y.at = "gone", c.pending = None, Assigned(c) = {}
      PROVE  \A q \in Reqs : SameView(c, y, q)
  BY <1>6, DropAlike DEF Alike
<1>7. ASSUME NEW y, \A q \in Reqs : SameView(d, y, q)
      PROVE  \A q \in Reqs : SameView(c, y, q)
  BY <1>1, <1>7 DEF SameView
<1>8. ASSUME NEW r \in c.reqs, r.st = "ended", c.proto = "h1" PROVE Assigned(c) = {}
  BY <1>8 DEF CountOK, Assigned
<1>9. c.reqs # {} => c.pending = None BY DEF PhaseOK
<1>10. CASE c.at = "closing" /\ Assigned(c) # {}
  BY <1>1, <1>5, <1>10
<1>11. CASE c.at = "closing" /\ Assigned(c) = {}
  <2> DEFINE a == IF c.due THEN Act(d) ELSE d
  <2>1. x = Dropped(a) BY <1>11
  <2>2. a.sock \in {"ended", "lost"} /\ a.acts = IF a.sock = "ended" THEN 1 ELSE 0
    BY <1>3, <1>4, <1>11 DEF SocketOK, LiveConn, Act
  <2> HIDE DEF a
  <2>3. ConnOK(x) /\ x.at = "gone" BY <2>1, <2>2 DEF Dropped, ConnOK, GoneConn
  <2>4. c.pending = None BY <1>11 DEF PhaseOK
  <2> QED BY <1>6, <1>11, <2>3, <2>4
<1>12. CASE c.at = "pool" /\ c.proto = "h1" /\ StuckOf(c) # {}
  <2>1. x = Remove(d, "E") BY <1>12
  <2>2. PICK r \in c.reqs : r.st = "ended" BY <1>12 DEF StuckOf, EndedOf
  <2>3. Assigned(c) = {} /\ c.pending = None BY <1>8, <1>9, <1>12, <2>2
  <2>4. ConnOK(x) /\ x.at = "gone" BY <1>1, <2>1, <2>3, RemoveDrops
  <2> QED BY <1>6, <2>3, <2>4
<1>13. CASE c.at = "pool" /\ (c.proto = "h1" => StuckOf(c) = {})
  <2>1. CountOK(d) /\ ConnOK(d) BY <1>1, <1>5, <1>13
  <2>2. CASE c.proto = "h1" /\ \E r \in EndedOf(c) : ~r.clean
    <3>1. x = Remove(d, "C") BY <1>13, <2>2
    <3>2. PICK r \in c.reqs : r.st = "ended" BY <2>2 DEF EndedOf
    <3>3. Assigned(c) = {} /\ c.pending = None BY <1>8, <1>9, <2>2, <3>2
    <3>4. ConnOK(x) /\ x.at = "gone" BY <1>1, <3>1, RemoveDrops
    <3> QED BY <1>6, <3>3, <3>4
  <2>3. CASE x = Remove(d, "B") /\ (d.completed \/ closed)
    <3>1. c.pending = None BY <1>3, <2>3 DEF PhaseOK
    <3>2. ConnOK(x) /\ \A q \in Reqs : SameView(d, x, q)
      BY <1>1, <1>3, <1>13, <2>1, <2>3, <3>1, RemoveView
    <3> QED BY <1>7, <3>2
  <2>4. CASE x = [d EXCEPT !.idle = TRUE] /\ d.reqs = {} /\ c.send
    <3>1. c.pending = None BY <2>4 DEF PhaseOK
    <3>2. /\ x \in LiveConn /\ x.driver = d.driver /\ x.proto = d.proto /\ x.send = d.send
          /\ x.sock = d.sock /\ x.acts = d.acts /\ x.at = d.at /\ x.due = d.due
          /\ x.pending = d.pending /\ x.busy = d.busy /\ x.active = d.active
          /\ x.unreleased = d.unreleased /\ x.reqs = d.reqs
      BY ZenonT(60), <1>3, <2>4 DEF LiveConn
    <3>3. PhaseOK(x) BY <1>1, <1>3, <2>4, <3>1, <3>2 DEF PhaseOK
    <3>4. CountOK(x) /\ SocketOK(x) BY ZenonT(60), <1>4, <2>1, <3>2 DEF CountOK, SocketOK
    <3>5. ConnOK(x) BY <1>1, <3>2, <3>3, <3>4 DEF ConnOK
    <3>6. \A q \in Reqs : SameView(d, x, q) BY <3>2 DEF SameView, Pend, Runs, Recs
    <3> QED BY <1>7, <3>5, <3>6
  <2>5. CASE x = d BY <1>1, <2>1, <2>5
  <2>6. \/ c.proto = "h1" /\ \E r \in EndedOf(c) : ~r.clean
        \/ x = Remove(d, "B") /\ (d.completed \/ closed)
        \/ x = [d EXCEPT !.idle = TRUE] /\ d.reqs = {} /\ c.send
        \/ x = d
    BY <1>13
  <2> QED BY <2>2, <2>3, <2>4, <2>5, <2>6
<1> QED BY <1>2, <1>10, <1>11, <1>12, <1>13

LEMMA SettleConnOK ==
  ASSUME NEW c \in LiveConn, SocketOK(c), PhaseOK(c), CountOK(c),
         NEW ready \in BOOLEAN, NEW closed \in BOOLEAN, closed => c.send
  PROVE  /\ ConnOK(SettleConn(c, ready, closed))
         /\ \A q \in Reqs : SameView(c, SettleConn(c, ready, closed), q)
<1> DEFINE ended == EndedOf(c)
           stuck == StuckOf(c)
           busy == Assigned(c) # {}
           rs == (c.reqs \ ended) \cup stuck
           ac == c.active - Cardinality(ended \ stuck)
           un == Cardinality(stuck)
           cp == c.driver = "done"
           bz == IF c.proto = "h1" /\ c.at = "pool" THEN busy ELSE c.busy
           d == [c EXCEPT !.reqs = rs, !.active = ac, !.unreleased = un, !.completed = cp, !.busy = bz]
           x == SettleConn(c, ready, closed)
<1>1. x = IF c.at = "closing" /\ Assigned(c) # {} THEN d
          ELSE IF c.at = "closing" THEN Dropped(IF c.due THEN Act(d) ELSE d)
          ELSE IF c.proto = "h1" /\ StuckOf(c) # {} THEN Remove(d, "E")
          ELSE IF c.proto = "h1" /\ \E r \in EndedOf(c) : ~r.clean THEN Remove(d, "C")
          ELSE IF (c.proto = "h1" /\ closed) \/ (d.completed /\ (c.proto = "h1" \/ d.reqs = {}))
               THEN Remove(d, "B")
          ELSE IF d.reqs = {} /\ c.send /\ ready THEN [d EXCEPT !.idle = TRUE]
          ELSE d
  BY DEF SettleConn, EndedOf, StuckOf
<1>2. c.reqs \subseteq Record /\ rs \in SUBSET Record BY DEF LiveConn, EndedOf, StuckOf
<1>3. IsFiniteSet(c.reqs) BY DEF CountOK
<1>4. IsFiniteSet(stuck) /\ IsFiniteSet(ended \ stuck)
  <2>1. stuck \subseteq c.reqs /\ (ended \ stuck) \subseteq c.reqs BY DEF EndedOf, StuckOf
  <2> HIDE DEF stuck, ended
  <2> QED BY <1>3, <2>1, FS_Subset
<1>5. un \in Int /\ Cardinality(ended \ stuck) \in Int
  <2> HIDE DEF stuck, ended
  <2>1. Cardinality(stuck) \in Nat /\ Cardinality(ended \ stuck) \in Nat BY <1>4, FS_CardinalityType
  <2> QED BY <2>1
<1>6. ac \in Int BY <1>5 DEF LiveConn
<1>7. cp \in BOOLEAN /\ bz \in BOOLEAN BY DEF LiveConn
<1>8. (c.proto = "h1" /\ c.at = "pool" /\ Assigned(c) # {}) => bz OBVIOUS
<1> HIDE DEF x
<1>9. Trimmed(c, d)
  <2> HIDE DEF rs, ac, un, cp, bz
  <2>1. d \in LiveConn BY <1>2, <1>5, <1>6, <1>7 DEF LiveConn
  <2>2. d.reqs = rs /\ d.active = ac /\ d.unreleased = un /\ d.completed = cp /\ d.busy = bz
    BY DEF LiveConn
  <2>3. /\ d.driver = c.driver /\ d.proto = c.proto /\ d.send = c.send /\ d.pending = c.pending
        /\ d.due = c.due /\ d.idle = c.idle /\ d.at = c.at /\ d.sock = c.sock /\ d.acts = c.acts
    BY DEF LiveConn
  <2> HIDE DEF d
  <2> QED BY <1>8, <2>1, <2>2, <2>3 DEF Trimmed, rs, ac, un, cp
<1> HIDE DEF d, ended, stuck, busy, rs, ac, un, cp, bz
<1>10. ConnOK(x) /\ \A q \in Reqs : SameView(c, x, q) BY <1>1, <1>9, SettledConn
<1> QED BY <1>10 DEF x

(* settle: every account is brought up to date, and the sweep's timer runs *)
(* while a connection lives.                                               *)
LEMMA SettleBInv ==
  ASSUME BInv(o), Settle
  PROVE  BInv(o') /\ pc' = "idle" /\ (o'.idle_timer <=> \E i \in Ids : Live(o', i))
<1>1. PICK waits \in SUBSET H1Senders(o), closed \in SUBSET H1Senders(o) :
        SettleWith(waits, closed)
  BY DEF Settle
<1> DEFINE Settled(i) == SettleConn(o.conns[i], i \notin waits, i \in closed)
           cs == [i \in Ids |-> IF Live(o, i) THEN Settled(i) ELSE o.conns[i]]
           held == {r.q : r \in UNION {cs[i].reqs : i \in {j \in Ids : cs[j].at # "gone"}}}
           freed == {q \in Reqs : o.gw[q] = "gone" /\ q \notin held}
           us == [q \in Reqs |-> IF q \in freed THEN NewUpload ELSE o.up[q]]
           ws == [q \in Reqs |-> IF q \in freed THEN 0 ELSE o.wire[q]]
           it == \E i \in Ids : cs[i].at # "gone"
           fs == IF closed = {} THEN o.faults ELSE o.faults + 1
           z == [o EXCEPT !.conns = cs, !.idle_timer = it, !.up = us, !.wire = ws, !.faults = fs]
<1>2. o' = z /\ pc' = "idle" BY <1>1 DEF Settle, SettleWith
<1>3. o \in Bridge /\ ConnsOK(o) BY DEF BInv
<1>4. \A i \in Ids : Alike(o.conns[i], cs[i])
  <2> SUFFICES ASSUME NEW i \in Ids PROVE Alike(o.conns[i], cs[i]) OBVIOUS
  <2>1. CASE Live(o, i)
    <3>1. /\ o.conns[i] \in LiveConn /\ SocketOK(o.conns[i])
          /\ PhaseOK(o.conns[i]) /\ CountOK(o.conns[i])
      BY <2>1, LiveTyped
    <3>2. cs[i] = SettleConn(o.conns[i], i \notin waits, i \in closed) BY <2>1
    <3>3. (i \in closed) => o.conns[i].send BY DEF H1Senders
    <3>4. (i \notin waits) \in BOOLEAN /\ (i \in closed) \in BOOLEAN OBVIOUS
    <3> HIDE DEF cs
    <3>5. ConnOK(cs[i]) /\ \A q \in Reqs : SameView(o.conns[i], cs[i], q)
      BY <3>1, <3>2, <3>3, <3>4, SettleConnOK
    <3> QED BY <2>1, <3>5 DEF Alike, Live
  <2>2. CASE ~Live(o, i)
    <3>1. cs[i] = o.conns[i] BY <2>2
    <3> HIDE DEF cs
    <3> QED BY <1>3, <3>1, AlikeItself DEF ConnsOK
  <2> QED BY <2>1, <2>2
<1>5. cs = [i \in Ids |-> cs[i]] /\ it \in BOOLEAN OBVIOUS
<1>6. NewUpload \in Upload BY DEF NewUpload, Upload
<1>7. /\ us \in [Reqs -> Upload] /\ ws \in [Reqs -> Nat]
      /\ \A q \in Reqs : \/ us[q] = o.up[q] /\ ws[q] = o.wire[q]
                         \/ ws[q] = 0 /\ o.gw[q] = "gone"
  <2> HIDE DEF held
  <2> QED BY <1>3, <1>6 DEF Bridge
<1>8. fs \in Nat BY <1>3 DEF Bridge
<1> HIDE DEF cs, us, ws, fs
<1>9. cs \in [Ids -> LiveConn \cup GoneConn] BY <1>4, <1>5, ConnTyped DEF Alike
<1>10. it <=> \E i \in Ids : cs[i].at # "gone" OBVIOUS
<1> HIDE DEF it
<1>11. /\ z \in Bridge /\ z.conns = cs /\ z.next = o.next /\ z.dials = o.dials
      /\ z.by_h3 = o.by_h3 /\ z.wire = ws /\ z.gw = o.gw /\ z.up = us /\ z.idle_timer = it
  BY <1>3, <1>5, <1>7, <1>9, <1>8 DEF Bridge
<1> HIDE DEF z
<1>12. ConnsOK(z) BY <1>3, <1>4, <1>11, AlikeConns DEF Alike
<1>13. ASSUME NEW q \in Reqs PROVE ReqOK(z, q)
  <2>1. \A i \in Ids : SameView(o.conns[i], z.conns[i], q) BY <1>4, <1>11 DEF Alike
  <2>2. ReqOK(o, q) BY DEF BInv
  <2>3. CASE us[q] = o.up[q] /\ ws[q] = o.wire[q]
    <3>1. SameUpload(o.up[q], z.up[q]) BY <1>11, <2>3 DEF SameUpload
    <3> QED BY <1>11, <2>1, <2>2, <2>3, <3>1, FrameReq
  <2>4. CASE ws[q] = 0 /\ o.gw[q] = "gone"
    <3>1. Nowhere(o, q) BY <2>2, <2>4 DEF ReqOK, OwnerOK
    <3>2. Nowhere(z, q) BY <1>11, <2>1, <3>1 DEF Nowhere, SameView
    <3>3. WireOK(z, q) BY <1>11, <2>4, <3>2 DEF WireOK, Nowhere, Twice
    <3>4. PlaceOK(z, q) BY <1>11, <2>2, <3>1, <3>2 DEF PlaceOK, ReqOK, Nowhere
    <3>5. OwnerOK(z, q) BY <1>11, <2>4, <3>2 DEF OwnerOK
    <3> QED BY <3>3, <3>4, <3>5 DEF ReqOK
  <2> QED BY <1>7, <2>3, <2>4
<1>14. BInv(z) BY <1>11, <1>12, <1>13 DEF BInv
<1> QED BY <1>2, <1>10, <1>11, <1>14 DEF Live

-----------------------------------------------------------------------------
(* The theorems *)

LEMMA OInitInv ==
  ASSUME OInit
  PROVE  OInv
<1> DEFINE g == [at |-> "gone", sock |-> "none", acts |-> 0]
           cs == [i \in Ids |-> g]
           by == [q \in Reqs |-> None]
           gs == [q \in Reqs |-> "new"]
           us == [q \in Reqs |-> NewUpload]
           ws == [q \in Reqs |-> 0]
<1>1. /\ pc = "idle"
      /\ o = [conns |-> cs, next |-> 1, dials |-> by, by_h3 |-> by, idle_timer |-> FALSE,
              gw |-> gs, up |-> us, wire |-> ws, down |-> FALSE, faults |-> 0]
  BY DEF OInit
<1>2. g \in GoneConn /\ ConnOK(g) BY DEF GoneConn, ConnOK
<1>3. NewUpload \in Upload BY DEF NewUpload, Upload
<1>4. cs \in [Ids -> LiveConn \cup GoneConn] /\ \A i \in Ids : cs[i] = g BY <1>2
<1>5. by \in [Reqs -> Waiting \cup {None}] /\ by \in [Reqs -> Ids \cup {0, None}] OBVIOUS
<1>6. gs \in [Reqs -> {"new", "origin", "fin_due", "done", "gone"}] OBVIOUS
<1>7. us \in [Reqs -> Upload] BY <1>3
<1>8. ws \in [Reqs -> Nat] OBVIOUS
<1>9. \A q \in Reqs : by[q] = None /\ gs[q] = "new" /\ ws[q] = 0 OBVIOUS
<1>10. g.at = "gone" OBVIOUS
<1> HIDE DEF g, cs, by, gs, us, ws
<1>11. o \in Bridge BY <1>1, <1>4, <1>5, <1>6, <1>7, <1>8 DEF Bridge
<1>12. ConnsOK(o) BY <1>1, <1>2, <1>4, <1>10 DEF ConnsOK
<1>13. None # 0 BY OriginPoolAssumption
<1>14. ASSUME NEW q \in Reqs PROVE ReqOK(o, q)
  <2>1. o.dials[q] = None /\ o.by_h3[q] = None /\ o.gw[q] = "new" /\ o.wire[q] = 0
    BY <1>1, <1>9
  <2>2. \A i \in Ids : ~Pend(o.conns[i], q) /\ Recs(o.conns[i], q) = {} /\ Runs(o.conns[i], q) = {}
    BY <1>1, <1>4, <1>10 DEF Pend, Recs, Runs
  <2>3. WireOK(o, q) BY <2>1, <2>2 DEF WireOK, Twice
  <2>4. PlaceOK(o, q) BY <1>13, <2>1, <2>2 DEF PlaceOK
  <2>5. OwnerOK(o, q) BY <2>1, <2>2 DEF OwnerOK
  <2> QED BY <2>3, <2>4, <2>5 DEF ReqOK
<1>15. ~o.idle_timer /\ \A i \in Ids : ~Live(o, i) BY <1>1, <1>4, <1>10 DEF Live
<1> QED BY <1>1, <1>11, <1>12, <1>14, <1>15 DEF OInv, BInv

LEMMA ONextInv ==
  ASSUME OInv, [ONext]_ovars
  PROVE  OInv'
<1>1. BInv(o) /\ pc \in {"idle", "pump"} BY DEF OInv
<1>2. ASSUME BInv(o'), pc' = "pump" PROVE OInv' BY <1>2 DEF OInv
<1>3. CASE UNCHANGED ovars
  BY ZenonT(60), <1>3
  DEF ovars, OInv, BInv, ConnsOK, ReqOK, WireOK, PlaceOK, OwnerOK, Nowhere, Twice, Live
<1>4. ASSUME NEW q \in Reqs, NEW ver \in {"h1", "any"}, NEW fin \in BOOLEAN, StartReq(q, ver, fin)
      PROVE  OInv'
  BY <1>1, <1>2, <1>4, StartReqBInv
<1>5. ASSUME NEW q \in Reqs, NEW https \in BOOLEAN, DialOk(q, https) PROVE OInv'
  BY <1>1, <1>2, <1>5, DialOkBInv
<1>6. ASSUME NEW q \in Reqs,
             UploadFin(q) \/ GwEnds(q) \/ H3Closed(q) \/ DialErr(q) \/ HyperDrops(q)
      PROVE  OInv'
  BY <1>1, <1>2, <1>6, UploadFinBInv, GwEndsBInv, H3ClosedBInv, DialErrBInv, HyperDropsBInv
<1>7. ASSUME NEW i \in Ids, TcpErr(i) PROVE OInv'
  <2>1. /\ BInv(o')
        /\ \/ pc' = "pump"
           \/ /\ pc' = pc /\ o'.idle_timer = o.idle_timer
              /\ \A j \in Ids : Live(o, j)' <=> Live(o, j)
    BY <1>1, <1>7, TcpErrBInv
  <2>2. CASE pc' = "pump" BY <1>2, <2>1, <2>2
  <2>3. CASE /\ pc' = pc /\ o'.idle_timer = o.idle_timer
             /\ \A j \in Ids : Live(o, j)' <=> Live(o, j)
    BY <2>1, <2>3 DEF OInv
  <2> QED BY <2>1, <2>2, <2>3
<1>8. ASSUME NEW i \in Ids,
             \/ ConnectTimeout(i) \/ TlsStep(i) \/ TlsFatal(i) \/ HandshakeStep(i)
             \/ ConnectionDone(i) \/ ResponseStep(i) \/ BodyStep(i)
      PROVE  OInv'
  BY <1>1, <1>2, <1>8, ConnectTimeoutBInv, TlsStepBInv, TlsFatalBInv, HandshakeStepBInv,
     ConnectionDoneBInv, ResponseStepBInv, BodyStepBInv
<1>9. ASSUME Sweep \/ Shutdown PROVE OInv' BY <1>1, <1>2, <1>9, SweepBInv, ShutdownBInv
<1>10. ASSUME Settle PROVE OInv'
  <2>1. BInv(o') /\ pc' = "idle" /\ (o'.idle_timer <=> \E i \in Ids : Live(o', i))
    BY <1>1, <1>10, SettleBInv
  <2> QED BY <2>1 DEF OInv
<1> QED BY <1>3, <1>4, <1>5, <1>6, <1>7, <1>8, <1>9, <1>10 DEF ONext

(* The invariant of the origin bridge: every connection's socket, phase    *)
(* and accounts, and for every request the one place where it waits or     *)
(* runs, through dials, retries, cancels, removals, sweeps and settling.   *)
THEOREM OriginInvariant == OSpec => []OInv
<1>1. OInit => OInv BY OInitInv
<1>2. OInv /\ [ONext]_ovars => OInv' BY ONextInv
<1> QED BY <1>1, <1>2, PTL DEF OSpec

(* The live records of a request are the one place the invariant gives it. *)
LEMMA OneRecord ==
  ASSUME BInv(o), NEW q \in Reqs
  PROVE  /\ \A w \in LiveRecs(o, q) : o.by_h3[q] = w[2]
         /\ \A v, w \in LiveRecs(o, q) : v = w
         /\ LiveRecs(o, q) = {} <=> Nowhere(o, q)
<1>1. PlaceOK(o, q) BY ButOne
<1>2. 0 \notin Ids BY DEF Ids
<1> DEFINE D == {<<"dial", 0>> : x \in {d \in {o.dials[q]} : d # None}}
           P == {<<"pending", i>> : i \in {j \in Ids : Pend(o.conns[j], q)}}
           A == {<<"assigned", i>> : i \in {j \in Ids : Runs(o.conns[j], q) # {}}}
<1>3. LiveRecs(o, q) = D \cup P \cup A
  <2>1. \A j \in Ids : Pend(o.conns[j], q) <=>
          Live(o, j) /\ o.conns[j].pending # None /\ o.conns[j].pending.q = q
    BY DEF Pend, Live
  <2>2. \A j \in Ids : Runs(o.conns[j], q) # {} <=>
          Live(o, j) /\ \E r \in Assigned(o.conns[j]) : r.q = q
    BY DEF Runs, Recs, Live, Assigned
  <2> QED BY <2>1, <2>2 DEF LiveRecs
<1>4. \A w \in D : w = <<"dial", 0>> /\ o.dials[q] # None OBVIOUS
<1>5. \A w \in P : w[2] \in Ids /\ w = <<"pending", w[2]>> /\ Pend(o.conns[w[2]], q) OBVIOUS
<1>6. \A w \in A : w[2] \in Ids /\ w = <<"assigned", w[2]>> /\ Runs(o.conns[w[2]], q) # {} OBVIOUS
<1>7. D = {} <=> o.dials[q] = None OBVIOUS
<1>8. P = {} <=> \A j \in Ids : ~Pend(o.conns[j], q) OBVIOUS
<1>9. A = {} <=> \A j \in Ids : Runs(o.conns[j], q) = {} OBVIOUS
<1>10. \A j \in Ids : Pend(o.conns[j], q) => Runs(o.conns[j], q) = {}
  <2> SUFFICES ASSUME NEW j \in Ids, Pend(o.conns[j], q) PROVE Runs(o.conns[j], q) = {} OBVIOUS
  <2>1. Live(o, j) BY DEF Pend, Live
  <2>2. o.conns[j].reqs = {} BY <2>1, LiveTyped DEF PhaseOK, Pend
  <2> QED BY <2>2 DEF Runs, Recs
<1> HIDE DEF D, P, A
<1>11. \A w \in D \cup P \cup A : o.by_h3[q] = w[2] BY <1>1, <1>4, <1>5, <1>6 DEF PlaceOK
<1>12. \A v, w \in D \cup P \cup A : v = w
  <2> SUFFICES ASSUME NEW v \in D \cup P \cup A, NEW w \in D \cup P \cup A PROVE v = w OBVIOUS
  <2>1. v[2] = w[2] BY <1>11
  <2>2. v \in D => v[2] = 0 BY <1>4
  <2>3. w \in D => w[2] = 0 BY <1>4
  <2> QED BY <1>2, <1>4, <1>5, <1>6, <1>10, <2>1, <2>2, <2>3
<1>13. LiveRecs(o, q) = {} <=> Nowhere(o, q) BY <1>3, <1>7, <1>8, <1>9 DEF Nowhere
<1> QED BY <1>3, <1>11, <1>12, <1>13

(* No exchange is lost, none runs for a request that is gone, and none     *)
(* reaches origins twice unless it was complete and empty.                 *)
THEOREM OriginRequestsKept == OSpec => []RequestsKept
<1>1. ASSUME OInv PROVE RequestsKept
  <2>1. BInv(o) BY <1>1 DEF OInv
  <2>2. ASSUME NEW q \in Reqs
        PROVE  /\ o.gw[q] = "origin" => Cardinality(LiveRecs(o, q)) = 1
               /\ Cardinality(LiveRecs(o, q)) <= 1
               /\ \A w \in LiveRecs(o, q) : o.by_h3[q] = w[2]
               /\ o.gw[q] = "gone" => LiveRecs(o, q) = {}
               /\ o.wire[q] <= 2 /\ (o.wire[q] = 2 => Bodiless(o.up[q]))
    <3> DEFINE L == LiveRecs(o, q)
    <3>1. /\ \A w \in L : o.by_h3[q] = w[2]
          /\ \A v, w \in L : v = w
          /\ L = {} <=> Nowhere(o, q)
      BY <2>1, OneRecord
    <3>2. OwnerOK(o, q) /\ WireOK(o, q) BY <2>1, ButOne
    <3> HIDE DEF L
    <3>3. L = {} => Cardinality(L) = 0 BY FS_EmptySet
    <3>4. L # {} => Cardinality(L) = 1
      <4> SUFFICES ASSUME L # {} PROVE Cardinality(L) = 1 OBVIOUS
      <4>1. PICK w : w \in L OBVIOUS
      <4>2. L = {w} BY <3>1, <4>1
      <4>3. Cardinality({w}) = 1 BY FS_Singleton
      <4> QED BY <4>2, <4>3
    <3>5. /\ o.gw[q] = "origin" => L # {}
          /\ o.gw[q] = "gone" => L = {}
      BY <3>1, <3>2 DEF OwnerOK
    <3>6. Twice(o, q) BY <3>2 DEF WireOK
    <3>7. Cardinality(L) <= 1 BY <3>3, <3>4
    <3>8. o.gw[q] = "origin" => Cardinality(L) = 1 BY <3>4, <3>5
    <3> QED BY <3>1, <3>5, <3>6, <3>7, <3>8 DEF L, Twice
  <2> QED BY <2>2 DEF RequestsKept, RecordsReachable, RetryIsSafe
<1> QED BY <1>1, OriginInvariant, PTL

(* No origin socket is leaked or acted on twice, an h1 connection carries  *)
(* one exchange and an h2 one no more than its origin allows, `active` is  *)
(* the records held, and a settled bridge sweeps while it has connections. *)
THEOREM OriginSocketsKept == OSpec => []SocketsKept
<1>1. ASSUME OInv PROVE SocketsKept
  <2>1. BInv(o) BY <1>1 DEF OInv
  <2>2. ASSUME NEW i \in Ids
        PROVE  /\ o.conns[i].acts <= 1
               /\ o.conns[i].at = "pool" => o.conns[i].sock = "open"
               /\ o.conns[i].sock = "open" =>
                    (o.conns[i].at = "pool" \/ (o.conns[i].at = "closing" /\ o.conns[i].due))
               /\ o.conns[i].sock = "ended" => o.conns[i].acts = 1
    <3>1. ConnOK(o.conns[i]) BY <2>1 DEF BInv, ConnsOK
    <3> QED BY <3>1 DEF ConnOK, GoneConn, LiveConn, SocketOK
  <2>3. ASSUME NEW i \in Ids, Live(o, i), NEW c, c = o.conns[i]
        PROVE  /\ c.active = Cardinality(c.reqs)
               /\ c.proto = "h1" => Cardinality(c.reqs) <= 1
               /\ c.proto = "h2" => c.active <= MaxStreams
    <3>1. CountOK(c) BY <2>1, <2>3, LiveTyped
    <3>2. ASSUME c.proto = "h1" PROVE Cardinality(c.reqs) <= 1
      <4>1. CASE c.reqs = {} BY <4>1, FS_EmptySet
      <4>2. CASE c.reqs # {}
        <5>1. PICK r : r \in c.reqs BY <4>2
        <5>2. c.reqs = {r} BY <3>1, <3>2, <5>1 DEF CountOK
        <5>3. Cardinality({r}) = 1 BY FS_Singleton
        <5> QED BY <5>2, <5>3
      <4> QED BY <4>1, <4>2
    <3> QED BY <3>1, <3>2 DEF CountOK
  <2>4. pc = "idle" => (o.idle_timer <=> Pooled(o) \cup Closing(o) # {})
    <3>1. \A i \in Ids : o.conns[i].at \in {"gone", "pool", "closing"}
      BY <2>1 DEF BInv, ConnsOK, ConnOK, LiveConn
    <3>2. (\E i \in Ids : Live(o, i)) <=> Pooled(o) \cup Closing(o) # {}
      BY <3>1 DEF Live, Pooled, Closing
    <3> QED BY <1>1, <3>2 DEF OInv
  <2>5. AccountsExact BY <2>3, <2>4 DEF AccountsExact
  <2>6. SocketActedOnce BY <2>2 DEF SocketActedOnce
  <2> QED BY <2>5, <2>6 DEF SocketsKept
<1> QED BY <1>1, OriginInvariant, PTL
=============================================================================
