---------------------------- MODULE RelayProofs ----------------------------
(***************************************************************************)
(* Proofs about Relay, for every buffer size and every amount of traffic.  *)
(*                                                                         *)
(* A handler is a composition of functions on a flow, so the invariant is  *)
(* carried through it one function at a time: Good is what holds between   *)
(* two steps of a handler while the relay is still in the tables, and      *)
(* Settled adds what settle_relay establishes at its end.                  *)
(***************************************************************************)
EXTENDS Relay, TLAPS

Flows == [r : RelayRecords, s : StreamRecords, k : TcpRecords, dead : BOOLEAN]

(* The facts about the relay's flags that BytesConserved rests on: a flag  *)
(* says what xquic and the kernel have been given, and is set only behind  *)
(* an empty buffer and a finished source.                                  *)
Parts(r, s, k) ==
  /\ k.taken <= k.sent
  /\ s.got <= s.arrived
  /\ RLen(r.toQuic) + s.acc = k.taken
  /\ RLen(r.toTcp) + k.out = s.got
  /\ r.readEof => k.eof /\ k.taken = k.sent
  /\ r.finSent => r.readEof /\ IsEmpty(r.toQuic)
  /\ s.finAcc = r.finSent
  /\ r.finSeen => s.peerFin /\ s.got = s.arrived /\ ~r.readable
  /\ r.writeShut => r.finSeen /\ IsEmpty(r.toTcp)
  /\ k.shut = r.writeShut
  /\ r.state = "Clean" => r.finSent /\ r.writeShut

Good(p) == p \in Flows /\ Parts(p.r, p.s, p.k)

(* The socket's fate follows the relay's state at the end of a handler. *)
Fate(r, k) ==
  /\ r.state = "Open" => k.fate = "open"
  /\ r.state = "Clean" => k.fate = "close"
  /\ r.state = "Abort" => k.fate = "abort"

Settled(p) == Good(p) /\ Fate(p.r, p.k)

----------------------------------------------------------------------------
(* The buffer. *)

(* commit keeps a buffer a buffer and adds n bytes (ringbuf.rs commit). *)
LEMMA CommitRing ==
  ASSUME NEW cap \in Nat, NEW b \in Ring(cap), NEW n \in Nat, n <= Space(cap, b)
  PROVE  Commit(b, n) \in Ring(cap) /\ RLen(Commit(b, n)) = RLen(b) + n
BY DEF Ring, Commit, Space, RLen

(* consume keeps a buffer a buffer and removes n bytes (ringbuf.rs consume). *)
LEMMA ConsumeRing ==
  ASSUME NEW cap \in Nat, NEW b \in Ring(cap), NEW n \in Nat, n <= RLen(b)
  PROVE  Consume(b, n) \in Ring(cap) /\ RLen(Consume(b, n)) = RLen(b) - n
BY DEF Ring, Consume, RLen, EmptyRing

(* A buffer is empty exactly when it holds no byte. *)
LEMMA RingLen ==
  ASSUME NEW cap \in Nat, NEW b \in Ring(cap)
  PROVE  RLen(b) \in Nat /\ (IsEmpty(b) <=> RLen(b) = 0) /\ Space(cap, b) \in Nat
BY DEF Ring, RLen, IsEmpty, Space

----------------------------------------------------------------------------
(* Updating parts of a flow. *)

LEMMA FlowParts ==
  ASSUME NEW p, Good(p)
  PROVE  p.r \in RelayRecords /\ p.s \in StreamRecords /\ p.k \in TcpRecords
BY DEF Good, Flows

LEMMA UpdateR ==
  ASSUME NEW p, Good(p), NEW r2 \in RelayRecords, Parts(r2, p.s, p.k)
  PROVE  Good([p EXCEPT !.r = r2]) /\ [p EXCEPT !.r = r2].k = p.k
BY DEF Good, Flows

LEMMA UpdateRS ==
  ASSUME NEW p, Good(p), NEW r2 \in RelayRecords, NEW s2 \in StreamRecords,
         Parts(r2, s2, p.k)
  PROVE  /\ Good([p EXCEPT !.r = r2, !.s = s2])
         /\ [p EXCEPT !.r = r2, !.s = s2].k = p.k
BY DEF Good, Flows

LEMMA UpdateRK ==
  ASSUME NEW p, Good(p), NEW r2 \in RelayRecords, NEW k2 \in TcpRecords,
         Parts(r2, p.s, k2)
  PROVE  /\ Good([p EXCEPT !.r = r2, !.k = k2])
         /\ [p EXCEPT !.r = r2, !.k = k2].k = k2
BY DEF Good, Flows

----------------------------------------------------------------------------
(* The steps of a handler keep Good and leave the socket's fate alone. *)

(* abort only changes the state. *)
LEMMA AbortGood ==
  ASSUME NEW p, Good(p)
  PROVE  Good(AbortRelay(p)) /\ AbortRelay(p).k = p.k
<1> DEFINE r2 == [p.r EXCEPT !.state = "Abort"]
<1>1. r2 \in RelayRecords /\ Parts(r2, p.s, p.k)
  BY FlowParts DEF Good, RelayRecords, Parts
<1> QED
  BY <1>1, UpdateR DEF AbortRelay

(* check_clean ends the relay only with both ends passed on. *)
LEMMA CheckCleanGood ==
  ASSUME NEW p, Good(p)
  PROVE  Good(CheckClean(p)) /\ CheckClean(p).k = p.k
<1> DEFINE r2 == [p.r EXCEPT !.state = "Clean"]
<1>1. r2 \in RelayRecords
  BY FlowParts DEF RelayRecords
<1>2. CASE p.r.finSent /\ p.r.writeShut
  <2>1. Parts(r2, p.s, p.k)
    BY <1>2, FlowParts DEF Good, RelayRecords, Parts
  <2> QED
    BY <1>1, <2>1, UpdateR DEF CheckClean
<1> QED
  BY <1>2 DEF CheckClean

(* The reset probe reports the end of the stream only when all was read. *)
LEMMA ResetProbeGood ==
  ASSUME NEW p, Good(p)
  PROVE  Good(ResetProbe(p)) /\ ResetProbe(p).k = p.k
<1> DEFINE r1 == [p.r EXCEPT !.probe = FALSE]
           r2 == [p.r EXCEPT !.probe = FALSE, !.finSeen = TRUE, !.readable = FALSE]
           s2 == [p.s EXCEPT !.finRead = TRUE]
           q  == [p EXCEPT !.r = r1]
<1>1. r1 \in RelayRecords /\ Parts(r1, p.s, p.k)
  BY FlowParts DEF Good, RelayRecords, Parts
<1>2. Good(q) /\ q.k = p.k
  BY <1>1, UpdateR
<1>3. Good(AbortRelay(q)) /\ AbortRelay(q).k = p.k
  BY <1>2, AbortGood
<1>4. CASE AllRead(p.s)
  <2>1. r2 \in RelayRecords /\ s2 \in StreamRecords
    BY ZenonT(60), FlowParts DEF RelayRecords, StreamRecords
  <2>2. Parts(r2, s2, p.k)
    BY <1>4, FlowParts DEF Good, RelayRecords, StreamRecords, Parts, AllRead
  <2>3. /\ Good([p EXCEPT !.r = r2, !.s = s2])
        /\ [p EXCEPT !.r = r2, !.s = s2].k = p.k
    BY <2>1, <2>2, UpdateRS
  <2> QED
    BY <1>3, <1>4, <2>3 DEF ResetProbe
<1>5. CASE ~AllRead(p.s)
  BY <1>2, <1>3, <1>5 DEF ResetProbe
<1> QED
  BY <1>4, <1>5

(* A send moves exactly what xquic accepted, the FIN only with all of it. *)
LEMMA SendDataGood ==
  ASSUME NEW p, Good(p)
  PROVE  Good(SendData(p)) /\ SendData(p).k = p.k
<1> DEFINE len  == RLen(p.r.toQuic)
           n    == Least(p.s.room, len)
           full == n = len
           fin  == p.r.readEof /\ full
           want == ~full
           sent == p.r.finSent \/ fin
           acc  == p.s.finAcc \/ fin
           b    == Consume(p.r.toQuic, n)
           r2 == [p.r EXCEPT !.toQuic = b, !.writable = full, !.finSent = sent]
           s2 == [p.s EXCEPT !.room = p.s.room - n, !.acc = p.s.acc + n,
                             !.finAcc = acc, !.wantW = want]
<1>1. p.r.toQuic \in Ring(RELAY_BUF) /\ RELAY_BUF \in Nat
  BY RelayAssumption, FlowParts DEF RelayRecords
<1>2. len \in Nat /\ p.s.room \in Nat
  BY <1>1, RingLen, FlowParts DEF StreamRecords
<1>3. n \in Nat /\ n <= len /\ n <= p.s.room
  BY <1>2 DEF Least
<1>4. b \in Ring(RELAY_BUF) /\ RLen(b) = len - n /\ (IsEmpty(b) <=> n = len)
  BY <1>1, <1>2, <1>3, ConsumeRing, RingLen
<1>5. CASE Open(p.r) /\ p.r.writable /\ len > 0 /\ ~SendFails(p.s)
  <2>a. SendData(p) = Accepted(p, n)
    BY <1>5 DEF SendData
  <2>b. Accepted(p, n) = [p EXCEPT !.r = r2, !.s = s2]
    BY DEF Accepted
  <2>1. SendData(p) = [p EXCEPT !.r = r2, !.s = s2]
    BY <2>a, <2>b
  <2>c. p.s.room - n \in Nat /\ p.s.acc + n \in Nat
    BY <1>2, <1>3, FlowParts DEF StreamRecords
  <2>2. ~IsEmpty(p.r.toQuic) /\ p.r.finSent = FALSE /\ p.s.finAcc = FALSE
    BY <1>1, <1>5, RingLen, FlowParts DEF Good, Parts, RelayRecords
  <2>3. /\ fin \in BOOLEAN /\ full \in BOOLEAN /\ want \in BOOLEAN
        /\ sent = fin /\ acc = fin
        /\ fin => p.r.readEof /\ n = len
    BY <2>2
  <2> HIDE DEF b, n, len, full, fin, sent, acc, want
  <2>4. r2 \in RelayRecords
    BY <1>4, <2>3, FlowParts DEF RelayRecords
  <2>5. s2 \in StreamRecords
    BY <2>c, <2>3, FlowParts DEF StreamRecords
  <2>6. Parts(r2, s2, p.k)
    BY <2>2, <2>3, <1>2, <1>3, <1>4, FlowParts
    DEF Good, RelayRecords, StreamRecords, TcpRecords, Parts, len
  <2> HIDE DEF r2, s2
  <2>7. /\ Good([p EXCEPT !.r = r2, !.s = s2])
        /\ [p EXCEPT !.r = r2, !.s = s2].k = p.k
    BY <2>4, <2>5, <2>6, UpdateRS
  <2> QED
    BY <2>1, <2>7, Zenon
<1>6. CASE Open(p.r) /\ p.r.writable /\ len > 0 /\ SendFails(p.s)
  BY <1>6, AbortGood DEF SendData
<1>7. CASE ~(Open(p.r) /\ p.r.writable /\ len > 0)
  BY <1>7 DEF SendData
<1> QED
  BY <1>5, <1>6, <1>7

(* The FIN-only write follows an empty buffer and TCP's end. *)
LEMMA SendFinGood ==
  ASSUME NEW p, Good(p)
  PROVE  Good(SendFin(p)) /\ SendFin(p).k = p.k
<1> DEFINE r1 == [p.r EXCEPT !.writable = FALSE]
           s1 == [p.s EXCEPT !.wantW = TRUE]
           r2 == [p.r EXCEPT !.finSent = TRUE]
           s2 == [p.s EXCEPT !.finAcc = TRUE]
<1>1. CASE Open(p.r) /\ p.r.writable /\ FinOwed(p.r) /\ ~SendFails(p.s)
  <2>1. /\ r1 \in RelayRecords /\ s1 \in StreamRecords
        /\ r2 \in RelayRecords /\ s2 \in StreamRecords
    BY ZenonT(60), FlowParts DEF RelayRecords, StreamRecords
  <2>2. Parts(r1, s1, p.k)
    BY FlowParts DEF Good, Parts, RelayRecords, StreamRecords
  <2>3. Parts(r2, s2, p.k)
    BY <1>1, FlowParts DEF Good, Parts, RelayRecords, StreamRecords, FinOwed
  <2>4. \/ SendFin(p) = [p EXCEPT !.r = r1, !.s = s1]
        \/ SendFin(p) = [p EXCEPT !.r = r2, !.s = s2]
    BY <1>1 DEF SendFin
  <2> HIDE DEF r1, s1, r2, s2
  <2>5. /\ Good([p EXCEPT !.r = r1, !.s = s1])
        /\ [p EXCEPT !.r = r1, !.s = s1].k = p.k
    BY <2>1, <2>2, UpdateRS
  <2>6. /\ Good([p EXCEPT !.r = r2, !.s = s2])
        /\ [p EXCEPT !.r = r2, !.s = s2].k = p.k
    BY <2>1, <2>3, UpdateRS
  <2> QED
    BY <2>4, <2>5, <2>6, Zenon
<1>2. CASE Open(p.r) /\ p.r.writable /\ FinOwed(p.r) /\ SendFails(p.s)
  BY <1>2, AbortGood DEF SendFin
<1>3. CASE ~(Open(p.r) /\ p.r.writable /\ FinOwed(p.r))
  BY <1>3 DEF SendFin
<1> QED
  BY <1>1, <1>2, <1>3

LEMMA PumpToQuicGood ==
  ASSUME NEW p, Good(p)
  PROVE  Good(PumpToQuic(p)) /\ PumpToQuic(p).k = p.k
BY SendDataGood, SendFinGood DEF PumpToQuic

(* A read moves what arrived into the buffer, the FIN only with all of it. *)
LEMMA PumpToTcpGood ==
  ASSUME NEW p, Good(p)
  PROVE  Good(PumpToTcp(p)) /\ PumpToTcp(p).k = p.k
<1> DEFINE space == Space(RELAY_BUF, p.r.toTcp)
           n     == Least(space, p.s.arrived - p.s.got)
           fin   == p.s.peerFin /\ p.s.got + n = p.s.arrived
           seen  == p.r.finSeen \/ fin
           latch == ~fin /\ n = space
           read  == p.s.finRead \/ fin
           b     == Commit(p.r.toTcp, n)
           r2 == [p.r EXCEPT !.toTcp = b, !.finSeen = seen, !.readable = latch]
           s2 == [p.s EXCEPT !.got = p.s.got + n, !.finRead = read]
<1>1. p.r.toTcp \in Ring(RELAY_BUF) /\ RELAY_BUF \in Nat
  BY RelayAssumption, FlowParts DEF RelayRecords
<1>2. space \in Nat /\ p.s.arrived - p.s.got \in Nat
  BY <1>1, RingLen, FlowParts DEF Good, Parts, StreamRecords
<1>3. n \in Nat /\ n <= space /\ n <= p.s.arrived - p.s.got
  BY <1>2 DEF Least
<1>4. /\ b \in Ring(RELAY_BUF) /\ RLen(b) = RLen(p.r.toTcp) + n
      /\ RLen(p.r.toTcp) \in Nat
  BY <1>1, <1>2, <1>3, CommitRing, RingLen
<1>5. CASE Open(p.r) /\ p.r.readable /\ space > 0 /\ ~p.r.gone /\ ~RecvFails(p.s)
  <2>a. PumpToTcp(p) = Received(p, n)
    BY <1>5 DEF PumpToTcp
  <2>b. Received(p, n) = [p EXCEPT !.r = r2, !.s = s2]
    BY DEF Received
  <2>1. PumpToTcp(p) = [p EXCEPT !.r = r2, !.s = s2]
    BY <2>a, <2>b
  <2>c. p.s.got + n \in Nat
    BY <1>3, FlowParts DEF StreamRecords
  <2>2. p.r.finSeen = FALSE /\ p.r.writeShut = FALSE
    BY <1>5, FlowParts DEF Good, Parts, RelayRecords
  <2>3. /\ fin \in BOOLEAN /\ latch \in BOOLEAN /\ read \in BOOLEAN
        /\ seen = fin
        /\ fin => ~latch /\ p.s.peerFin /\ p.s.got + n = p.s.arrived
    BY <2>2
  <2> HIDE DEF b, n, space, fin, seen, latch, read
  <2>4. r2 \in RelayRecords
    BY <1>4, <2>3, FlowParts DEF RelayRecords
  <2>5. s2 \in StreamRecords
    BY <2>c, <2>3, FlowParts DEF StreamRecords
  <2>6. Parts(r2, s2, p.k)
    BY <2>2, <2>3, <1>2, <1>3, <1>4, FlowParts
    DEF Good, RelayRecords, StreamRecords, TcpRecords, Parts
  <2> HIDE DEF r2, s2
  <2>7. /\ Good([p EXCEPT !.r = r2, !.s = s2])
        /\ [p EXCEPT !.r = r2, !.s = s2].k = p.k
    BY <2>4, <2>5, <2>6, UpdateRS
  <2> QED
    BY <2>1, <2>7, Zenon
<1>6. CASE Open(p.r) /\ p.r.readable /\ space > 0 /\ ~p.r.gone /\ RecvFails(p.s)
  BY <1>6, AbortGood DEF PumpToTcp
<1>7. CASE ~(Open(p.r) /\ p.r.readable /\ space > 0 /\ ~p.r.gone)
  BY <1>7 DEF PumpToTcp
<1> QED
  BY <1>5, <1>6, <1>7

LEMMA PumpAllGood ==
  ASSUME NEW p, Good(p)
  PROVE  Good(PumpAll(p)) /\ PumpAll(p).k = p.k
<1>1. Good(ResetProbe(p)) /\ ResetProbe(p).k = p.k
  BY ResetProbeGood
<1>2. Good(PumpToQuic(ResetProbe(p))) /\ PumpToQuic(ResetProbe(p)).k = p.k
  BY <1>1, PumpToQuicGood
<1>3. /\ Good(PumpToTcp(PumpToQuic(ResetProbe(p))))
      /\ PumpToTcp(PumpToQuic(ResetProbe(p))).k = p.k
  BY <1>2, PumpToTcpGood
<1> QED
  BY <1>3, CheckCleanGood DEF PumpAll

(* A readable only moves latches. *)
LEMMA OnReadableGood ==
  ASSUME NEW p, Good(p)
  PROVE  Good(OnReadable(p)) /\ OnReadable(p).k = p.k
<1> DEFINE latch == ~p.r.finSeen
           probe == p.r.probe \/ p.r.finSeen \/ Space(RELAY_BUF, p.r.toTcp) = 0
           r2 == [p.r EXCEPT !.readable = latch, !.probe = probe]
<1>1. CASE ~p.r.gone
  <2>1. OnReadable(p) = [p EXCEPT !.r = r2]
    BY <1>1 DEF OnReadable
  <2>2. latch \in BOOLEAN /\ probe \in BOOLEAN /\ (p.r.finSeen => ~latch)
    OBVIOUS
  <2> HIDE DEF latch, probe
  <2>3. r2 \in RelayRecords
    BY <2>2, FlowParts DEF RelayRecords
  <2>4. Parts(r2, p.s, p.k)
    BY <2>2, FlowParts DEF Good, Parts, RelayRecords
  <2> HIDE DEF r2
  <2>5. Good([p EXCEPT !.r = r2]) /\ [p EXCEPT !.r = r2].k = p.k
    BY <2>3, <2>4, UpdateR
  <2> QED
    BY <2>1, <2>5, Zenon
<1> QED
  BY <1>1 DEF OnReadable

(* A StreamClosed after both FINs leaves what is buffered for TCP. *)
LEMMA OnStreamClosedGood ==
  ASSUME NEW p, Good(p)
  PROVE  Good(OnStreamClosed(p)) /\ OnStreamClosed(p).k = p.k
<1> DEFINE r2 == [p.r EXCEPT !.gone = TRUE, !.readable = FALSE, !.probe = FALSE]
<1>1. r2 \in RelayRecords /\ Parts(r2, p.s, p.k)
  BY FlowParts DEF Good, Parts, RelayRecords
<1>2. Good([p EXCEPT !.r = r2]) /\ [p EXCEPT !.r = r2].k = p.k
  BY <1>1, UpdateR
<1>3. Good(CheckClean([p EXCEPT !.r = r2])) /\ CheckClean([p EXCEPT !.r = r2]).k = p.k
  BY <1>2, CheckCleanGood
<1> QED
  BY <1>3, AbortGood DEF OnStreamClosed

LEMMA OnStreamEventGood ==
  ASSUME NEW p, Good(p), NEW e \in {"R", "W", "C", "CC"}
  PROVE  Good(OnStreamEvent(p, e)) /\ OnStreamEvent(p, e).k = p.k
<1> DEFINE r2 == [p.r EXCEPT !.writable = TRUE]
<1>1. r2 \in RelayRecords /\ Parts(r2, p.s, p.k)
  BY FlowParts DEF Good, Parts, RelayRecords
<1>2. Good(OnWritable(p)) /\ OnWritable(p).k = p.k
  BY <1>1, UpdateR DEF OnWritable
<1> QED
  BY <1>2, OnReadableGood, OnStreamClosedGood, AbortGood DEF OnStreamEvent

----------------------------------------------------------------------------
(* settle_relay. *)

(* SHUT_WR follows the last byte of a finished stream. *)
LEMMA IssueShutdownGood ==
  ASSUME NEW p, Good(p)
  PROVE  Good(IssueShutdown(p)) /\ IssueShutdown(p).k.fate = p.k.fate
<1> DEFINE r2 == [p.r EXCEPT !.writeShut = TRUE]
           k2 == [p.k EXCEPT !.shut = TRUE]
           q  == [p EXCEPT !.r = r2, !.k = k2]
<1>1. CASE Open(p.r) /\ ShutWrOwed(p.r)
  <2>1. IssueShutdown(p) = CheckClean(q)
    BY <1>1 DEF IssueShutdown
  <2>2. r2 \in RelayRecords /\ k2 \in TcpRecords /\ k2.fate = p.k.fate
    BY FlowParts DEF RelayRecords, TcpRecords
  <2>3. Parts(r2, p.s, k2)
    BY <1>1, FlowParts DEF Good, Parts, RelayRecords, TcpRecords, ShutWrOwed, Open
  <2> HIDE DEF r2, k2
  <2>4. Good(q) /\ q.k = k2
    BY <2>2, <2>3, UpdateRK
  <2>5. Good(CheckClean(q)) /\ CheckClean(q).k = k2
    BY <2>4, CheckCleanGood
  <2> HIDE DEF q
  <2> QED
    BY <2>1, <2>2, <2>5
<1> QED
  BY <1>1 DEF IssueShutdown

(* Retiring an ended relay only settles the fate of stream and socket. *)
LEMMA RetireSettled ==
  ASSUME NEW p, Good(p), p.k.fate = "open"
  PROVE  Settled(Retire(p))
<1> DEFINE s2 == IF p.r.state = "Abort" THEN StreamReset(p.s) ELSE p.s
           f2 == IF p.r.state = "Abort" THEN "abort" ELSE "close"
           k2 == [p.k EXCEPT !.fate = f2]
           d2 == p.dead \/ ~p.r.gone
           q  == [p EXCEPT !.dead = d2, !.s = s2, !.k = k2]
<1>1. CASE Open(p.r)
  BY <1>1 DEF Retire, Settled, Open, Fate
<1>2. CASE ~Open(p.r)
  <2>1. Retire(p) = q
    BY <1>2 DEF Retire
  <2>2. s2 \in StreamRecords /\ Parts(p.r, s2, p.k)
    BY FlowParts DEF Good, Parts, StreamRecords, StreamReset
  <2>3. d2 \in BOOLEAN /\ f2 \in {"abort", "close"}
        /\ p.r.state \in {"Open", "Clean", "Abort"}
    BY FlowParts DEF RelayRecords
  <2>4. Fate(p.r, k2)
    BY <1>2, <2>3, FlowParts DEF Fate, Open, TcpRecords
  <2> HIDE DEF s2, d2, f2
  <2>5. k2 \in TcpRecords /\ Parts(p.r, s2, k2)
    BY <2>2, <2>3, FlowParts DEF Parts, TcpRecords
  <2> HIDE DEF k2
  <2>6. q \in Flows /\ q.r = p.r /\ q.s = s2 /\ q.k = k2
    BY <2>2, <2>3, <2>5 DEF Good, Flows
  <2> HIDE DEF q
  <2> QED
    BY <2>1, <2>4, <2>5, <2>6 DEF Settled, Good
<1> QED
  BY <1>1, <1>2

LEMMA SettleSettled ==
  ASSUME NEW p, Good(p), p.k.fate = "open"
  PROVE  Settled(Settle(p))
BY IssueShutdownGood, RetireSettled DEF Settle, Owned

----------------------------------------------------------------------------
(* What the steps of a handler leave of the flow's promises: the sources   *)
(* are the peers' alone, and nothing a sink was given is taken back.       *)

Carries(p, q) ==
  /\ q.k.sent = p.k.sent
  /\ q.k.eof <=> p.k.eof
  /\ q.s.arrived = p.s.arrived
  /\ q.s.peerFin <=> p.s.peerFin
  /\ q.s.cond = p.s.cond
  /\ p.s.acc <= q.s.acc
  /\ p.k.out <= q.k.out
  /\ p.s.finAcc => q.s.finAcc
  /\ p.k.shut => q.k.shut

(* A step before settle_relay also leaves the tables alone. *)
Keeps(p, q) ==
  /\ Carries(p, q)
  /\ q.k.fate = p.k.fate
  /\ q.dead <=> p.dead
  /\ q.r.gone <=> p.r.gone

Numbers(p) == p.s.acc \in Nat /\ p.k.out \in Nat

LEMMA GoodNumbers == ASSUME NEW p, Good(p) PROVE Numbers(p)
BY FlowParts DEF Numbers, StreamRecords, TcpRecords

LEMMA KeepsSelf == ASSUME NEW p, Good(p) PROVE Keeps(p, p)
BY GoodNumbers DEF Keeps, Carries, Numbers

LEMMA CarriesThen ==
  ASSUME NEW p, NEW q, NEW t, Numbers(p), Numbers(q), Numbers(t), Carries(p, q), Carries(q, t)
  PROVE  Carries(p, t)
BY DEF Carries, Numbers

LEMMA KeepsThen ==
  ASSUME NEW p, NEW q, NEW t, Good(p), Good(q), Good(t), Keeps(p, q), Keeps(q, t)
  PROVE  Keeps(p, t)
BY CarriesThen, GoodNumbers DEF Keeps

(* A step that only changes the Relay struct. *)
LEMMA RelayOnly ==
  ASSUME NEW p, Good(p), NEW r2, r2.gone <=> p.r.gone
  PROVE  Keeps(p, [p EXCEPT !.r = r2])
<1> DEFINE q == [p EXCEPT !.r = r2]
<1>1. q.r = r2 /\ q.s = p.s /\ q.k = p.k /\ q.dead = p.dead
  BY DEF Good, Flows
<1> HIDE DEF q
<1> QED
  BY <1>1, GoodNumbers DEF Keeps, Carries, Numbers

LEMMA AbortKeeps ==
  ASSUME NEW p, Good(p)
  PROVE  Keeps(p, AbortRelay(p))
<1> DEFINE r2 == [p.r EXCEPT !.state = "Abort"]
<1>1. r2.gone <=> p.r.gone
  BY FlowParts DEF RelayRecords
<1> HIDE DEF r2
<1>2. Keeps(p, [p EXCEPT !.r = r2])
  BY <1>1, RelayOnly
<1> QED
  BY <1>2, KeepsSelf DEF AbortRelay, r2

LEMMA CheckCleanKeeps ==
  ASSUME NEW p, Good(p)
  PROVE  Keeps(p, CheckClean(p))
<1> DEFINE r2 == [p.r EXCEPT !.state = "Clean"]
<1>1. r2.gone <=> p.r.gone
  BY FlowParts DEF RelayRecords
<1> HIDE DEF r2
<1>2. Keeps(p, [p EXCEPT !.r = r2])
  BY <1>1, RelayOnly
<1> QED
  BY <1>2, KeepsSelf DEF CheckClean, r2

(* A step that changes the Relay struct and the stream. *)
SameGone(r1, r2) == r2.gone <=> r1.gone

StreamGrows(s1, s2) ==
  /\ s2.arrived = s1.arrived
  /\ s2.peerFin <=> s1.peerFin
  /\ s2.cond = s1.cond
  /\ s1.acc <= s2.acc
  /\ s1.finAcc => s2.finAcc

LEMMA RelayAndStream ==
  ASSUME NEW p, Good(p), NEW r2, NEW s2, SameGone(p.r, r2), StreamGrows(p.s, s2)
  PROVE  Keeps(p, [p EXCEPT !.r = r2, !.s = s2])
<1> DEFINE q == [p EXCEPT !.r = r2, !.s = s2]
<1>1. q.r = r2 /\ q.s = s2 /\ q.k = p.k /\ q.dead = p.dead
  BY DEF Good, Flows
<1> HIDE DEF q
<1> QED
  BY <1>1, GoodNumbers DEF Keeps, Carries, Numbers, SameGone, StreamGrows

LEMMA ResetProbeKeeps ==
  ASSUME NEW p, Good(p)
  PROVE  Keeps(p, ResetProbe(p))
<1> DEFINE r1 == [p.r EXCEPT !.probe = FALSE]
           r2 == [p.r EXCEPT !.probe = FALSE, !.finSeen = TRUE, !.readable = FALSE]
           s2 == [p.s EXCEPT !.finRead = TRUE]
           q  == [p EXCEPT !.r = r1]
<1>1. /\ r1.gone <=> p.r.gone
      /\ SameGone(p.r, r2)
      /\ r1 \in RelayRecords /\ Parts(r1, p.s, p.k)
  BY FlowParts DEF RelayRecords, Good, Parts, SameGone
<1>2. StreamGrows(p.s, s2)
  BY FlowParts DEF StreamRecords, StreamGrows
<1>3. \/ ResetProbe(p) = p \/ ResetProbe(p) = q \/ ResetProbe(p) = AbortRelay(q)
      \/ ResetProbe(p) = [p EXCEPT !.r = r2, !.s = s2]
  BY DEF ResetProbe
<1> HIDE DEF r1, r2, s2
<1>4. Good(q) /\ Keeps(p, q)
  BY <1>1, RelayOnly, UpdateR
<1> HIDE DEF q
<1>5. Good(AbortRelay(q)) /\ Keeps(p, AbortRelay(q))
  BY <1>4, AbortKeeps, AbortGood, KeepsThen
<1>6. Keeps(p, [p EXCEPT !.r = r2, !.s = s2])
  BY <1>1, <1>2, RelayAndStream
<1> QED
  BY <1>3, <1>4, <1>5, <1>6, KeepsSelf

LEMMA SendDataKeeps ==
  ASSUME NEW p, Good(p)
  PROVE  Keeps(p, SendData(p))
<1> DEFINE len  == RLen(p.r.toQuic)
           n    == Least(p.s.room, len)
           full == n = len
           fin  == p.r.readEof /\ full
           r2 == [p.r EXCEPT !.toQuic = Consume(p.r.toQuic, n), !.writable = full,
                             !.finSent = p.r.finSent \/ fin]
           s2 == [p.s EXCEPT !.room = p.s.room - n, !.acc = p.s.acc + n,
                             !.finAcc = p.s.finAcc \/ fin, !.wantW = ~full]
<1>1. p.r.toQuic \in Ring(RELAY_BUF) /\ RELAY_BUF \in Nat
  BY RelayAssumption, FlowParts DEF RelayRecords
<1>2. len \in Nat /\ p.s.room \in Nat
  BY <1>1, RingLen, FlowParts DEF StreamRecords
<1>3. n \in Nat
  BY <1>2 DEF Least
<1>4. SendData(p) = p \/ SendData(p) = AbortRelay(p) \/ SendData(p) = [p EXCEPT !.r = r2, !.s = s2]
  BY DEF SendData, Accepted
<1> HIDE DEF n, full, fin
<1>5. SameGone(p.r, r2)
  BY FlowParts DEF RelayRecords, SameGone
<1>6. StreamGrows(p.s, s2)
  BY <1>3, FlowParts DEF StreamRecords, StreamGrows
<1> HIDE DEF r2, s2
<1>7. Keeps(p, [p EXCEPT !.r = r2, !.s = s2])
  BY <1>5, <1>6, RelayAndStream
<1> QED
  BY <1>4, <1>7, AbortKeeps, KeepsSelf

LEMMA SendFinKeeps ==
  ASSUME NEW p, Good(p)
  PROVE  Keeps(p, SendFin(p))
<1> DEFINE r1 == [p.r EXCEPT !.writable = FALSE]
           s1 == [p.s EXCEPT !.wantW = TRUE]
           r2 == [p.r EXCEPT !.finSent = TRUE]
           s2 == [p.s EXCEPT !.finAcc = TRUE]
<1>1. \/ SendFin(p) = p \/ SendFin(p) = AbortRelay(p)
      \/ SendFin(p) = [p EXCEPT !.r = r1, !.s = s1] \/ SendFin(p) = [p EXCEPT !.r = r2, !.s = s2]
  BY DEF SendFin
<1>2. /\ SameGone(p.r, r1) /\ SameGone(p.r, r2)
      /\ StreamGrows(p.s, s1) /\ StreamGrows(p.s, s2)
  BY FlowParts DEF StreamRecords, RelayRecords, SameGone, StreamGrows
<1> HIDE DEF r1, s1, r2, s2
<1>3. Keeps(p, [p EXCEPT !.r = r1, !.s = s1]) /\ Keeps(p, [p EXCEPT !.r = r2, !.s = s2])
  BY <1>2, RelayAndStream
<1> QED
  BY <1>1, <1>3, AbortKeeps, KeepsSelf

LEMMA PumpToQuicKeeps ==
  ASSUME NEW p, Good(p)
  PROVE  Keeps(p, PumpToQuic(p))
<1>1. Good(SendData(p)) /\ Good(SendFin(SendData(p)))
  BY SendDataGood, SendFinGood
<1> QED
  BY <1>1, SendDataKeeps, SendFinKeeps, KeepsThen DEF PumpToQuic

LEMMA PumpToTcpKeeps ==
  ASSUME NEW p, Good(p)
  PROVE  Keeps(p, PumpToTcp(p))
<1> DEFINE n   == Least(Space(RELAY_BUF, p.r.toTcp), p.s.arrived - p.s.got)
           fin == p.s.peerFin /\ p.s.got + n = p.s.arrived
           r2 == [p.r EXCEPT !.toTcp = Commit(p.r.toTcp, n), !.finSeen = p.r.finSeen \/ fin,
                             !.readable = ~fin /\ n = Space(RELAY_BUF, p.r.toTcp)]
           s2 == [p.s EXCEPT !.got = p.s.got + n, !.finRead = p.s.finRead \/ fin]
<1>1. \/ PumpToTcp(p) = p \/ PumpToTcp(p) = AbortRelay(p)
      \/ PumpToTcp(p) = [p EXCEPT !.r = r2, !.s = s2]
  BY DEF PumpToTcp, Received
<1> HIDE DEF n, fin
<1>2. SameGone(p.r, r2) /\ StreamGrows(p.s, s2)
  BY FlowParts DEF StreamRecords, RelayRecords, SameGone, StreamGrows
<1> HIDE DEF r2, s2
<1>3. Keeps(p, [p EXCEPT !.r = r2, !.s = s2])
  BY <1>2, RelayAndStream
<1> QED
  BY <1>1, <1>3, AbortKeeps, KeepsSelf

LEMMA PumpAllKeeps ==
  ASSUME NEW p, Good(p)
  PROVE  Keeps(p, PumpAll(p))
<1> DEFINE q1 == ResetProbe(p)
           q2 == PumpToQuic(q1)
           q3 == PumpToTcp(q2)
<1>1. Good(q1) /\ Keeps(p, q1)
  BY ResetProbeGood, ResetProbeKeeps
<1>e. PumpAll(p) = CheckClean(q3)
  BY DEF PumpAll
<1> HIDE DEF q1
<1>2. Good(q2) /\ Keeps(p, q2)
  BY <1>1, PumpToQuicGood, PumpToQuicKeeps, KeepsThen
<1> HIDE DEF q2
<1>3. Good(q3) /\ Keeps(p, q3)
  BY <1>2, PumpToTcpGood, PumpToTcpKeeps, KeepsThen
<1> HIDE DEF q3
<1>4. Good(CheckClean(q3)) /\ Keeps(p, CheckClean(q3))
  BY <1>3, CheckCleanGood, CheckCleanKeeps, KeepsThen
<1> QED
  BY <1>4, <1>e

(* A step that changes the Relay struct and the socket. *)
TcpGrows(k1, k2) ==
  /\ k2.sent = k1.sent
  /\ k2.eof <=> k1.eof
  /\ k2.fate = k1.fate
  /\ k1.out <= k2.out
  /\ k1.shut => k2.shut

LEMMA RelayAndTcp ==
  ASSUME NEW p, Good(p), NEW r2, NEW k2, SameGone(p.r, r2), TcpGrows(p.k, k2)
  PROVE  Keeps(p, [p EXCEPT !.r = r2, !.k = k2])
<1> DEFINE q == [p EXCEPT !.r = r2, !.k = k2]
<1>1. q.r = r2 /\ q.s = p.s /\ q.k = k2 /\ q.dead = p.dead
  BY DEF Good, Flows
<1> HIDE DEF q
<1> QED
  BY <1>1, GoodNumbers DEF Keeps, Carries, Numbers, SameGone, TcpGrows

LEMMA OnReadableKeeps ==
  ASSUME NEW p, Good(p)
  PROVE  Keeps(p, OnReadable(p))
<1> DEFINE r2 == [p.r EXCEPT !.readable = ~p.r.finSeen,
                             !.probe = p.r.probe \/ p.r.finSeen \/ Space(RELAY_BUF, p.r.toTcp) = 0]
<1>1. OnReadable(p) = p \/ OnReadable(p) = [p EXCEPT !.r = r2]
  BY DEF OnReadable
<1>2. r2.gone <=> p.r.gone
  BY FlowParts DEF RelayRecords
<1> HIDE DEF r2
<1> QED
  BY <1>1, <1>2, RelayOnly, KeepsSelf

LEMMA OnWritableKeeps ==
  ASSUME NEW p, Good(p)
  PROVE  Keeps(p, OnWritable(p))
<1> DEFINE r2 == [p.r EXCEPT !.writable = TRUE]
<1>1. r2.gone <=> p.r.gone
  BY FlowParts DEF RelayRecords
<1>2. OnWritable(p) = [p EXCEPT !.r = r2]
  BY DEF OnWritable
<1> HIDE DEF r2
<1> QED
  BY <1>1, <1>2, RelayOnly

(* Only StreamClosed marks the stream gone; a relay it finds unfinished is *)
(* aborted.                                                                *)
LEMMA OnStreamClosedMarks ==
  ASSUME NEW p, Good(p), Open(p.r)
  PROVE  /\ Carries(p, OnStreamClosed(p))
         /\ OnStreamClosed(p).dead <=> p.dead
         /\ OnStreamClosed(p).r.gone \/ OnStreamClosed(p).r.state = "Abort"
<1> DEFINE r2 == [p.r EXCEPT !.gone = TRUE, !.readable = FALSE, !.probe = FALSE]
           q  == [p EXCEPT !.r = r2]
<1>1. r2 \in RelayRecords /\ Parts(r2, p.s, p.k) /\ r2.gone
  BY FlowParts DEF Good, Parts, RelayRecords
<1>2. CASE p.r.finSeen /\ p.r.finSent
  <2>1. OnStreamClosed(p) = CheckClean(q)
    BY <1>2 DEF OnStreamClosed
  <2> HIDE DEF r2
  <2>2. Good(q)
    BY <1>1, UpdateR
  <2>3. q.r = r2 /\ q.s = p.s /\ q.k = p.k /\ q.dead = p.dead
    BY DEF Good, Flows
  <2> HIDE DEF q
  <2>4. Carries(p, q)
    BY <2>3, GoodNumbers DEF Carries, Numbers
  <2>5. Good(CheckClean(q)) /\ Keeps(q, CheckClean(q))
    BY <2>2, CheckCleanGood, CheckCleanKeeps
  <2>6. Carries(p, CheckClean(q))
    BY <2>2, <2>4, <2>5, GoodNumbers, CarriesThen DEF Keeps
  <2> QED
    BY <2>1, <2>3, <2>5, <2>6, <1>1 DEF Keeps
<1>3. CASE ~(p.r.finSeen /\ p.r.finSent)
  <2>1. OnStreamClosed(p) = [p EXCEPT !.r.state = "Abort"]
    BY <1>3 DEF OnStreamClosed, AbortRelay
  <2>2. OnStreamClosed(p).r.state = "Abort"
    BY <2>1, FlowParts DEF Good, Flows, RelayRecords
  <2>3. OnStreamClosed(p) = AbortRelay(p)
    BY <1>3 DEF OnStreamClosed
  <2> QED
    BY <2>2, <2>3, AbortKeeps DEF Keeps
<1> QED
  BY <1>2, <1>3

LEMMA IssueShutdownKeeps ==
  ASSUME NEW p, Good(p)
  PROVE  Keeps(p, IssueShutdown(p))
<1> DEFINE r2 == [p.r EXCEPT !.writeShut = TRUE]
           k2 == [p.k EXCEPT !.shut = TRUE]
           q  == [p EXCEPT !.r = r2, !.k = k2]
<1>1. CASE Open(p.r) /\ ShutWrOwed(p.r)
  <2>1. IssueShutdown(p) = CheckClean(q)
    BY <1>1 DEF IssueShutdown
  <2>2. r2 \in RelayRecords /\ k2 \in TcpRecords /\ SameGone(p.r, r2)
    BY FlowParts DEF RelayRecords, TcpRecords, SameGone
  <2>a. TcpGrows(p.k, k2)
    BY FlowParts DEF TcpRecords, TcpGrows
  <2>3. Parts(r2, p.s, k2)
    BY <1>1, FlowParts DEF Good, Parts, RelayRecords, TcpRecords, ShutWrOwed, Open
  <2> HIDE DEF r2, k2
  <2>4. Good(q) /\ Keeps(p, q)
    BY <2>2, <2>a, <2>3, UpdateRK, RelayAndTcp
  <2> HIDE DEF q
  <2>5. Good(CheckClean(q)) /\ Keeps(p, CheckClean(q))
    BY <2>4, CheckCleanGood, CheckCleanKeeps, KeepsThen
  <2> QED
    BY <2>1, <2>5
<1> QED
  BY <1>1, KeepsSelf DEF IssueShutdown

(* What a handler leaves behind: d is the dead entry before settle_relay.  *)
Handled(p, d, q) ==
  /\ Settled(q)
  /\ Carries(p, q)
  /\ q.k.fate = "open" => (q.dead <=> d)
  /\ q.k.fate # "open" => (q.dead <=> (d \/ ~q.r.gone))

LEMMA RetireHandles ==
  ASSUME NEW p, Good(p), p.k.fate = "open"
  PROVE  Handled(p, p.dead, Retire(p)) /\ (Retire(p).r = p.r)
<1> DEFINE s2 == IF p.r.state = "Abort" THEN StreamReset(p.s) ELSE p.s
           f2 == IF p.r.state = "Abort" THEN "abort" ELSE "close"
           k2 == [p.k EXCEPT !.fate = f2]
           d2 == p.dead \/ ~p.r.gone
           q  == [p EXCEPT !.dead = d2, !.s = s2, !.k = k2]
<1>0. Settled(Retire(p))
  BY RetireSettled
<1>1. CASE Open(p.r)
  <2>1. Retire(p) = p
    BY <1>1 DEF Retire
  <2> QED
    BY <1>0, <2>1, KeepsSelf DEF Handled, Keeps
<1>2. CASE ~Open(p.r)
  <2>1. Retire(p) = q
    BY <1>2 DEF Retire
  <2>2. StreamGrows(p.s, s2)
    BY FlowParts DEF StreamRecords, StreamReset, StreamGrows
  <2>3. /\ k2.sent = p.k.sent /\ k2.out = p.k.out /\ k2.fate # "open"
        /\ k2.eof <=> p.k.eof
        /\ k2.shut <=> p.k.shut
    BY FlowParts DEF TcpRecords
  <2> HIDE DEF s2, k2
  <2>4. q.r = p.r /\ q.s = s2 /\ q.k = k2 /\ (q.dead <=> d2)
    BY DEF Good, Flows
  <2> HIDE DEF q
  <2>5. Carries(p, q)
    BY <2>2, <2>3, <2>4, GoodNumbers DEF Carries, StreamGrows, Numbers
  <2> QED
    BY <1>0, <2>1, <2>3, <2>4, <2>5 DEF Handled
<1> QED
  BY <1>1, <1>2

LEMMA SettleHandles ==
  ASSUME NEW p, Good(p), p.k.fate = "open"
  PROVE  Handled(p, p.dead, Settle(p)) /\ (Settle(p).r.gone <=> p.r.gone)
<1> DEFINE q == IssueShutdown(p)
           t == Retire(q)
<1>1. Settle(p) = t
  BY DEF Settle, Owned
<1>2. Good(q) /\ q.k.fate = "open" /\ Keeps(p, q)
  BY IssueShutdownGood, IssueShutdownKeeps
<1> HIDE DEF q
<1>3. Handled(q, q.dead, t) /\ t.r = q.r
  BY <1>2, RetireHandles
<1> HIDE DEF t
<1>4. Carries(p, t)
  BY <1>2, <1>3, GoodNumbers, CarriesThen DEF Handled, Keeps, Settled
<1> QED
  BY <1>1, <1>2, <1>3, <1>4 DEF Handled, Keeps

LEMMA SettleEnds ==
  ASSUME NEW p, Good(p), p.k.fate = "open", p.r.state = "Abort"
  PROVE  Settle(p).k.fate = "abort"
<1>1. Settle(p) = Retire(p)
  BY DEF Settle, Owned, IssueShutdown, Open
<1>2. Settled(Retire(p)) /\ Retire(p).r = p.r
  BY RetireHandles DEF Handled
<1> QED
  BY <1>1, <1>2 DEF Settled, Fate

(* A handler is a step that keeps the tables, and then settle_relay. *)
LEMMA HandlerHandles ==
  ASSUME NEW p, NEW q, Good(p), p.k.fate = "open", Good(q), Keeps(p, q)
  PROVE  Handled(p, p.dead, Settle(q)) /\ (Settle(q).r.gone <=> p.r.gone)
<1> DEFINE t == Settle(q)
<1>1. Handled(q, q.dead, t) /\ (t.r.gone <=> q.r.gone)
  BY SettleHandles DEF Keeps
<1> HIDE DEF t
<1>2. Carries(p, t)
  BY <1>1, GoodNumbers, CarriesThen DEF Handled, Keeps, Settled
<1> QED
  BY <1>1, <1>2 DEF Handled, Keeps, t

----------------------------------------------------------------------------
(* The inductive invariant. *)

IInv ==
  /\ Settled(Flow)
  /\ evq \in Seq({"R", "W", "C", "CC"})
  /\ driving \in BOOLEAN
  /\ closed \in BOOLEAN

LEMMA FlowFields ==
  Flow.r = relay /\ Flow.s = stream /\ Flow.k = tcp /\ Flow.dead = dead
BY DEF Flow

(* A handler that leaves its flow settled re-establishes Settled(Flow). *)
LEMMA BecomeSettled ==
  ASSUME NEW q, Settled(q), Become(q)
  PROVE  Settled(Flow)' /\ Flow' = q
<1>1. q \in Flows
  BY DEF Settled, Good
<1>2. q = [r |-> q.r, s |-> q.s, k |-> q.k, dead |-> q.dead]
  BY <1>1 DEF Flows
<1>3. Flow' = q
  BY <1>2 DEF Flow, Become
<1> QED
  BY <1>3 DEF Settled, Good, Fate, Parts

(* The step of a handler that ran with the dead entry d. *)
Step(d) == Handled(Flow, d, Flow') /\ (relay'.gone <=> relay.gone)

LEMMA BecomeStep ==
  ASSUME NEW q, Handled(Flow, dead, q), q.r.gone <=> Flow.r.gone, Become(q)
  PROVE  Settled(Flow)' /\ Step(dead)
<1>1. Settled(Flow)' /\ Flow' = q
  BY BecomeSettled DEF Handled
<1>2. relay' = q.r /\ relay = Flow.r
  BY FlowFields DEF Become
<1> QED
  BY <1>1, <1>2 DEF Step

(* The step of a handler that keeps the tables until settle_relay. *)
LEMMA HandlerStep ==
  ASSUME IInv, NEW q, Flow.k.fate = "open", Good(q), Keeps(Flow, q), Become(Settle(q))
  PROVE  Settled(Flow)' /\ Step(dead)
<1>1. Good(Flow) /\ Flow.dead = dead
  BY FlowFields DEF IInv, Settled
<1>2. Handled(Flow, dead, Settle(q)) /\ (Settle(q).r.gone <=> Flow.r.gone)
  BY <1>1, HandlerHandles
<1> QED
  BY <1>2, BecomeStep

(* The same for an action that changes one part. *)
LEMMA PartsSettled ==
  ASSUME relay' \in RelayRecords, stream' \in StreamRecords, tcp' \in TcpRecords,
         dead' \in BOOLEAN, Parts(relay', stream', tcp'), Fate(relay', tcp')
  PROVE  Settled(Flow)'
<1>1. Flow' = [r |-> relay', s |-> stream', k |-> tcp', dead |-> dead']
  BY DEF Flow
<1>2. Flow' \in Flows
  BY <1>1 DEF Flows
<1> QED
  BY <1>1, <1>2 DEF Settled, Good, Fate, Parts

LEMMA Unfold ==
  ASSUME IInv
  PROVE  /\ relay \in RelayRecords /\ stream \in StreamRecords /\ tcp \in TcpRecords
         /\ dead \in BOOLEAN /\ Good(Flow) /\ Parts(relay, stream, tcp)
         /\ Fate(relay, tcp)
         /\ tcp.fate = "open" => relay.state = "Open"
<1>1. Flow \in Flows /\ Parts(Flow.r, Flow.s, Flow.k) /\ Fate(Flow.r, Flow.k)
  BY DEF IInv, Settled, Good
<1>2. /\ relay \in RelayRecords /\ stream \in StreamRecords /\ tcp \in TcpRecords
      /\ dead \in BOOLEAN /\ Parts(relay, stream, tcp) /\ Fate(relay, tcp)
  BY <1>1, FlowFields DEF Flows
<1>3. relay.state \in {"Open", "Clean", "Abort"}
  BY <1>2 DEF RelayRecords
<1> QED
  BY <1>2, <1>3 DEF IInv, Settled, Fate

Events == {"R", "W", "C", "CC"}

LEMMA EventSeqs ==
  /\ <<>> \in Seq(Events) /\ <<"R">> \in Seq(Events)
  /\ <<"CC">> \in Seq(Events) /\ <<"C", "CC">> \in Seq(Events)
BY DEF Events

(* Relay::start begins with the counters of its prebuffers. *)
LEMMA InitIInv == Init => IInv
<1> SUFFICES ASSUME Init PROVE IInv
  OBVIOUS
<1>1. PICK pre \in 0..Least(RELAY_BUF, MaxUp), q \in 0..Least(RELAY_BUF, MaxDown),
           eof \in BOOLEAN, fin \in BOOLEAN, finFree \in BOOLEAN, room \in 0..RELAY_BUF :
        /\ relay = Start(pre, eof, q, fin)
        /\ stream = StreamAtStart(q, fin, room, finFree)
        /\ tcp = TcpAtStart(pre, eof)
  BY DEF Init
<1>2. pre \in Nat /\ q \in Nat /\ room \in Nat /\ pre <= RELAY_BUF /\ q <= RELAY_BUF
      /\ RELAY_BUF \in Nat
  BY RelayAssumption DEF Least
<1> DEFINE a == Commit(EmptyRing, pre)
           b == Commit(EmptyRing, q)
<1>3. EmptyRing \in Ring(RELAY_BUF) /\ RLen(EmptyRing) = 0
      /\ Space(RELAY_BUF, EmptyRing) = RELAY_BUF
  BY <1>2 DEF Ring, EmptyRing, RLen, Space
<1>4. a \in Ring(RELAY_BUF) /\ RLen(a) = pre /\ b \in Ring(RELAY_BUF) /\ RLen(b) = q
  BY <1>2, <1>3, CommitRing
<1> DEFINE unread == ~fin
<1>5. unread \in BOOLEAN /\ (fin => ~unread)
  OBVIOUS
<1>6. relay = [toQuic |-> a, toTcp |-> b, readable |-> unread, writable |-> TRUE,
               finSeen |-> fin, gone |-> FALSE, probe |-> FALSE, readEof |-> eof,
               writeShut |-> FALSE, finSent |-> FALSE, state |-> "Open"]
  BY <1>1 DEF Start
<1> HIDE DEF a, b, unread
<1>7. relay \in RelayRecords
  BY <1>4, <1>5, <1>6 DEF RelayRecords
<1>8. stream \in StreamRecords /\ tcp \in TcpRecords
  BY <1>1, <1>2 DEF StreamRecords, StreamAtStart, TcpRecords, TcpAtStart
<1>9. Parts(relay, stream, tcp) /\ Fate(relay, tcp)
  BY <1>1, <1>2, <1>4, <1>5, <1>6 DEF Parts, Fate, StreamAtStart, TcpAtStart
<1>10. Flow \in Flows /\ dead = FALSE
  BY <1>7, <1>8 DEF Init, Flow, Flows
<1>11. Settled(Flow)
  BY <1>9, <1>10, FlowFields DEF Settled, Good
<1>12. evq \in Seq({"R", "W", "C", "CC"})
  BY EventSeqs DEF Init, Events
<1> QED
  BY <1>11, <1>12 DEF IInv, Init

----------------------------------------------------------------------------
(* Every action keeps it: the driver's inputs. *)

LEMMA SendThenCheck ==
  ASSUME NEW p, NEW q, Good(p), Good(q), Keeps(p, q)
  PROVE  Good(CheckClean(PumpToQuic(q))) /\ Keeps(p, CheckClean(PumpToQuic(q)))
<1>1. Good(PumpToQuic(q)) /\ Keeps(p, PumpToQuic(q))
  BY PumpToQuicGood, PumpToQuicKeeps, KeepsThen
<1> QED
  BY <1>1, CheckCleanGood, CheckCleanKeeps, KeepsThen

LEMMA TcpRxIInv == IInv /\ TcpRx => Settled(Flow)' /\ Step(dead)
<1> SUFFICES ASSUME IInv, TcpRx PROVE Settled(Flow)' /\ Step(dead)
  OBVIOUS
<1>1. PICK n \in 1..Least(Space(RELAY_BUF, relay.toQuic), tcp.sent - tcp.taken) :
        Become(Settle(RxBytes(Flow, n)))
  BY DEF TcpRx
<1> DEFINE b  == Commit(relay.toQuic, n)
           r2 == [relay EXCEPT !.toQuic = b]
           k2 == [tcp EXCEPT !.taken = tcp.taken + n]
           q  == [Flow EXCEPT !.r = r2, !.k = k2]
<1>2. relay.toQuic \in Ring(RELAY_BUF) /\ RELAY_BUF \in Nat
  BY Unfold, RelayAssumption DEF RelayRecords
<1>3. /\ n \in Nat /\ n <= Space(RELAY_BUF, relay.toQuic) /\ n <= tcp.sent - tcp.taken
      /\ tcp.sent \in Nat /\ tcp.taken \in Nat
  BY <1>2, RingLen, Unfold DEF Least, TcpRecords, Parts
<1>4. b \in Ring(RELAY_BUF) /\ RLen(b) = RLen(relay.toQuic) + n /\ RLen(relay.toQuic) \in Nat
  BY <1>2, <1>3, CommitRing, RingLen
<1>5. relay.readEof = FALSE /\ tcp.fate = "open"
  BY Unfold DEF TcpRx, WantsRead, RelayRecords, Owned, Flow
<1>6. RxBytes(Flow, n) = CheckClean(PumpToQuic(q))
  BY FlowFields DEF RxBytes
<1> HIDE DEF b
<1>7. r2 \in RelayRecords /\ k2 \in TcpRecords /\ SameGone(relay, r2)
  BY <1>3, <1>4, <1>5, Unfold DEF RelayRecords, TcpRecords, SameGone
<1>b. TcpGrows(tcp, k2)
  BY <1>3, Unfold DEF TcpRecords, TcpGrows
<1>8. Parts(r2, stream, k2)
  BY <1>3, <1>4, <1>5, Unfold DEF Parts, RelayRecords, StreamRecords, TcpRecords
<1> HIDE DEF r2, k2
<1>a. Good(Flow) /\ Parts(r2, Flow.s, k2)
  BY <1>8, FlowFields, Unfold
<1>9. Good(q) /\ Keeps(Flow, q)
  BY <1>7, <1>a, <1>b, FlowFields, UpdateRK, RelayAndTcp
<1> HIDE DEF q
<1>10. Good(CheckClean(PumpToQuic(q))) /\ Keeps(Flow, CheckClean(PumpToQuic(q)))
  BY <1>9, <1>a, SendThenCheck
<1> QED
  BY <1>1, <1>5, <1>6, <1>10, FlowFields, HandlerStep

LEMMA TcpRxEofIInv == IInv /\ TcpRxEof => Settled(Flow)' /\ Step(dead)
<1> SUFFICES ASSUME IInv, TcpRxEof PROVE Settled(Flow)' /\ Step(dead)
  OBVIOUS
<1> DEFINE r2 == [relay EXCEPT !.readEof = TRUE]
           q  == [Flow EXCEPT !.r = r2]
<1>1. RxEof(Flow) = CheckClean(PumpToQuic(q))
  BY FlowFields DEF RxEof
<1>2. /\ r2 \in RelayRecords /\ Parts(r2, stream, tcp) /\ tcp.fate = "open"
      /\ r2.gone <=> relay.gone
  BY Unfold DEF TcpRxEof, RelayRecords, Parts, Owned, Flow
<1> HIDE DEF r2
<1>a. Good(Flow) /\ Parts(r2, Flow.s, Flow.k) /\ Flow.k = tcp
  BY <1>2, FlowFields, Unfold
<1>3. Good(q) /\ Keeps(Flow, q)
  BY <1>2, <1>a, FlowFields, UpdateR, RelayOnly
<1> HIDE DEF q
<1>4. Good(CheckClean(PumpToQuic(q))) /\ Keeps(Flow, CheckClean(PumpToQuic(q)))
  BY <1>3, <1>a, SendThenCheck
<1> QED
  BY <1>1, <1>2, <1>4, FlowFields, HandlerStep DEF TcpRxEof

LEMMA TcpTxIInv == IInv /\ TcpTx => Settled(Flow)' /\ Step(dead)
<1> SUFFICES ASSUME IInv, TcpTx PROVE Settled(Flow)' /\ Step(dead)
  OBVIOUS
<1>1. PICK n \in 1..RLen(relay.toTcp) : Become(Settle(TxBytes(Flow, n)))
  BY DEF TcpTx
<1> DEFINE b  == Consume(relay.toTcp, n)
           r2 == [relay EXCEPT !.toTcp = b]
           k2 == [tcp EXCEPT !.out = tcp.out + n]
           q  == [Flow EXCEPT !.r = r2, !.k = k2]
<1>2. relay.toTcp \in Ring(RELAY_BUF) /\ RELAY_BUF \in Nat
  BY Unfold, RelayAssumption DEF RelayRecords
<1>3. RLen(relay.toTcp) \in Nat /\ n \in Nat /\ n > 0 /\ n <= RLen(relay.toTcp)
      /\ ~IsEmpty(relay.toTcp)
  BY <1>2, RingLen
<1>4. b \in Ring(RELAY_BUF) /\ RLen(b) = RLen(relay.toTcp) - n
  BY <1>2, <1>3, ConsumeRing
<1>5. tcp.fate = "open" /\ relay.writeShut = FALSE
  BY <1>3, Unfold DEF TcpTx, RelayRecords, Owned, Flow, Parts
<1>6. TxBytes(Flow, n) = q
  BY FlowFields DEF TxBytes
<1> HIDE DEF b
<1>7. r2 \in RelayRecords /\ k2 \in TcpRecords /\ SameGone(relay, r2)
  BY <1>3, <1>4, <1>5, Unfold DEF RelayRecords, TcpRecords, SameGone
<1>b. TcpGrows(tcp, k2)
  BY <1>3, Unfold DEF TcpRecords, TcpGrows
<1>8. Parts(r2, stream, k2)
  BY <1>3, <1>4, <1>5, Unfold DEF Parts, RelayRecords, StreamRecords, TcpRecords
<1> HIDE DEF r2, k2
<1>a. Good(Flow) /\ Parts(r2, Flow.s, k2)
  BY <1>8, FlowFields, Unfold
<1>9. Good(q) /\ Keeps(Flow, q)
  BY <1>7, <1>a, <1>b, FlowFields, UpdateRK, RelayAndTcp
<1> HIDE DEF q
<1> QED
  BY <1>1, <1>5, <1>6, <1>9, FlowFields, HandlerStep

LEMMA TcpErrorIInv == IInv /\ TcpError => Settled(Flow)' /\ Step(dead)
<1> SUFFICES ASSUME IInv, TcpError PROVE Settled(Flow)' /\ Step(dead)
  OBVIOUS
<1>1. Flow.k.fate = "open" /\ Good(Flow)
  BY Unfold DEF TcpError, Owned
<1>2. Good(AbortRelay(Flow)) /\ Keeps(Flow, AbortRelay(Flow))
  BY <1>1, AbortGood, AbortKeeps
<1> QED
  BY <1>1, <1>2, HandlerStep DEF TcpError

----------------------------------------------------------------------------
(* A drive. *)

(* A level event. *)
LEMMA LevelStep ==
  ASSUME IInv, DispatchStream, Owned(Flow), Head(evq) # "C"
  PROVE  Settled(Flow)' /\ Step(dead)
<1>1. Head(evq) \in {"R", "W"}
  BY DEF IInv, DispatchStream
<1>2. Good(Flow) /\ Flow.k.fate = "open" /\ Open(Flow.r)
  BY Unfold, FlowFields DEF Owned, Open
<1> DEFINE q == OnStreamEvent(Flow, Head(evq))
<1>3. q = OnReadable(Flow) \/ q = OnWritable(Flow)
  BY <1>1, <1>2 DEF OnStreamEvent
<1>4. Good(q) /\ Become(Settle(q))
  BY <1>1, <1>2, OnStreamEventGood DEF DispatchStream
<1> HIDE DEF q
<1>5. Keeps(Flow, q)
  BY <1>2, <1>3, OnReadableKeeps, OnWritableKeeps
<1> QED
  BY <1>2, <1>4, <1>5, HandlerStep

(* StreamClosed: the stream is gone for the relay, or the relay is over. *)
LEMMA ClosedStep ==
  ASSUME IInv, DispatchStream, Owned(Flow), Head(evq) = "C"
  PROVE  /\ Settled(Flow)' /\ Handled(Flow, dead, Flow')
         /\ relay'.gone \/ (tcp'.fate # "open" /\ dead')
<1>2. Good(Flow) /\ Flow.k.fate = "open" /\ Open(Flow.r) /\ Flow.dead = dead
  BY Unfold, FlowFields DEF Owned, Open
<1> DEFINE q == OnStreamClosed(Flow)
           t == Settle(q)
<1>3. Become(t)
  BY <1>2 DEF OnStreamEvent, DispatchStream
<1>4. /\ Good(q) /\ q.k = Flow.k /\ Carries(Flow, q) /\ (q.dead <=> dead)
      /\ q.r.gone \/ q.r.state = "Abort"
  BY <1>2, OnStreamClosedGood, OnStreamClosedMarks
<1> HIDE DEF q
<1>b. q.r.state = "Abort" => t.k.fate = "abort"
  BY <1>2, <1>4, SettleEnds
<1>5. Handled(q, q.dead, t) /\ (t.r.gone <=> q.r.gone)
  BY <1>2, <1>4, SettleHandles
<1> HIDE DEF t
<1>6. Good(t) /\ Carries(Flow, t)
  BY <1>2, <1>4, <1>5, GoodNumbers, CarriesThen DEF Handled, Settled
<1>7. Handled(Flow, dead, t)
  BY <1>4, <1>5, <1>6 DEF Handled
<1>8. Settled(Flow)' /\ Flow' = t
  BY <1>3, <1>7, BecomeSettled DEF Handled
<1>9. relay' = t.r /\ tcp' = t.k /\ dead' = t.dead
  BY <1>3 DEF Become
<1> QED
  BY <1>4, <1>5, <1>7, <1>8, <1>9, <1>b DEF Handled

LEMMA DispatchStreamIInv == IInv /\ DispatchStream => Settled(Flow)'
<1> SUFFICES ASSUME IInv, DispatchStream PROVE Settled(Flow)'
  OBVIOUS
<1>1. CASE Owned(Flow)
  BY <1>1, LevelStep, ClosedStep
<1>2. CASE ~Owned(Flow)
  <2>1. Settled(Flow) /\ Become(Flow)
    BY <1>2 DEF IInv, DispatchStream
  <2> QED
    BY <2>1, BecomeSettled
<1> QED
  BY <1>1, <1>2

(* Clearing or keeping the dead entry does not matter to a settled flow. *)
LEMMA DeadSettled ==
  ASSUME NEW p, NEW d \in BOOLEAN
  PROVE  /\ Settled(p) => Settled([p EXCEPT !.dead = d])
         /\ Good(p) => /\ Good([p EXCEPT !.dead = d])
                       /\ [p EXCEPT !.dead = d].r = p.r
                       /\ [p EXCEPT !.dead = d].s = p.s
                       /\ [p EXCEPT !.dead = d].k = p.k
                       /\ [p EXCEPT !.dead = d].dead = d
BY DEF Settled, Good, Flows, Fate

(* ConnClosed ends the relay and forgets the dead entry. *)
LEMMA SweepStep ==
  ASSUME IInv, DispatchConnClosed
  PROVE  /\ Settled(Flow)' /\ Carries(Flow, Flow') /\ tcp'.fate # "open" /\ dead' = FALSE
         /\ ~Owned(Flow) => UNCHANGED <<relay, stream, tcp>>
<1> DEFINE q == OnStreamEvent(Flow, "CC")
           t == Settle(q)
           u == [t EXCEPT !.dead = FALSE]
<1>0. Good(Flow) /\ (Owned(Flow) <=> Open(Flow.r)) /\ Flow.k = tcp
  BY Unfold, FlowFields DEF Owned, Open, Fate, RelayRecords
<1>1. Good(q) /\ q.k = Flow.k
  BY <1>0, OnStreamEventGood
<1>2. Become(u)
  BY DEF DispatchConnClosed, SweepConn
<1>3. CASE Owned(Flow)
  <2>1. q = [Flow EXCEPT !.r.state = "Abort"] /\ Open(Flow.r) /\ q = AbortRelay(Flow)
    BY <1>0, <1>3 DEF OnStreamEvent, AbortRelay
  <2>2. q.r.state = "Abort"
    BY <2>1, <1>0, FlowParts DEF Good, Flows, RelayRecords
  <2>3. Keeps(Flow, q) /\ Flow.k.fate = "open"
    BY <1>0, <1>3, <2>1, AbortKeeps DEF Owned
  <2> HIDE DEF q
  <2>4. t.k.fate = "abort"
    BY <1>1, <2>2, <2>3, SettleEnds
  <2>5. Handled(Flow, Flow.dead, t)
    BY <1>0, <1>1, <2>3, HandlerHandles
  <2> HIDE DEF t
  <2>6. Good(t) /\ Settled(t) /\ Carries(Flow, t)
    BY <2>5 DEF Handled, Settled
  <2>7. Settled(u) /\ u.r = t.r /\ u.s = t.s /\ u.k = t.k /\ u.dead = FALSE
    BY <2>6, DeadSettled
  <2> HIDE DEF u
  <2>8. Settled(Flow)' /\ Flow' = u /\ tcp' = u.k /\ dead' = u.dead
    BY <1>2, <2>7, BecomeSettled DEF Become
  <2>9. Carries(Flow, u)
    BY <2>6, <2>7 DEF Carries
  <2> QED
    BY <1>3, <2>4, <2>7, <2>8, <2>9
<1>4. CASE ~Owned(Flow)
  <2>1. t = Flow
    BY <1>0, <1>4 DEF OnStreamEvent, Settle
  <2> HIDE DEF q, t
  <2>2. Settled(u) /\ u.r = Flow.r /\ u.s = Flow.s /\ u.k = Flow.k /\ u.dead = FALSE
    BY <1>0, <2>1, DeadSettled DEF IInv
  <2> HIDE DEF u
  <2>3. Settled(Flow)' /\ Flow' = u /\ relay' = u.r /\ stream' = u.s /\ tcp' = u.k /\ dead' = u.dead
    BY <1>2, <2>2, BecomeSettled DEF Become
  <2>4. Carries(Flow, u)
    BY <1>0, <2>2, KeepsSelf DEF Keeps, Carries
  <2> QED
    BY <1>0, <1>4, <2>2, <2>3, <2>4, FlowFields DEF Owned
<1> QED
  BY <1>3, <1>4

(* The end of a pass. *)
LEMMA PumpStep ==
  ASSUME IInv, DriveEnd
  PROVE  /\ Settled(Flow)'
         /\ Owned(Flow) => Step(dead /\ ~closed)
         /\ ~Owned(Flow) => UNCHANGED <<relay, stream, tcp>> /\ (dead' <=> (dead /\ ~closed))
<1> DEFINE d == dead /\ ~closed
           p == [Flow EXCEPT !.dead = d]
           q == IF IsRunnable(p.r) THEN PumpAll(p) ELSE p
<1>1. d \in BOOLEAN /\ Good(Flow)
  BY Unfold
<1>2. Become(PumpRelay(p))
  BY FlowFields DEF DriveEnd
<1> HIDE DEF d
<1>3. Settled(p) /\ Good(p) /\ p.r = Flow.r /\ p.s = Flow.s /\ p.k = Flow.k /\ p.dead = d
  BY <1>1, DeadSettled DEF IInv
<1> HIDE DEF p
<1>4. CASE Owned(Flow)
  <2>1. PumpRelay(p) = Settle(q) /\ p.k.fate = "open"
    BY <1>3, <1>4 DEF PumpRelay, Owned
  <2>2. Good(q) /\ Keeps(p, q)
    BY <1>3, PumpAllGood, PumpAllKeeps, KeepsSelf
  <2> HIDE DEF q
  <2>3. Handled(p, d, Settle(q)) /\ (Settle(q).r.gone <=> p.r.gone)
    BY <1>3, <2>1, <2>2, HandlerHandles
  <2> DEFINE t == Settle(q)
  <2> HIDE DEF t
  <2>4. Handled(p, d, t) /\ (t.r.gone <=> p.r.gone) /\ Become(t)
    BY <1>2, <2>1, <2>3 DEF t
  <2>5. Handled(Flow, d, t)
    BY <1>3, <2>4 DEF Handled, Carries
  <2>6. Settled(Flow)' /\ Flow' = t /\ relay' = t.r
    BY <2>4, BecomeSettled DEF Handled, Become
  <2> QED
    BY <1>3, <1>4, <2>4, <2>5, <2>6, FlowFields DEF Step, d
<1>5. CASE ~Owned(Flow)
  <2>1. PumpRelay(p) = p
    BY <1>3, <1>5 DEF PumpRelay, Settle, Owned
  <2>2. Settled(Flow)' /\ relay' = p.r /\ stream' = p.s /\ tcp' = p.k /\ dead' = p.dead
    BY <1>2, <1>3, <2>1, BecomeSettled DEF Become
  <2> QED
    BY <1>3, <1>5, <2>2, FlowFields DEF d
<1> QED
  BY <1>4, <1>5

----------------------------------------------------------------------------
(* The environment adds bytes, ends, credit and faults; it never takes     *)
(* back what it delivered or accepted.                                     *)

LEMMA EnvIInv == IInv /\ Env => Settled(Flow)'
<1> SUFFICES ASSUME IInv, Env PROVE Settled(Flow)'
  OBVIOUS
<1> USE Unfold
<1>1. CASE TcpPeerWrites
  <2>1. tcp' \in TcpRecords /\ Parts(relay, stream, tcp') /\ Fate(relay, tcp')
    BY <1>1 DEF TcpPeerWrites, TcpRecords, Parts, Fate
  <2> QED
    BY <1>1, <2>1, PartsSettled DEF TcpPeerWrites
<1>2. CASE TcpPeerEnds
  <2>1. tcp' \in TcpRecords /\ Parts(relay, stream, tcp') /\ Fate(relay, tcp')
    BY <1>2 DEF TcpPeerEnds, TcpRecords, Parts, Fate
  <2> QED
    BY <1>2, <2>1, PartsSettled DEF TcpPeerEnds
<1>3. CASE Arrives
  <2>1. stream' \in StreamRecords /\ Parts(relay, stream', tcp)
    BY <1>3 DEF Arrives, StreamRecords, Parts
  <2> QED
    BY <1>3, <2>1, PartsSettled DEF Arrives
<1>4. CASE PeerFin
  <2>1. stream' \in StreamRecords /\ Parts(relay, stream', tcp)
    BY <1>4 DEF PeerFin, StreamRecords, Parts
  <2> QED
    BY <1>4, <2>1, PartsSettled DEF PeerFin
<1>5. CASE Credit
  <2>a. stream' = [stream EXCEPT !.room = stream.room + 1, !.wantW = FALSE]
        /\ stream.room + 1 \in Nat
    BY <1>5 DEF Credit, StreamRecords
  <2>1. stream' \in StreamRecords /\ Parts(relay, stream', tcp)
    BY <2>a DEF StreamRecords, Parts
  <2> QED
    BY <1>5, <2>1, PartsSettled DEF Credit
<1>6. CASE Renotify
  BY <1>6, PartsSettled DEF Renotify
<1>7. CASE PeerResets
  <2>1. stream' \in StreamRecords /\ Parts(relay, stream', tcp)
    BY <1>7 DEF PeerResets, StreamRecords, Parts
  <2> QED
    BY <1>7, <2>1, PartsSettled DEF PeerResets
<1>8. CASE PeerStops
  <2>1. stream' \in StreamRecords /\ Parts(relay, stream', tcp)
    BY <1>8 DEF PeerStops, StreamRecords, Parts
  <2> QED
    BY <1>8, <2>1, PartsSettled DEF PeerStops
<1>9. CASE StreamReleased
  <2>1. stream' \in StreamRecords /\ Parts(relay, stream', tcp)
    BY <1>9 DEF StreamReleased, StreamRecords, Parts
  <2> QED
    BY <1>9, <2>1, PartsSettled DEF StreamReleased
<1>10. CASE ConnLost
  <2>1. stream' \in StreamRecords /\ Parts(relay, stream', tcp)
    BY <1>10 DEF ConnLost, StreamRecords, Parts
  <2> QED
    BY <1>10, <2>1, PartsSettled DEF ConnLost
<1> QED
  BY <1>1, <1>2, <1>3, <1>4, <1>5, <1>6, <1>7, <1>8, <1>9, <1>10 DEF Env

(* The queue stays a queue of events, the pass flags stay flags. *)
LEMMA QueueIInv ==
  ASSUME IInv, [Next]_vars
  PROVE  evq' \in Seq(Events) /\ driving' \in BOOLEAN /\ closed' \in BOOLEAN
<1> USE EventSeqs DEF IInv, Events
<1>1. CASE UNCHANGED vars
  BY <1>1 DEF vars
<1>2. CASE Env
  <2>1. driving' \in BOOLEAN /\ closed' \in BOOLEAN
    BY <1>2 DEF Env, TcpPeerWrites, TcpPeerEnds, Arrives, PeerFin, Credit, Renotify,
       PeerResets, PeerStops, StreamReleased, ConnLost
  <2>2. \/ evq' = evq \/ evq' = Append(evq, "R") \/ evq' = Append(evq, "W")
        \/ evq' = Append(evq, "C") \/ evq' = evq \o <<"CC">> \/ evq' = evq \o <<"C", "CC">>
    BY <1>2 DEF Env, TcpPeerWrites, TcpPeerEnds, Arrives, PeerFin, Credit, Renotify,
       PeerResets, PeerStops, StreamReleased, ConnLost, PushLevel
  <2>3. evq \o <<"CC">> \in Seq(Events) /\ evq \o <<"C", "CC">> \in Seq(Events)
    OBVIOUS
  <2>4. evq \in Seq(Events) /\ \A e \in Events : Append(evq, e) \in Seq(Events)
    OBVIOUS
  <2>5. "R" \in Events /\ "W" \in Events /\ "C" \in Events
    OBVIOUS
  <2> HIDE DEF Events
  <2>6. evq' \in Seq(Events)
    BY <2>2, <2>3, <2>4, <2>5
  <2> QED
    BY <2>1, <2>6
<1>3. CASE TcpRx \/ TcpRxEof \/ TcpTx \/ TcpError \/ DriveBegin \/ DriveEnd
  BY <1>3 DEF TcpRx, TcpRxEof, TcpTx, TcpError, DriveBegin, DriveEnd
<1>4. CASE DispatchStream \/ DispatchConnClosed
  BY <1>4 DEF DispatchStream, DispatchConnClosed
<1> QED
  BY <1>1, <1>2, <1>3, <1>4 DEF Next, Shard

LEMMA NextIInv == IInv /\ [Next]_vars => IInv'
<1> SUFFICES ASSUME IInv, [Next]_vars PROVE IInv'
  OBVIOUS
<1>1. CASE UNCHANGED vars
  <2>1. Flow' = Flow
    BY <1>1 DEF vars, Flow
  <2>2. Settled(Flow)'
    BY <2>1 DEF IInv, Settled, Good, Flows, Parts, Fate
  <2> QED
    BY <2>2, QueueIInv DEF IInv, Events
<1>2. CASE Env
  BY <1>2, EnvIInv, QueueIInv DEF IInv, Events
<1>3. CASE DriveBegin
  <2>1. Flow' = Flow
    BY <1>3 DEF DriveBegin, Flow
  <2>2. Settled(Flow)'
    BY <2>1 DEF IInv, Settled, Good, Flows, Parts, Fate
  <2> QED
    BY <2>2, QueueIInv DEF IInv, Events
<1>4. CASE TcpRx \/ TcpRxEof \/ TcpTx \/ TcpError
  BY <1>4, TcpRxIInv, TcpRxEofIInv, TcpTxIInv, TcpErrorIInv, QueueIInv DEF IInv, Events
<1>5. CASE DispatchStream \/ DispatchConnClosed \/ DriveEnd
  BY <1>5, DispatchStreamIInv, SweepStep, PumpStep, QueueIInv
  DEF IInv, Events
<1> QED
  BY <1>1, <1>2, <1>3, <1>4, <1>5 DEF Next, Shard

----------------------------------------------------------------------------
(* The results. *)

LEMMA AlwaysIInv == Spec => []IInv
BY InitIInv, NextIInv, PTL DEF Spec

LEMMA IInvTypeOK == IInv => TypeOK
BY Unfold DEF IInv, TypeOK

LEMMA IInvBytesConserved == IInv => BytesConserved
<1> SUFFICES ASSUME IInv PROVE Faithful(Flow)
  BY DEF BytesConserved
<1>1. /\ relay.toQuic \in Ring(RELAY_BUF) /\ relay.toTcp \in Ring(RELAY_BUF)
      /\ RELAY_BUF \in Nat
  BY Unfold, RelayAssumption DEF RelayRecords
<1>2. /\ IsEmpty(relay.toQuic) <=> RLen(relay.toQuic) = 0
      /\ IsEmpty(relay.toTcp) <=> RLen(relay.toTcp) = 0
  BY <1>1, RingLen
<1> QED
  BY <1>2, Unfold, FlowFields
  DEF Faithful, Parts, RelayRecords, StreamRecords, TcpRecords

LEMMA IInvCleanComplete == IInv => CleanComplete
<1> SUFFICES ASSUME IInv, tcp.fate = "close" PROVE CleanComplete
  BY DEF CleanComplete
<1>1. relay.state = "Clean"
  BY Unfold DEF RelayRecords, Fate
<1>2. relay.finSent /\ relay.writeShut /\ stream.finAcc /\ tcp.shut
  BY <1>1, Unfold DEF Parts, RelayRecords, StreamRecords, TcpRecords
<1>3. Faithful(Flow)
  BY IInvBytesConserved DEF BytesConserved
<1> QED
  BY <1>2, <1>3, FlowFields DEF Faithful, CleanComplete

(* Type correctness of the relay, for every buffer size and traffic. *)
THEOREM RelayTypeOK == Spec => []TypeOK
BY AlwaysIInv, IInvTypeOK, PTL

(* The relay (relay.rs pump, tcp_rx_commit, tcp_tx_commit) neither loses,  *)
(* duplicates nor invents a byte, and no end mark overtakes data.          *)
THEOREM RelayConservesBytes == Spec => []BytesConserved
BY AlwaysIInv, IInvBytesConserved, PTL

(* A graceful TcpClose (settle_relay) means a complete flow both ways. *)
THEOREM RelayCleanComplete == Spec => []CleanComplete
BY AlwaysIInv, IInvCleanComplete, PTL

----------------------------------------------------------------------------
(* The relay implements FlowPipe. *)

(* What a state of the relay says of the two pipes. *)
PipeState ==
  /\ {tcp.sent, tcp.out, stream.acc, stream.arrived} \subseteq Nat
  /\ stream.acc <= tcp.sent /\ tcp.out <= stream.arrived
  /\ stream.finAcc => tcp.eof /\ stream.acc = tcp.sent
  /\ tcp.shut => stream.peerFin /\ tcp.out = stream.arrived
  /\ tcp.fate \in {"open", "close", "abort"}
  /\ tcp.fate = "close" => stream.finAcc /\ tcp.shut

LEMMA IInvPipeState == IInv => PipeState
<1> SUFFICES ASSUME IInv PROVE PipeState
  OBVIOUS
<1>1. Faithful(Flow) /\ CleanComplete
  BY IInvBytesConserved, IInvCleanComplete DEF BytesConserved
<1>2. RLen(relay.toQuic) \in Nat /\ RLen(relay.toTcp) \in Nat
  BY Unfold, RelayAssumption, RingLen DEF RelayRecords
<1>3. /\ tcp.sent \in Nat /\ tcp.taken \in Nat /\ tcp.out \in Nat
      /\ stream.acc \in Nat /\ stream.got \in Nat /\ stream.arrived \in Nat
      /\ tcp.fate \in {"open", "close", "abort"}
  BY Unfold DEF StreamRecords, TcpRecords
<1> QED
  BY <1>1, <1>2, <1>3, FlowFields DEF PipeState, Faithful, CleanComplete

(* A source only grows, and not past its end; the sinks are the relay's.   *)
SourcesGrow ==
  /\ tcp.sent <= tcp'.sent /\ stream.arrived <= stream'.arrived
  /\ tcp.eof => tcp'.eof /\ tcp'.sent = tcp.sent
  /\ stream.peerFin => stream'.peerFin /\ stream'.arrived = stream.arrived

SinksGrow ==
  /\ stream.acc <= stream'.acc /\ tcp.out <= tcp'.out
  /\ stream.finAcc => stream'.finAcc
  /\ tcp.shut => tcp'.shut

SinksStay ==
  /\ stream'.acc = stream.acc /\ tcp'.out = tcp.out
  /\ stream'.finAcc = stream.finAcc
  /\ tcp'.shut = tcp.shut

LEMMA EnvGrows == IInv /\ Env => SourcesGrow /\ SinksStay /\ tcp'.fate = tcp.fate
<1> SUFFICES ASSUME IInv, Env PROVE SourcesGrow /\ SinksStay /\ tcp'.fate = tcp.fate
  OBVIOUS
<1>u. stream \in StreamRecords /\ tcp \in TcpRecords
  BY Unfold
<1> USE DEF SourcesGrow, SinksStay, StreamRecords, TcpRecords
<1>1. CASE TcpPeerWrites \/ TcpPeerEnds
  BY <1>1, <1>u DEF TcpPeerWrites, TcpPeerEnds
<1>2. CASE Arrives \/ PeerFin
  BY <1>2, <1>u DEF Arrives, PeerFin
<1>3. CASE Credit
  <2> DEFINE s2 == [stream EXCEPT !.room = stream.room + 1, !.wantW = FALSE]
  <2>1. tcp' = tcp /\ stream' = s2
    BY <1>3 DEF Credit
  <2>2. /\ s2.acc = stream.acc /\ s2.finAcc = stream.finAcc
        /\ s2.arrived = stream.arrived /\ s2.peerFin = stream.peerFin
    BY <1>u
  <2> HIDE DEF s2
  <2> QED
    BY <2>1, <2>2, <1>u
<1>6. CASE Renotify
  BY <1>6, <1>u DEF Renotify
<1>4. CASE PeerResets \/ PeerStops
  BY <1>4, <1>u DEF PeerResets, PeerStops
<1>5. CASE StreamReleased
  <2>1. tcp' = tcp /\ stream' = [stream EXCEPT !.cond = "released"]
    BY <1>5 DEF StreamReleased
  <2> QED
    BY <2>1, <1>u
<1>7. CASE ConnLost
  <2> DEFINE s2 == [stream EXCEPT !.cond = "released", !.connUp = FALSE]
  <2>1. tcp' = tcp /\ stream' = s2
    BY <1>7 DEF ConnLost
  <2>2. /\ s2.acc = stream.acc /\ s2.finAcc = stream.finAcc
        /\ s2.arrived = stream.arrived /\ s2.peerFin = stream.peerFin
    BY <1>u
  <2> HIDE DEF s2
  <2> QED
    BY <2>1, <2>2, <1>u
<1> QED
  BY <1>1, <1>2, <1>3, <1>4, <1>5, <1>6, <1>7 DEF Env

(* Nothing is served once the relay has left the tables. *)
LEMMA ShardServes ==
  ASSUME IInv, Shard
  PROVE  IF tcp.fate = "open" THEN Carries(Flow, Flow') ELSE UNCHANGED <<relay, stream, tcp>>
<1>0. (tcp.fate = "open") <=> Owned(Flow)
  BY FlowFields DEF Owned
<1>1. CASE TcpRx \/ TcpRxEof \/ TcpTx \/ TcpError
  <2>1. Owned(Flow) /\ Step(dead)
    BY <1>1, TcpRxIInv, TcpRxEofIInv, TcpTxIInv, TcpErrorIInv
       DEF TcpRx, TcpRxEof, TcpTx, TcpError
  <2> QED
    BY <1>0, <2>1 DEF Step, Handled
<1>2. CASE DriveBegin
  <2>1. Flow' = Flow /\ Carries(Flow, Flow) /\ UNCHANGED <<relay, stream, tcp>>
    BY <1>2, Unfold, KeepsSelf DEF DriveBegin, Flow, Keeps
  <2> QED
    BY <2>1
<1>3. CASE DispatchStream
  <2>1. CASE Owned(Flow)
    BY <1>0, <1>3, <2>1, LevelStep, ClosedStep DEF Step, Handled
  <2>2. CASE ~Owned(Flow)
    BY <1>0, <1>3, <2>2, FlowFields DEF DispatchStream, Become
  <2> QED
    BY <2>1, <2>2
<1>4. CASE DispatchConnClosed
  BY <1>0, <1>4, SweepStep
<1>5. CASE DriveEnd
  BY <1>0, <1>5, PumpStep DEF Step, Handled
<1> QED
  BY <1>1, <1>2, <1>3, <1>4, <1>5 DEF Shard

LEMMA NextGrows ==
  ASSUME IInv, [Next]_vars
  PROVE  SourcesGrow /\ IF tcp.fate = "open" THEN SinksGrow
                                             ELSE SinksStay /\ tcp'.fate = tcp.fate
<1>n. /\ tcp.sent \in Nat /\ tcp.out \in Nat /\ stream.acc \in Nat /\ stream.arrived \in Nat
  BY Unfold DEF TcpRecords, StreamRecords
<1>1. CASE Env
  BY <1>1, <1>n, EnvGrows DEF SinksStay, SinksGrow
<1>2. CASE Shard /\ tcp.fate = "open"
  <2>1. Carries(Flow, Flow')
    BY <1>2, ShardServes
  <2>2. Flow'.s = stream' /\ Flow'.k = tcp'
    BY DEF Flow
  <2> QED
    BY <1>2, <1>n, <2>1, <2>2, FlowFields DEF Carries, SourcesGrow, SinksGrow
<1>3. CASE (Shard /\ tcp.fate # "open") \/ UNCHANGED vars
  <2>1. UNCHANGED <<stream, tcp>>
    BY <1>3, ShardServes DEF vars
  <2> QED
    BY <2>1, <1>n DEF SourcesGrow, SinksGrow, SinksStay
<1> QED
  BY <1>1, <1>2, <1>3 DEF Next

LEMMA PipeInitial == Init => Pipe!PipeInit
<1> SUFFICES ASSUME Init PROVE Pipe!PipeInit
  OBVIOUS
<1>1. PipeState
  BY InitIInv, IInvPipeState
<1>2. tcp.fate = "open"
  BY DEF Init, TcpAtStart
<1> QED
  BY <1>1, <1>2 DEF PipeState, Pipe!PipeInit, Pipe!Sound

LEMMA PipeStep ==
  ASSUME IInv, PipeState, PipeState', [Next]_vars
  PROVE  Pipe!PipeNext
<1>1. SourcesGrow /\ IF tcp.fate = "open" THEN SinksGrow
                                          ELSE SinksStay /\ tcp'.fate = tcp.fate
  BY NextGrows
<1>2. CASE tcp.fate = "open"
  <2>1. Pipe!Move
    BY <1>1, <1>2 DEF Pipe!Move, Pipe!Grows, Pipe!Sound, PipeState, SourcesGrow, SinksGrow
  <2> QED
    BY <2>1 DEF Pipe!PipeNext
<1>3. CASE tcp.fate # "open"
  <2>1. Pipe!Ended
    BY <1>1, <1>3 DEF Pipe!Ended, Pipe!Grows, Pipe!SinkFrozen, PipeState, SourcesGrow, SinksStay
  <2> QED
    BY <2>1 DEF Pipe!PipeNext
<1> QED
  BY <1>2, <1>3

(* The relay implements the abstract two-way pipe of FlowPipe: bytes pass  *)
(* in order and once, an end mark only behind the last byte, a graceful    *)
(* close only when both sides were told, and nothing after the end.        *)
THEOREM RelayImplementsPipe == Spec => ImplementsPipe
<1>1. IInv /\ PipeState /\ PipeState' /\ [Next]_vars => [Pipe!PipeNext]_(Pipe!pipeVars)
  BY PipeStep
<1> QED
  BY AlwaysIInv, IInvPipeState, PipeInitial, <1>1, PTL DEF Spec, ImplementsPipe, Pipe!PipeSpec

----------------------------------------------------------------------------
(* Late events.  In the queue a StreamClosed is the last event of its      *)
(* stream, and only ConnClosed comes after it.                             *)

Has(q, e) == \E i \in DOMAIN q : q[i] = e

Ordered(q) == \A i, j \in DOMAIN q : i < j /\ q[i] \in {"C", "CC"} => q[j] = "CC"

Quiet(q) == \A i \in DOMAIN q : q[i] = "CC"

LEMMA TailQueue ==
  ASSUME NEW q \in Seq(Events), q # <<>>, Ordered(q)
  PROVE  /\ Ordered(Tail(q))
         /\ \A e \in Events : Has(q, e) <=> (Head(q) = e \/ Has(Tail(q), e))
         /\ Quiet(q) => Quiet(Tail(q))
         /\ Head(q) \in {"C", "CC"} => Quiet(Tail(q))
<1>1. Len(q) \in Nat /\ Len(q) > 0 /\ DOMAIN q = 1 .. Len(q) /\ Head(q) = q[1]
  OBVIOUS
<1>2. /\ Tail(q) \in Seq(Events) /\ DOMAIN Tail(q) = 1 .. (Len(q) - 1)
      /\ \A i \in 1 .. (Len(q) - 1) : Tail(q)[i] = q[i + 1]
  BY <1>1
<1> DEFINE t == Tail(q)
<1> HIDE DEF t
<1>3. DOMAIN t = 1 .. (Len(q) - 1) /\ \A i \in 1 .. (Len(q) - 1) : t[i] = q[i + 1]
  BY <1>2 DEF t
<1>4. Ordered(t)
  <2> SUFFICES ASSUME NEW i \in DOMAIN t, NEW j \in DOMAIN t, i < j, t[i] \in {"C", "CC"}
               PROVE  t[j] = "CC"
    BY DEF Ordered
  <2>1. i + 1 \in DOMAIN q /\ j + 1 \in DOMAIN q /\ i + 1 < j + 1 /\ q[i + 1] \in {"C", "CC"}
    BY <1>1, <1>3
  <2>2. q[j + 1] = "CC"
    BY <2>1 DEF Ordered
  <2> QED
    BY <1>3, <2>2
<1>5. ASSUME NEW e \in Events
      PROVE  Has(q, e) <=> (Head(q) = e \/ Has(t, e))
  <2>1. ASSUME Has(q, e) PROVE Head(q) = e \/ Has(t, e)
    <3>1. PICK i \in DOMAIN q : q[i] = e
      BY <2>1 DEF Has
    <3>2. CASE i = 1
      BY <1>1, <3>1, <3>2
    <3>3. CASE i # 1
      <4>1. i - 1 \in DOMAIN t /\ t[i - 1] = q[(i - 1) + 1] /\ (i - 1) + 1 = i
        BY <1>1, <1>3, <3>3
      <4> QED
        BY <3>1, <4>1 DEF Has
    <3> QED
      BY <3>2, <3>3
  <2>2. ASSUME Head(q) = e PROVE Has(q, e)
    BY <1>1, <2>2 DEF Has
  <2>3. ASSUME Has(t, e) PROVE Has(q, e)
    <3>1. PICK i \in DOMAIN t : t[i] = e
      BY <2>3 DEF Has
    <3>2. i + 1 \in DOMAIN q /\ q[i + 1] = e
      BY <1>1, <1>3, <3>1
    <3> QED
      BY <3>2 DEF Has
  <2> QED
    BY <2>1, <2>2, <2>3
<1>6. ASSUME Quiet(q) \/ Head(q) \in {"C", "CC"} PROVE Quiet(t)
  <2> SUFFICES ASSUME NEW i \in DOMAIN t PROVE t[i] = "CC"
    BY DEF Quiet
  <2>1. i + 1 \in DOMAIN q /\ 1 \in DOMAIN q /\ 1 < i + 1 /\ t[i] = q[i + 1]
    BY <1>1, <1>3
  <2>2. q[i + 1] = "CC"
    BY <1>1, <1>6, <2>1 DEF Quiet, Ordered
  <2> QED
    BY <2>1, <2>2
<1> QED
  BY <1>4, <1>5, <1>6 DEF t

(* An event behind a queue without StreamClosed and ConnClosed, or a       *)
(* ConnClosed behind any.                                                  *)
LEMMA PushQueue ==
  ASSUME NEW q \in Seq(Events), NEW e \in Events, Ordered(q),
         e = "CC" \/ (~Has(q, "C") /\ ~Has(q, "CC"))
  PROVE  /\ Append(q, e) \in Seq(Events)
         /\ Ordered(Append(q, e))
         /\ \A f \in Events : Has(Append(q, e), f) <=> (f = e \/ Has(q, f))
         /\ Quiet(q) /\ e = "CC" => Quiet(Append(q, e))
<1> DEFINE t == Append(q, e)
<1>1. /\ Len(q) \in Nat /\ DOMAIN q = 1 .. Len(q) /\ t \in Seq(Events)
      /\ DOMAIN t = 1 .. (Len(q) + 1) /\ t[Len(q) + 1] = e
      /\ \A i \in 1 .. Len(q) : t[i] = q[i]
  OBVIOUS
<1> HIDE DEF t
<1>2. Ordered(t)
  <2> SUFFICES ASSUME NEW i \in DOMAIN t, NEW j \in DOMAIN t, i < j, t[i] \in {"C", "CC"}
               PROVE  t[j] = "CC"
    BY DEF Ordered
  <2>1. i \in DOMAIN q /\ q[i] \in {"C", "CC"}
    BY <1>1
  <2>2. CASE j = Len(q) + 1
    <3>1. Has(q, "C") \/ Has(q, "CC")
      BY <2>1 DEF Has
    <3> QED
      BY <1>1, <2>2, <3>1
  <2>3. CASE j # Len(q) + 1
    <3>1. j \in DOMAIN q /\ t[j] = q[j]
      BY <1>1, <2>3
    <3> QED
      BY <2>1, <3>1 DEF Ordered
  <2> QED
    BY <2>2, <2>3
<1>3. ASSUME NEW f \in Events PROVE Has(t, f) <=> (f = e \/ Has(q, f))
  <2>1. ASSUME Has(t, f) PROVE f = e \/ Has(q, f)
    <3>1. PICK i \in DOMAIN t : t[i] = f
      BY <2>1 DEF Has
    <3>2. i = Len(q) + 1 \/ (i \in DOMAIN q /\ q[i] = f)
      BY <1>1, <3>1
    <3> QED
      BY <1>1, <3>1, <3>2 DEF Has
  <2>2. ASSUME f = e PROVE Has(t, f)
    <3>1. Len(q) + 1 \in DOMAIN t
      BY <1>1
    <3> QED
      BY <1>1, <2>2, <3>1 DEF Has
  <2>3. ASSUME Has(q, f) PROVE Has(t, f)
    <3>1. PICK i \in DOMAIN q : q[i] = f
      BY <2>3 DEF Has
    <3>2. i \in DOMAIN t /\ t[i] = f
      BY <1>1, <3>1
    <3> QED
      BY <3>2 DEF Has
  <2> QED
    BY <2>1, <2>2, <2>3
<1>4. ASSUME Quiet(q), e = "CC" PROVE Quiet(t)
  <2> SUFFICES ASSUME NEW i \in DOMAIN t PROVE t[i] = "CC"
    BY DEF Quiet
  <2>1. i = Len(q) + 1 \/ (i \in DOMAIN q /\ t[i] = q[i])
    BY <1>1
  <2> QED
    BY <1>1, <1>4, <2>1 DEF Quiet
<1> QED
  BY <1>1, <1>2, <1>3, <1>4 DEF t

(* The invariant behind LateEventsDropped: who still expects events of the *)
(* stream, and which of them are still to come.                            *)
EInv ==
  /\ Ordered(evq)
  /\ Has(evq, "C") \/ Has(evq, "CC") => stream.cond = "released"
  /\ closed \/ relay.gone \/ (tcp.fate # "open" /\ ~dead)
       => stream.cond = "released" /\ Quiet(evq)
  /\ tcp.fate = "open" /\ ~relay.gone => stream.cond # "released" \/ Has(evq, "C")
  /\ dead => stream.cond # "released" \/ Has(evq, "C") \/ closed \/ Has(evq, "CC")

LEMMA EInvLate == EInv => LateEventsDropped
<1> SUFFICES ASSUME EInv PROVE LateEventsDropped
  OBVIOUS
<1>1. \A e : Queued(e) <=> Has(evq, e)
  BY DEF Queued, Has
<1>2. ASSUME NEW e \in {"R", "W", "C"}, Queued(e) PROVE Owned(Flow) \/ dead
  <2>1. ~Quiet(evq)
    BY <1>2 DEF Queued, Quiet
  <2> QED
    BY <2>1, FlowFields DEF EInv, Owned
<1> QED
  BY <1>1, <1>2 DEF LateEventsDropped, EInv

LEMMA InitEInv == Init => EInv
<1> SUFFICES ASSUME Init PROVE EInv
  OBVIOUS
<1>1. /\ relay.gone = FALSE /\ stream.cond = "live" /\ tcp.fate = "open"
      /\ dead = FALSE /\ closed = FALSE
  BY DEF Init, Start, StreamAtStart, TcpAtStart
<1>2. evq = <<>> \/ evq = <<"R">>
  BY DEF Init
<1>3. Ordered(evq) /\ ~Has(evq, "C") /\ ~Has(evq, "CC")
  BY <1>2 DEF Ordered, Has
<1> QED
  BY <1>1, <1>3 DEF EInv

(* Steps that leave the queue and the pass alone. *)
LEMMA SameQueue ==
  ASSUME EInv, IInv, tcp.fate = "open", UNCHANGED <<evq, closed>>, Step(dead)
  PROVE  EInv'
<1>1. Flow'.s = stream' /\ Flow'.k = tcp' /\ Flow'.r = relay' /\ Flow'.dead = dead'
  BY DEF Flow
<1>2. /\ stream'.cond = stream.cond /\ (relay'.gone <=> relay.gone)
      /\ tcp'.fate = "open" => (dead' <=> dead)
      /\ tcp'.fate # "open" => (dead' <=> (dead \/ ~relay.gone))
  BY <1>1, FlowFields DEF Step, Handled, Carries
<1> QED
  BY <1>2 DEF EInv

(* A level event is pushed only for a stream that is not released. *)
LEMMA LevelPush ==
  ASSUME EInv, IInv, NEW e \in {"R", "W"}, PushLevel(e), UNCHANGED <<relay, tcp, dead, closed>>,
         stream'.cond = stream.cond \/ (stream.cond # "released" /\ stream'.cond # "released")
  PROVE  EInv'
<1>1. CASE evq' = evq
  <2>1. /\ stream'.cond = "released" => stream.cond = "released"
        /\ Has(evq, "C") \/ Has(evq, "CC") \/ closed \/ relay.gone \/ (tcp.fate # "open" /\ ~dead)
             => stream'.cond = "released"
    BY DEF EInv
  <2> QED
    BY <1>1, <2>1 DEF EInv
<1>2. CASE evq' = Append(evq, e) /\ stream.cond # "released"
  <2>1. evq \in Seq(Events) /\ e \in Events /\ ~Has(evq, "C") /\ ~Has(evq, "CC") /\ Ordered(evq)
    BY <1>2 DEF IInv, EInv, Events
  <2>2. Ordered(evq') /\ ~Has(evq', "C") /\ ~Has(evq', "CC")
    BY <1>2, <2>1, PushQueue DEF Events
  <2>3. ~closed /\ ~relay.gone /\ ~(tcp.fate # "open" /\ ~dead) /\ stream'.cond # "released"
    BY <1>2 DEF EInv
  <2> QED
    BY <2>2, <2>3 DEF EInv
<1> QED
  BY <1>1, <1>2 DEF PushLevel

LEMMA QueueStays ==
  ASSUME EInv, UNCHANGED <<relay, dead, evq, closed>>, tcp'.fate = tcp.fate,
         stream'.cond = stream.cond \/ (stream.cond # "released" /\ stream'.cond # "released")
  PROVE  EInv'
<1>1. /\ stream'.cond = "released" <=> stream.cond = "released"
  OBVIOUS
<1> QED
  BY <1>1 DEF EInv

LEMMA EnvEInv == IInv /\ EInv /\ Env => EInv'
<1> SUFFICES ASSUME IInv, EInv, Env PROVE EInv'
  OBVIOUS
<1>u. stream \in StreamRecords /\ tcp \in TcpRecords /\ evq \in Seq(Events)
  BY Unfold DEF IInv, Events
<1>1. CASE TcpPeerWrites \/ TcpPeerEnds
  <2>1. tcp'.fate = tcp.fate
    BY <1>1, <1>u DEF TcpPeerWrites, TcpPeerEnds, TcpRecords
  <2> QED
    BY <1>1, <2>1, QueueStays DEF TcpPeerWrites, TcpPeerEnds
<1>2. CASE Arrives \/ PeerFin
  <2>1. stream'.cond = stream.cond
    BY <1>2, <1>u DEF Arrives, PeerFin, StreamRecords
  <2> QED
    BY <1>2, <2>1, LevelPush DEF Arrives, PeerFin
<1>3. CASE Credit
  <2> DEFINE s2 == [stream EXCEPT !.room = stream.room + 1, !.wantW = FALSE]
  <2>1. s2.cond = stream.cond
    BY <1>u DEF StreamRecords
  <2>2. stream' = s2 /\ UNCHANGED <<relay, tcp, dead, closed>> /\ (PushLevel("W") \/ evq' = evq)
    BY <1>3 DEF Credit
  <2> HIDE DEF s2
  <2> QED
    BY <2>1, <2>2, LevelPush, QueueStays
<1>4. CASE Renotify
  BY <1>4, LevelPush DEF Renotify
<1>5. CASE PeerResets
  <2>1. stream'.cond = "reset" /\ stream.cond = "live"
    BY <1>5, <1>u DEF PeerResets, StreamRecords
  <2> QED
    BY <1>5, <2>1, LevelPush DEF PeerResets
<1>6. CASE PeerStops
  <2>1. stream'.cond = "stopped" /\ stream.cond = "live"
    BY <1>6, <1>u DEF PeerStops, StreamRecords
  <2> QED
    BY <1>6, <2>1, QueueStays DEF PeerStops
<1>7. CASE stream.cond # "released" /\ stream'.cond = "released" /\ UNCHANGED <<relay, tcp, dead, closed>>
           /\ (evq' = Append(evq, "C") \/ evq' = Append(Append(evq, "C"), "CC"))
  <2> DEFINE q == Append(evq, "C")
  <2>1. /\ Ordered(evq) /\ ~Has(evq, "C") /\ ~Has(evq, "CC") /\ ~closed /\ ~relay.gone
        /\ ~(tcp.fate # "open" /\ ~dead)
    BY <1>7 DEF EInv
  <2>2. q \in Seq(Events) /\ Ordered(q) /\ Has(q, "C")
    BY <1>u, <2>1, PushQueue DEF Events
  <2> HIDE DEF q
  <2>3. Ordered(Append(q, "CC")) /\ Has(Append(q, "CC"), "C")
    BY <2>2, PushQueue DEF Events
  <2>4. Ordered(evq') /\ Has(evq', "C")
    BY <1>7, <2>2, <2>3 DEF q
  <2> QED
    BY <1>7, <2>1, <2>4 DEF EInv
<1>8. CASE StreamReleased
  <2>1. stream'.cond = "released"
    BY <1>8, <1>u DEF StreamReleased, StreamRecords
  <2> QED
    BY <1>7, <1>8, <2>1 DEF StreamReleased
<1>9. CASE ConnLost
  <2> DEFINE s2 == [stream EXCEPT !.cond = "released", !.connUp = FALSE]
  <2>1. s2.cond = "released"
    BY <1>u DEF StreamRecords
  <2>2. /\ stream' = s2 /\ UNCHANGED <<relay, tcp, dead, closed>>
        /\ evq' = evq \o (IF stream.cond = "released" THEN <<"CC">> ELSE <<"C", "CC">>)
    BY <1>9 DEF ConnLost
  <2> HIDE DEF s2
  <2>3. /\ evq \o <<"CC">> = Append(evq, "CC")
        /\ evq \o <<"C", "CC">> = Append(Append(evq, "C"), "CC")
    BY <1>u
  <2>4. CASE stream.cond # "released"
    BY <1>7, <2>1, <2>2, <2>3, <2>4
  <2>5. CASE stream.cond = "released"
    <3>1. evq' = Append(evq, "CC")
      BY <2>2, <2>3, <2>5
    <3>2. /\ Ordered(evq') /\ Has(evq', "CC")
          /\ Has(evq, "C") => Has(evq', "C")
          /\ Quiet(evq) => Quiet(evq')
      BY <1>u, <3>1, PushQueue DEF EInv, Events
    <3> QED
      BY <2>1, <2>2, <2>5, <3>2 DEF EInv
  <2> QED
    BY <2>4, <2>5
<1> QED
  BY <1>1, <1>2, <1>3, <1>4, <1>5, <1>6, <1>8, <1>9 DEF Env

LEMMA ShardEInv == IInv /\ EInv /\ Shard => EInv'
<1> SUFFICES ASSUME IInv, EInv, Shard PROVE EInv'
  OBVIOUS
<1>u. /\ evq \in Seq(Events) /\ closed \in BOOLEAN /\ dead \in BOOLEAN
      /\ (Owned(Flow) <=> tcp.fate = "open")
      /\ Flow'.s = stream' /\ Flow'.k = tcp' /\ Flow'.r = relay' /\ Flow'.dead = dead'
  BY Unfold, FlowFields DEF IInv, Events, Owned, Flow
<1>1. CASE TcpRx \/ TcpRxEof \/ TcpTx \/ TcpError
  <2>1. Owned(Flow) /\ Step(dead) /\ UNCHANGED <<evq, closed>>
    BY <1>1, TcpRxIInv, TcpRxEofIInv, TcpTxIInv, TcpErrorIInv
       DEF TcpRx, TcpRxEof, TcpTx, TcpError
  <2> QED
    BY <1>u, <2>1, SameQueue
<1>2. CASE DriveBegin
  BY <1>2, QueueStays DEF DriveBegin
<1>3. CASE DispatchStream
  <2>1. /\ evq # <<>> /\ evq' = Tail(evq) /\ Head(evq) \in {"R", "W", "C"}
        /\ closed' <=> (closed \/ (Head(evq) = "C" /\ (Owned(Flow) \/ dead)))
    <3>1. /\ evq # <<>> /\ evq' = Tail(evq) /\ Head(evq) # "CC"
          /\ closed' = (closed \/ (Head(evq) = "C" /\ (Owned(Flow) \/ dead)))
      BY <1>3 DEF DispatchStream
    <3>2. Head(evq) \in Events
      BY <1>u, <3>1
    <3>3. Head(evq) \in {"R", "W", "C"}
      BY <3>1, <3>2 DEF Events
    <3> QED
      BY <3>1, <3>3
  <2>2. /\ Ordered(evq') /\ (Quiet(evq) => Quiet(evq'))
        /\ Head(evq) = "C" => Quiet(evq')
        /\ Has(evq, "C") <=> (Head(evq) = "C" \/ Has(evq', "C"))
        /\ Has(evq, "CC") <=> Has(evq', "CC")
    BY <1>u, <2>1, TailQueue DEF EInv, Events
  <2>3. CASE Owned(Flow) /\ Head(evq) # "C"
    <3>1. Step(dead)
      BY <1>3, <2>3, LevelStep
    <3>2. /\ stream'.cond = stream.cond /\ (relay'.gone <=> relay.gone)
          /\ tcp'.fate = "open" => (dead' <=> dead)
          /\ tcp'.fate # "open" => (dead' <=> (dead \/ ~relay.gone))
      BY <1>u, <3>1, FlowFields DEF Step, Handled, Carries
    <3> QED
      BY <1>u, <2>1, <2>2, <2>3, <3>2 DEF EInv
  <2>4. CASE Owned(Flow) /\ Head(evq) = "C"
    <3>1. Handled(Flow, dead, Flow') /\ (relay'.gone \/ (tcp'.fate # "open" /\ dead'))
      BY <1>3, <2>4, ClosedStep
    <3>2. stream'.cond = stream.cond
      BY <1>u, <3>1, FlowFields DEF Handled, Carries
    <3>3. stream.cond = "released" /\ Quiet(evq') /\ closed'
      BY <2>1, <2>2, <2>4 DEF EInv
    <3> QED
      BY <2>2, <3>1, <3>2, <3>3 DEF EInv
  <2>5. CASE ~Owned(Flow)
    <3>1. UNCHANGED <<relay, stream, tcp, dead>>
      BY <1>3, <2>5, FlowFields DEF DispatchStream, Become
    <3>2. Head(evq) = "C" => stream.cond = "released" /\ Quiet(evq')
      BY <2>2 DEF EInv
    <3> QED
      BY <1>u, <2>1, <2>2, <2>5, <3>1, <3>2 DEF EInv
  <2> QED
    BY <2>3, <2>4, <2>5
<1>4. CASE DispatchConnClosed
  <2>1. evq # <<>> /\ evq' = Tail(evq) /\ Head(evq) = "CC" /\ closed' = closed
    BY <1>4 DEF DispatchConnClosed
  <2>2. Ordered(evq') /\ Quiet(evq') /\ Has(evq, "CC")
    BY <1>u, <2>1, TailQueue DEF EInv, Events
  <2>3. tcp'.fate # "open" /\ dead' = FALSE /\ stream'.cond = stream.cond
    BY <1>4, <1>u, SweepStep, FlowFields DEF Carries
  <2>4. stream.cond = "released"
    BY <2>2 DEF EInv
  <2> QED
    BY <2>2, <2>3, <2>4 DEF EInv
<1>5. CASE DriveEnd
  <2>1. evq = <<>> /\ evq' = evq /\ closed' = FALSE
    BY <1>5 DEF DriveEnd
  <2>2. ~Has(evq, "C") /\ ~Has(evq, "CC") /\ Quiet(evq)
    BY <2>1 DEF Has, Quiet
  <2>3. CASE Owned(Flow)
    <3>1. Step(dead /\ ~closed)
      BY <1>5, <2>3, PumpStep
    <3>2. /\ stream'.cond = stream.cond /\ (relay'.gone <=> relay.gone)
          /\ tcp'.fate = "open" => (dead' <=> (dead /\ ~closed))
          /\ tcp'.fate # "open" => (dead' <=> ((dead /\ ~closed) \/ ~relay.gone))
      BY <1>u, <3>1, FlowFields DEF Step, Handled, Carries
    <3> QED
      BY <1>u, <2>1, <2>2, <2>3, <3>2 DEF EInv
  <2>4. CASE ~Owned(Flow)
    <3>1. UNCHANGED <<relay, stream, tcp>> /\ (dead' <=> (dead /\ ~closed))
      BY <1>5, <2>4, PumpStep
    <3> QED
      BY <1>u, <2>1, <2>2, <2>4, <3>1 DEF EInv
  <2> QED
    BY <2>3, <2>4
<1> QED
  BY <1>1, <1>2, <1>3, <1>4, <1>5 DEF Shard

LEMMA NextEInv == IInv /\ EInv /\ [Next]_vars => EInv'
<1>1. EInv /\ UNCHANGED vars => EInv'
  BY DEF vars, EInv
<1> QED
  BY <1>1, EnvEInv, ShardEInv DEF Next

(* Late events of an ended relay are dropped (shard/routing.rs): whoever   *)
(* still gets events of the stream is the relay or its dead entry, and the *)
(* entry waits for a StreamClosed or ConnClosed that will come.            *)
THEOREM RelayDropsLateEvents == Spec => []LateEventsDropped
<1>1. Spec => []EInv
  BY AlwaysIInv, InitEInv, NextEInv, PTL DEF Spec
<1> QED
  BY <1>1, EInvLate, PTL
=============================================================================
