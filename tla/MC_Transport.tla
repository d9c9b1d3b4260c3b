---------------------------- MODULE MC_Transport ----------------------------
(* Parts of the transport layer and of its driver that do not share state,   *)
(* side by side: the transmit queues, the ring of an app socket, the handles *)
(* of connections and streams, the paths of a client connection, the         *)
(* driver's loop over its poller and its dials. `part` says which one runs;  *)
(* the variables of the others stay <<>>.                                    *)
EXTENDS TxQueues

CONSTANTS ConnSlots, StreamSlots, Objs, STREAM_CEILING, MaxGen, MaxEvents,
          FirstPath, Extra, MaxConns, MaxIds, MaxQueue,
          Queue, IO_BUDGET, EVENTS_CAP, DRAIN_BOUND, Traffic, Segments, PER_CALL,
          Ops, RESOLVER_SLOTS

VARIABLES part, c, s, x, q, app, p, k, lp, o, d

HD == INSTANCE Handles WITH MaxQueue <- MaxEvents
PA == INSTANCE Paths WITH Primary <- FirstPath
DL == INSTANCE DriverLoop
DD == INSTANCE DriverDials

ASSUME TransportAssumption ==
  PA!PathsAssumption /\ DL!DriverLoopAssumption /\ DD!DriverDialsAssumption

TwoAndOne == {<<1, 0>>, <<1, 1>>, <<2, 0>>}
OneSocket == {{"t"}, {"u"}, {"l"}}

(* The configuration gives Objs and Ops the same names, so that one small    *)
(* group permutes both.                                                      *)
Sym == Permutations(Objs \cup Ops)

hvars == <<c, s, x, q, app>>
Idle(v) == v = <<>>
NoHandles == Idle(c) /\ Idle(s) /\ Idle(x) /\ Idle(q) /\ Idle(app)

NoDriver == Idle(k) /\ Idle(lp) /\ Idle(o) /\ Idle(d)

MCInit ==
  \/ part = "tx" /\ TxInit /\ Idle(ring) /\ NoHandles /\ Idle(p) /\ NoDriver
  \/ part = "ring" /\ RingInit /\ Idle(tx) /\ NoHandles /\ Idle(p) /\ NoDriver
  \/ part = "handles" /\ HD!HInit /\ Idle(tx) /\ Idle(ring) /\ Idle(p) /\ NoDriver
  \/ part = "paths" /\ PA!PInit /\ Idle(tx) /\ Idle(ring) /\ NoHandles /\ NoDriver
  \/ part = "loop" /\ DL!DInit /\ Idle(tx) /\ Idle(ring) /\ NoHandles /\ Idle(p) /\ Idle(o) /\ Idle(d)
  \/ part = "dials" /\ DD!DDInit /\ Idle(tx) /\ Idle(ring) /\ NoHandles /\ Idle(p) /\ Idle(k) /\ Idle(lp)

MCNext ==
  /\ UNCHANGED part
  /\ \/ part = "tx" /\ TxNext /\ UNCHANGED <<ring, hvars, p, k, lp, o, d>>
     \/ part = "ring" /\ RingNext /\ UNCHANGED <<tx, hvars, p, k, lp, o, d>>
     \/ part = "handles" /\ HD!HNext /\ UNCHANGED <<tx, ring, p, k, lp, o, d>>
     \/ part = "paths" /\ PA!PNext /\ UNCHANGED <<tx, ring, hvars, k, lp, o, d>>
     \/ part = "loop" /\ DL!DNext /\ UNCHANGED <<tx, ring, hvars, p, o, d>>
     \/ part = "dials" /\ DD!DDNext /\ UNCHANGED <<tx, ring, hvars, p, k, lp>>

MCSpec == MCInit /\ [][MCNext]_<<part, tx, ring, hvars, p, k, lp, o, d>>

(* TxQueues: what is queued is exact, bounded and sent as it was written,    *)
(* every queue gets its turn, and no refused connection is forgotten.        *)
TransmitSound == (part = "tx" => TxSound) /\ (part = "ring" => RingSound)

(* Handles: no pointer dangles, no event is stale, lost or told twice, the   *)
(* ceiling and the claim of the thread are exact.                            *)
HandleSound == part = "handles" => HD!HandlesSound

(* Paths: no open, retry or socket outlives its connection or its slot, and  *)
(* no path is given up while the connection lives.                           *)
PathSound == part = "paths" => PA!PathsSound

(* DriverLoop: a loop asleep in its poller has nothing it could do, nothing  *)
(* is sent twice, and a shutdown ends by its cap.                            *)
LoopRuns == part = "loop" => DL!LoopSound

(* DriverDials: no descriptor leaks, the resolver's slots are exact, and an  *)
(* op has one answer, though deadline, cancel and result fall together.      *)
DialsEnd == part = "dials" => DD!DialsSound
============================================================================
