---------------------------- MODULE UdpFragments ----------------------------
(***************************************************************************)
(* One direction of one UDP session over QUIC DATAGRAMs, shared by client  *)
(* and server: the sender's MSS cache and fragment policy (udp/send.rs on  *)
(* mq-wire's split), its packet_id, and the receiver's four-slot           *)
(* defragmenter (udp/defrag.rs).  The connection between them loses,       *)
(* delays and reorders datagrams but never repeats one: a fragment still   *)
(* in net at the end is a lost one.                                        *)
(*                                                                         *)
(* Packets are numbered by n, the count of splits, which the code does not *)
(* keep; it keeps n modulo 2^16 (PacketIds).  Lengths are small numbers.   *)
(***************************************************************************)
EXTENDS Integers, Sequences, FiniteSets, SequencesExt, Functions

CONSTANTS
  PacketIds,    \* packet_id is counted modulo this (2^16 in the code)
  SLOTS,        \* slots of a Defrag
  MAX_TOTAL,    \* the largest reassembled packet
  MaxFrags,     \* the largest frag_count (255 in the code)
  UDP_MSG_HDR,  \* header bytes of a datagram
  MSS_REFRESH,  \* accepted datagrams between two readings of the MSS
  MssValues,    \* bound: what datagram_mss may report
  Sizes,        \* bound: payload lengths
  MaxPackets,   \* bound: packets handed to send_packet
  MaxNet,       \* bound: datagrams in flight
  MaxChanges,   \* bound: changes of the MSS
  None          \* no fragment

ASSUME FragmentAssumption ==
  /\ PacketIds \in Nat \ {0} /\ SLOTS \in Nat \ {0}
  /\ MAX_TOTAL \in Nat /\ MaxFrags \in Nat \ {0}
  /\ UDP_MSG_HDR \in Nat /\ MSS_REFRESH \in Nat \ {0}
  /\ MssValues \subseteq Nat /\ Sizes \subseteq 0 .. MAX_TOTAL
  /\ MaxPackets \in Nat /\ MaxNet \in Nat /\ MaxChanges \in Nat /\ None \notin Nat

VARIABLES
  mss,        \* what datagram_mss reports now
  changes,    \* how often it changed
  cache,      \* MssCache: value, countdown
  packet_id,  \* the session's next packet_id
  sent,       \* packets handed to send_packet
  packets,    \* history: what was split, by n
  net,        \* datagrams in flight
  slots,      \* Defrag's slots, least recently fed first
  fed,        \* history: the fragments of packet n that feed was given
  since,      \* history: the split packets fed after packet n last was
  outrun,     \* history: packets that SLOTS others came between
  delivered   \* history: the packets feed completed, as the fragments used

vars == <<mss, changes, cache, packet_id, sent, packets, net, slots, fed, since, outrun, delivered>>

Init ==
  /\ mss \in MssValues /\ changes = 0
  /\ cache = [value |-> 0, countdown |-> 0]
  /\ packet_id = 0 /\ sent = 0
  /\ packets = <<>> /\ net = {} /\ slots = <<>>
  /\ fed = <<>> /\ since = <<>> /\ outrun = {} /\ delivered = {}

----------------------------------------------------------------------------
(* Sending.                                                                *)

(* MssCache::payload: the reading, refreshed when unusable or worn out. *)
Reading ==
  IF cache.value = 0 \/ cache.countdown = 0
  THEN [value |-> mss, countdown |-> MSS_REFRESH]
  ELSE cache

(* MssCache::payload: the payload bytes of a datagram, saturating at zero. *)
Payload(c) == IF c.value > UDP_MSG_HDR THEN c.value - UDP_MSG_HDR ELSE 0

(* split: the number of fragments of size bytes, at least one. *)
FragCount(size, payload) ==
  IF size = 0 THEN 1 ELSE (size + payload - 1) \div payload

(* split: the length of fragment i. *)
FragLen(size, payload, i) ==
  IF (i + 1) * payload <= size THEN payload ELSE size - i * payload

(* split: the fragments of packet n. *)
Split(n, size, payload) ==
  LET count == FragCount(size, payload)
  IN  {[n |-> n, packet_id |-> packet_id, frag_id |-> i, frag_count |-> count,
        len |-> FragLen(size, payload, i)] : i \in 0 .. count - 1}

(* MssCache::emitted, k times. *)
Emitted(c, k) == [c EXCEPT !.countdown = IF @ > k THEN @ - k ELSE 0]

(* datagram_send accepts what fits the MSS of the moment, and may refuse   *)
(* that too.                                                               *)
Fits(f) == f.len + UDP_MSG_HDR <= mss

(* Mutant: a packet that lost a fragment gives its packet_id back. *)
MutNextPacketId(ok, count) ==
  IF ok = count THEN (packet_id + 1) % PacketIds ELSE packet_id

(* session_send, udp_reply: packet_id moves iff the split ran. *)
NextPacketId(ok, count) == (packet_id + 1) % PacketIds

(* send_packet: every fragment is tried, whatever became of the others. *)
SendSplit(size) ==
  LET c == Reading
      frags == Split(sent + 1, size, Payload(c))
  IN  /\ sent < MaxPackets
      /\ Payload(c) > 0 /\ FragCount(size, Payload(c)) <= MaxFrags
      /\ \E ok \in SUBSET {f \in frags : Fits(f)} :
           /\ Cardinality(net) + Cardinality(ok) <= MaxNet
           /\ net' = net \cup ok
           /\ cache' = Emitted(c, Cardinality(ok))
           /\ packet_id' = NextPacketId(Cardinality(ok), Cardinality(frags))
      /\ sent' = sent + 1
      /\ packets' = Append(packets, frags)
      /\ fed' = Append(fed, {})
      /\ since' = Append(since, {})
      /\ UNCHANGED <<mss, changes, slots, outrun, delivered>>

(* send_packet: an unusable MSS, or too many fragments: nothing is sent    *)
(* and packet_id stays.                                                    *)
SendDropped(size) ==
  LET c == Reading
  IN  /\ \/ Payload(c) = 0
         \/ Payload(c) > 0 /\ FragCount(size, Payload(c)) > MaxFrags
      /\ cache' = c
      /\ UNCHANGED <<mss, changes, packet_id, sent, packets, net, slots, fed, since, outrun, delivered>>

(* The MSS of the active paths changes. *)
MssChanges ==
  /\ changes < MaxChanges
  /\ mss' \in MssValues \ {mss}
  /\ changes' = changes + 1
  /\ UNCHANGED <<cache, packet_id, sent, packets, net, slots, fed, since, outrun, delivered>>

----------------------------------------------------------------------------
(* Receiving.                                                              *)

EmptySlot(f) ==
  [packet_id |-> f.packet_id, total_len |-> 0,
   frags |-> [i \in 1 .. f.frag_count |-> None]]

SlotOf(id) == {i \in DOMAIN slots : slots[i].packet_id = id}

Matches(slot, f) == Len(slot.frags) = f.frag_count

(* A full table gives up its least recently fed slot. *)
MakeRoom(s) == IF Len(s) < SLOTS THEN s ELSE Tail(s)

(* The slot of f, touched or new, moves to the end. *)
Touched(f) ==
  IF SlotOf(f.packet_id) # {}
  THEN LET i == CHOOSE i \in SlotOf(f.packet_id) : TRUE
       IN  Append(RemoveAt(slots, i), slots[i])
  ELSE Append(MakeRoom(slots), EmptySlot(f))

Store(slot, f) ==
  [slot EXCEPT !.frags[f.frag_id + 1] = f, !.total_len = @ + f.len]

Received(slot) == {i \in DOMAIN slot.frags : slot.frags[i] # None}

(* History: fragment f was fed. *)
Log(f) ==
  /\ fed' = [fed EXCEPT ![f.n] = @ \cup {f}]
  /\ IF f.frag_count = 1
     THEN UNCHANGED <<since, outrun>>
     ELSE /\ since' = [n \in DOMAIN since |->
                         IF n = f.n THEN {} ELSE since[n] \cup {f.n}]
          /\ outrun' = outrun \cup {n \in {f.n} : fed[n] # {} /\ Cardinality(since[n]) >= SLOTS}

Overflows(slot, f) == slot.total_len + f.len > MAX_TOTAL

Repeated(slot, f) == slot.frags[f.frag_id + 1] # None

(* Defrag::feed of an unfragmented packet: no slot is touched. *)
FeedWhole(f) ==
  /\ f.frag_count = 1
  /\ delivered' = delivered \cup {<<f>>}
  /\ UNCHANGED slots

(* Defrag::feed: another packet holds the packet_id; its slot is dropped. *)
FeedMismatch(f) ==
  /\ f.frag_count > 1
  /\ \E i \in SlotOf(f.packet_id) :
       ~Matches(slots[i], f) /\ slots' = RemoveAt(slots, i)
  /\ UNCHANGED delivered

(* Defrag::feed into the packet's slot, which ends with the packet: first  *)
(* a repeated fragment is ignored, then an overflow drops the slot.        *)
FeedSlot(f) ==
  LET all == Touched(f)
      slot == Last(all)
      stored == Store(slot, f)
      complete == Cardinality(Received(stored)) = Len(stored.frags)
  IN  /\ f.frag_count > 1
      /\ \A i \in SlotOf(f.packet_id) : Matches(slots[i], f)
      /\ \/ /\ Repeated(slot, f)
            /\ slots' = all /\ UNCHANGED delivered
         \/ /\ ~Repeated(slot, f) /\ Overflows(slot, f)
            /\ slots' = Front(all) /\ UNCHANGED delivered
         \/ /\ ~Repeated(slot, f) /\ ~Overflows(slot, f) /\ ~complete
            /\ slots' = Append(Front(all), stored) /\ UNCHANGED delivered
         \/ /\ ~Repeated(slot, f) /\ ~Overflows(slot, f) /\ complete
            /\ slots' = Front(all) /\ delivered' = delivered \cup {stored.frags}

(* A datagram arrives. *)
Feed(f) ==
  /\ net' = net \ {f}
  /\ Log(f)
  /\ FeedWhole(f) \/ FeedMismatch(f) \/ FeedSlot(f)
  /\ UNCHANGED <<mss, changes, cache, packet_id, sent, packets>>

Next ==
  \/ \E size \in Sizes : SendSplit(size) \/ SendDropped(size)
  \/ MssChanges
  \/ \E f \in net : Feed(f)

Spec == Init /\ [][Next]_vars

----------------------------------------------------------------------------
Fragments ==
  [n : 1 .. MaxPackets, packet_id : 0 .. PacketIds - 1,
   frag_id : 0 .. MaxFrags - 1, frag_count : 1 .. MaxFrags, len : 0 .. MAX_TOTAL]

(* The values of the sender's and the receiver's state; a slot is begun,   *)
(* unfinished and within MAX_TOTAL, and no two slots have one packet_id.   *)
TypeOK ==
  /\ mss \in MssValues
  /\ cache \in [value : MssValues \cup {0}, countdown : 0 .. MSS_REFRESH]
  /\ packet_id \in 0 .. PacketIds - 1
  /\ sent \in 0 .. MaxPackets
  /\ Len(packets) = sent /\ \A n \in 1 .. sent : packets[n] \subseteq Fragments
  /\ net \subseteq Fragments
  /\ Len(slots) <= SLOTS
  /\ \A i \in DOMAIN slots :
       /\ slots[i].total_len \in 0 .. MAX_TOTAL
       /\ Cardinality(Received(slots[i])) \in 1 .. Len(slots[i].frags) - 1
       /\ \A j \in DOMAIN slots : slots[i].packet_id = slots[j].packet_id => i = j

(* The fragments a delivered packet was put together from are those of one *)
(* packet, all of them and in their order, unless packet_id wrapped around *)
(* between the packets they come from.  feed matches by packet_id alone    *)
(* and slots never expire, so this rests on the sender's packet_id moving  *)
(* for every split, failed fragments or not.                               *)
MixedOnlyAcrossWrap ==
  \A d \in delivered :
    (\A i, j \in DOMAIN d : d[i].n - d[j].n < PacketIds) =>
      /\ Range(d) = packets[d[1].n]
      /\ \A i \in DOMAIN d : d[i].frag_id = i - 1

(* A packet all of whose fragments reach feed is delivered, whatever was   *)
(* lost or reordered around it, unless fragments of SLOTS other packets    *)
(* came between two of its own: the unfinished packets of the past age out *)
(* of the slots before it does.                                            *)
NothingLostInSlots ==
  sent <= PacketIds =>
    \A n \in 1 .. sent :
      fed[n] = packets[n] /\ n \notin outrun =>
        \E d \in delivered : Range(d) = packets[n]

(* No fragment is delivered twice, and every delivered packet fits a UDP   *)
(* datagram, even one put together across a wrap of packet_id: the length  *)
(* check of feed.                                                          *)
DeliveredOnce ==
  \A d, e \in delivered :
    /\ Range(d) \cap Range(e) # {} => d = e
    /\ FoldLeft(LAMBDA t, f : t + f.len, 0, d) <= MAX_TOTAL

=============================================================================
