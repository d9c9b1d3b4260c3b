------------------------------ MODULE TxQueues ------------------------------
(***************************************************************************)
(* What leaves the process over UDP: xquic's write callbacks fill one      *)
(* queue per (connection, path), within a quota and a total, and a refused *)
(* connection waits to be resumed; the shard maps each queue to a socket,  *)
(* serves the queues of a socket in turn, and keeps a ring for each socket *)
(* of the application; the driver takes GSO runs and commits what it sent. *)
(*                                                                         *)
(* Sources: mq-transport txq.rs, conn.rs (drive), ffi/trampolines.rs       *)
(* (on_write); mq-runtime shard/routing.rs, shard/tx_ring.rs.              *)
(***************************************************************************)
EXTENDS Integers, Sequences, FiniteSets, FiniteSetsExt, SequencesExt, RingBuf

CONSTANTS
  Conns,        \* connections, 1 .. n in the order of their ids
  Links,        \* <<connection, path id>>; path 0 is the first of every one
  Lens, Dsts,   \* packet sizes and destinations
  QUEUE_QUOTA, QUEUE_LOW, TOTAL_HIGH,
  RUN,          \* packets of one GSO run
  TX_RING, HDR  \* the application's ring and its record header

ASSUME TxAssumption ==
  /\ Conns \subseteq Nat \ {0} /\ Links \subseteq Conns \X Nat /\ Conns \X {0} \subseteq Links
  /\ \A n \in Lens : n > 0 /\ n <= QUEUE_QUOTA - QUEUE_LOW /\ n <= TOTAL_HIGH

VARIABLES tx, ring   \* the queues; the ring of one app socket, apart from them

(* TxKey, (None, 0) first; a queue for each, in this order. *)
Unowned == <<0, 0>>
Keys == {Unowned} \cup Links
Before(a, b) == a[1] < b[1] \/ (a[1] = b[1] /\ a[2] < b[2])
First(K) == CHOOSE a \in K : \A b \in K \ {a} : Before(a, b)

(* The sockets: the primary, one for each extra path, one of the app.      *)
Primary == <<"primary", 0>>

PathSock(p) == <<"path", p>>
Socks == {Primary} \cup {PathSock(k[2]) : k \in {l \in Links : l[2] # 0}}

NotBlocked == [quota |-> {}, total |-> FALSE]

TxInit ==
  tx = [q |-> [k \in Keys |-> <<>>], bytes |-> [k \in Keys |-> 0], total |-> 0,
        blocked |-> [c \in Conns |-> NotBlocked], resumable |-> {},
        live |-> Conns, waiting |-> {},
        paths |-> [k \in Keys |-> "none"], cursor |-> [s \in Socks |-> <<>>],
        kept |-> TRUE, passed |-> [k \in Keys |-> 0]]

NoRecord == [len |-> 0, dst |-> 0]

(* `data` has a record where its header was written, `owed` is the history *)
(* of what the app sent and the driver did not take yet.                   *)
RingInit ==
  ring = [buf |-> EmptyRing, data |-> [i \in 0 .. TX_RING - 1 |-> NoRecord], owed |-> <<>>]

Lengths(s) == [i \in DOMAIN s |-> s[i].len]
Total(s) == FoldSeq(LAMBDA a, b : a + b, 0, s)

-----------------------------------------------------------------------------
(* TxQueues *)

Append1(x, k, pkt) ==
  [x EXCEPT !.q[k] = Append(@, pkt), !.bytes[k] = @ + pkt.len, !.total = @ + pkt.len]

(* push: the quota of the queue, then the total. *)
Refusal(x, k, n) ==
  IF x.bytes[k] + n > QUEUE_QUOTA THEN "quota"
  ELSE IF x.total + n > TOTAL_HIGH THEN "total" ELSE "none"

RecordBlocked(x, c, k, why) ==
  [x EXCEPT !.blocked[c] = IF why = "quota" THEN [@ EXCEPT !.quota = @ \cup {k}] ELSE [@ EXCEPT !.total = TRUE]]

(* resumption_pass: either reason clears the whole entry.  K is the queue  *)
(* that was drained, or empty.                                             *)
Clears(x, b, K) ==
  \/ \E k \in K : k \in b.quota /\ x.bytes[k] < QUEUE_LOW
  \/ b.total /\ x.total < TOTAL_HIGH

ResumptionPass(x, K) ==
  LET ready == {c \in Conns : Clears(x, x.blocked[c], K)}
  IN [x EXCEPT !.blocked = [c \in Conns |-> IF c \in ready THEN NotBlocked ELSE @[c]],
               !.resumable = @ \cup ready]

(* done: n packets from the head. *)
Done(x, k, n) ==
  LET freed == Total(Lengths(SubSeq(x.q[k], 1, n)))
  IN ResumptionPass([x EXCEPT !.q[k] = SubSeq(@, n + 1, Len(@)), !.bytes[k] = @ - freed, !.total = @ - freed], {k})

DropConn(x, c) ==
  LET mine == {k \in Keys : k[1] = c}
      freed == FoldSet(LAMBDA k, n : n + x.bytes[k], 0, mine)
  IN ResumptionPass(
       [x EXCEPT !.q = [k \in Keys |-> IF k \in mine THEN <<>> ELSE @[k]],
                 !.bytes = [k \in Keys |-> IF k \in mine THEN 0 ELSE @[k]], !.total = @ - freed,
                 !.blocked[c] = NotBlocked, !.resumable = @ \ {c}], {})

(* peek: one destination, one size, at most RUN; a shorter one ends it. *)
RunOf(s) ==
  LET ends(i) == i > RUN \/ s[i].dst # s[1].dst \/ s[i].len > s[1].len
      stop == {i \in 1 .. Len(s) : ends(i) \/ (i > 1 /\ s[i - 1].len < s[1].len)}
  IN IF stop = {} THEN s ELSE SubSeq(s, 1, Min(stop) - 1)

-----------------------------------------------------------------------------
(* The write callbacks *)

(* A path has one peer; packets without a connection go anywhere. *)
Peer == CHOOSE d \in Dsts : TRUE

(* write_socket, write_socket_ex of a live connection: refused is EAGAIN.  *)
Write ==
  \E k \in Links, n \in Lens :
    LET c == k[1]
        d == Peer
        why == Refusal(tx, k, n)
    IN /\ c \in tx.live /\ (k[2] # 0 => tx.paths[k] # "none")
       /\ tx' = IF why = "none" THEN Append1(tx, k, [len |-> n, dst |-> d])
                ELSE [RecordBlocked(tx, c, k, why) EXCEPT !.waiting = @ \cup {c}]

(* conn_send_packet_before_accept, stateless_reset, a dead connection:     *)
(* push_or_drop.                                                           *)
WriteUnowned ==
  \E n \in Lens, d \in Dsts :
    /\ Refusal(tx, Unowned, n) = "none"
    /\ tx' = Append1(tx, Unowned, [len |-> n, dst |-> d])

(* drive: continue_send on each resumable connection. *)
Drive ==
  /\ tx.resumable # {}
  /\ tx' = [tx EXCEPT !.waiting = @ \ tx.resumable, !.resumable = {}]

(* on_conn_close, on_server_refuse, with close_conn_sockets: the paths'    *)
(* mappings go too.                                                        *)
CloseConn ==
  \E c \in tx.live :
    tx' = [DropConn(tx, c) EXCEPT !.live = @ \ {c}, !.waiting = @ \ {c},
                                  !.paths = [k \in Keys |-> IF k[1] = c /\ @[k] # "none" THEN "closed" ELSE @[k]]]

-----------------------------------------------------------------------------
(* The shard *)

(* map_path, and close_path_socket: a path is mapped once. *)
MapPath ==
  \E k \in Keys :
    /\ k[1] \in tx.live /\ k[2] # 0 /\ tx.paths[k] = "none"
    /\ tx' = [tx EXCEPT !.paths[k] = "mapped"]

ClosePathSocket ==
  \E k \in Keys : tx.paths[k] = "mapped" /\ tx' = [tx EXCEPT !.paths[k] = "closed"]

(* socket_for: a queue with no mapping uses the primary. *)
SocketFor(x, k) == IF x.paths[k] = "mapped" THEN PathSock(k[2]) ELSE Primary

(* pending_transmit *)
Pending(x, s) == {k \in Keys : x.bytes[k] > 0 /\ SocketFor(x, k) = s}

(* Mutant: the first queue of the socket, whichever went last. *)
NextKeyFirst(x, s) == First(Pending(x, s))

(* peek_transmit: the next after the cursor, or the first. *)
NextKey(x, s) ==
  LET K == Pending(x, s)
      after == {k \in K : x.cursor[s] # <<>> /\ Before(x.cursor[s], k)}
  IN First(IF after # {} THEN after ELSE K)

(* The kernel cuts a GSO payload at the segment size. *)
Chunks(run) ==
  LET seg == run[1].len
      sum == Total(Lengths(run))
  IN [i \in 1 .. (sum + seg - 1) \div seg |-> IF sum - (i - 1) * seg < seg THEN sum - (i - 1) * seg ELSE seg]

(* History: what the kernel makes of a run is the packets xquic wrote. *)
Kept(run) == Chunks(run) = Lengths(run) /\ \A i \in DOMAIN run : run[i].dst = run[1].dst

(* History: the turns other queues of its socket have had since its own.   *)
PassedBy(x, s, k) ==
  [l \in Keys |-> CASE l = k \/ x.bytes[l] = 0 -> 0
                    [] l \in Pending(x, s) \ {k} -> Min({x.passed[l] + 1, Cardinality(Keys) + 1})
                    [] OTHER -> x.passed[l]]

(* peek_transmit, the send, transmit_done: all of it (also when it failed) *)
(* or what went before the socket blocked.  The peek moves the cursor, so  *)
(* a queue whose send blocked with nothing sent has had its turn: it is    *)
(* not the first to be tried when the socket is writable again.            *)
Transmit(s) ==
  /\ Pending(tx, s) # {}
  /\ LET k == NextKey(tx, s)
         run == RunOf(tx.q[k])
     IN \E n \in 0 .. Len(run) :
          tx' = [(IF n = 0 THEN tx ELSE Done(tx, k, n)) EXCEPT
                   !.cursor[s] = k, !.passed = PassedBy(tx, s, k),
                   !.kept = @ /\ Kept(run)]

(* udp_send on an app socket: nothing is written for an empty datagram,    *)
(* which udp_tx could not take, nor for a record that does not fit behind  *)
(* the write cursor.                                                       *)
UdpSend ==
  \E n \in Lens \cup {0}, d \in Dsts :
    LET rec == [len |-> n, dst |-> d]
    IN /\ n > 0
       /\ Space(TX_RING, ring.buf) >= HDR + n
       /\ ring' = [ring EXCEPT !.buf = Commit(@, HDR + n), !.data[ring.buf.w] = rec,
                               !.owed = Append(@, rec)]

(* peek_transmit and transmit_done on an app socket: the record whose      *)
(* header lies at the read cursor, and its pop.                            *)
TransmitApp ==
  /\ ~IsEmpty(ring.buf)
  /\ LET rec == ring.data[ring.buf.r]
     IN ring' = [ring EXCEPT !.buf = Consume(@, HDR + rec.len), !.owed = Tail(@)]

TxNext ==
  \/ Write \/ WriteUnowned \/ Drive \/ CloseConn \/ MapPath \/ ClosePathSocket
  \/ \E s \in Socks : Transmit(s)

RingNext == UdpSend \/ TransmitApp

TxSpec == TxInit /\ [][TxNext]_tx
RingSpec == RingInit /\ [][RingNext]_ring

-----------------------------------------------------------------------------
(* Properties *)

(* The books: bytes and total are what the queues hold, within bounds;     *)
(* nothing of a dead connection.                                           *)
Accounts ==
  /\ \A k \in Keys : tx.bytes[k] = Total(Lengths(tx.q[k])) /\ tx.bytes[k] <= QUEUE_QUOTA
  /\ tx.total = FoldSet(LAMBDA k, n : n + tx.bytes[k], 0, Keys) /\ tx.total <= TOTAL_HIGH
  /\ \A k \in Keys : k[1] \in Conns \ tx.live => tx.q[k] = <<>>
  /\ tx.resumable \subseteq tx.live

(* The datagrams the kernel makes of a run are the packets xquic wrote.    *)
BoundariesKept == tx.kept

(* A refused connection has a way back: it is resumable, or some queue     *)
(* that still has to be sent will resume it.                               *)
WayBack ==
  \A c \in tx.waiting :
    \/ c \in tx.resumable
    \/ \E k \in tx.blocked[c].quota : tx.bytes[k] >= QUEUE_LOW
    \/ tx.blocked[c].total /\ tx.total > 0

(* Every queue gets its turn, whatever the others are fed and however the  *)
(* sends end: between two of its turns each other queue of the socket has  *)
(* one.  A turn is a peek, and one the socket blocks is lost, so this does *)
(* not say that a queue is served: a socket that blocks at the same queue  *)
(* in every round starves it.                                              *)
InTurn == \A k \in Keys : tx.passed[k] <= Cardinality(Keys)

(* However sends, pops and the return of the cursors fall: the oldest      *)
(* record the driver finds is the oldest one owed, and one it can send;    *)
(* the bytes between the cursors are the records owed, and an empty ring   *)
(* has all its room again.                                                 *)
RingSound ==
  /\ ring.owed # <<>> =>
       LET rec == ring.data[ring.buf.r] IN rec = Head(ring.owed) /\ rec.len > 0
  /\ RLen(ring.buf) = Len(ring.owed) * HDR + Total(Lengths(ring.owed))
  /\ ring.owed = <<>> => Space(TX_RING, ring.buf) = TX_RING

(* What is queued is exact, bounded and sent as it was written, in turn,   *)
(* and no refused connection is forgotten.                                 *)
TxSound == Accounts /\ BoundariesKept /\ WayBack /\ InTurn
=============================================================================
