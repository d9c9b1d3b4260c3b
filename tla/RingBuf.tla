------------------------------ MODULE RingBuf ------------------------------
(***************************************************************************)
(* The byte buffer of mq-transport-api/src/ringbuf.rs.  It is linear, not  *)
(* wrapping: the room left is the tail after the write cursor, and both    *)
(* cursors go back to 0 only when everything written has been consumed.    *)
(* Bytes carry no value here: a buffer is its two cursors.                 *)
(***************************************************************************)
EXTENDS Naturals

(* A buffer of capacity cap. *)
Ring(cap) == { b \in [r : 0..cap, w : 0..cap] : b.r <= b.w }

EmptyRing == [r |-> 0, w |-> 0]

RLen(b) == b.w - b.r

IsEmpty(b) == b.r = b.w

(* Mutant: room as if the buffer wrapped. *)
SpaceWrapping(cap, b) == cap - RLen(b)

Space(cap, b) == cap - b.w

Commit(b, n) == [b EXCEPT !.w = @ + n]

Consume(b, n) ==
  IF b.r + n = b.w THEN EmptyRing ELSE [b EXCEPT !.r = @ + n]

=============================================================================
