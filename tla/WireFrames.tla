----------------------------- MODULE WireFrames -----------------------------
(***************************************************************************)
(* The control frames of mq-wire (frames.rs, varint.rs) and the loop every  *)
(* reader of one runs: receive what the stream has, decode the whole buffer *)
(* again, wait on `Short`, take a frame of at most MAX_FRAME bytes          *)
(* (AUTH_REQUEST and `parse_request` in server/mod.rs, AUTH_RESPONSE and    *)
(* CONNECT_TCP_RESPONSE in client/mod.rs, UDP_SESSION_RESP in               *)
(* client/udp_session.rs).                                                  *)
(*                                                                         *)
(* Bytes are 0..255 and varints have their real widths; values stay below   *)
(* 2^30, so the 8-byte form is only read. The length caps are scaled.       *)
(***************************************************************************)
EXTENDS Naturals, SequencesExt

CONSTANTS
  MAX_FRAME,       \* 512 in the code
  MAX_STRING,      \* the cap of a string field (63 or 255)
  SID_MAX,         \* the largest session id (u32)
  Ints, Strings,   \* the field values enumerated
  Forms            \* the varint widths a peer may use: 0 is the shortest

ASSUME FrameAssumption ==
  /\ {MAX_FRAME, MAX_STRING, SID_MAX} \subseteq Nat
  /\ Ints \subseteq 0..(2^30 - 1) /\ Forms \subseteq {0, 1, 2, 4, 8}

VARIABLE w   \* [frame, vals, whole, size, legal, rest: not yet arrived, rx, fin, got]

----------------------------------------------------------------------------
(* varint.rs                                                                *)

VarLen(v) == IF v <= 63 THEN 1 ELSE IF v <= 16383 THEN 2 ELSE 4

Prefix == (1 :> 0) @@ (2 :> 64) @@ (4 :> 128) @@ (8 :> 192)

BigEndian(v, n) ==
  [i \in 1..n |-> IF n - i > 3 THEN 0 ELSE (v \div 256^(n - i)) % 256]

VarEncode(v, n) ==
  LET b == BigEndian(v, n) IN [b EXCEPT ![1] = (@ % 64) + Prefix[n]]

(* A result read at an offset: the value and what follows, or an error. *)
Read(v, off) == [err |-> "", v |-> v, off |-> off]
Err(e) == [err |-> e, v |-> 0, off |-> 0]
Short == Err("Short")

VarDecode(buf, off) ==
  LET n == IF off > Len(buf) THEN 1 ELSE 2^(buf[off] \div 64)
  IN IF off + n - 1 > Len(buf) THEN Short
     ELSE Read(FoldLeft(LAMBDA a, b : a * 256 + b, buf[off] % 64,
                        SubSeq(buf, off + 1, off + n - 1)), off + n)

----------------------------------------------------------------------------
(* frames.rs: a frame is its list of fields.                                *)

AuthReq == <<"varint", "string", "string", "varint">>
AuthResp == <<"u8", "varint", "string", "varint">>
ConnectTcpReq == <<"varint", "atype", "string", "u16">>
ConnectTcpResp == <<"u8", "varint", "string">>
UdpSessionOpen == <<"sid", "varint", "udp atype", "string", "u16", "varint">>
UdpSessionResp == <<"u8", "code", "string", "varint">>

(* `parse_request`: a stream opens with its type, which counts in MAX_FRAME. *)
OpenTcp == <<"tcp type">> \o ConnectTcpReq
OpenUdp == <<"udp type">> \o UdpSessionOpen

Frames == {AuthReq, AuthResp, OpenTcp, ConnectTcpResp, OpenUdp, UdpSessionResp}

StreamType == "tcp type" :> 1 @@ "udp type" :> 2

AddrTypes == {1, 3, 4}
UdpStatusCodeValid(status, code) ==
  (status = 0 /\ code = 0) \/ (status = 1 /\ code \in 1..4)

(* `Cursor`: a field of n raw bytes, an integer of n bytes, a string. *)
ReadBytes(buf, off, n) ==
  IF off + n - 1 > Len(buf) THEN Short ELSE Read(SubSeq(buf, off, off + n - 1), off + n)

ReadInt(buf, off, n) ==
  LET b == ReadBytes(buf, off, n)
  IN IF b.err # "" THEN b ELSE Read(FoldLeft(LAMBDA a, x : a * 256 + x, 0, b.v), b.off)

(* Over the cap is an error before the bytes are required. *)
ReadString(buf, off) ==
  LET n == VarDecode(buf, off)
  IN IF n.err # "" THEN n
     ELSE IF n.v > MAX_STRING THEN Err("BadValue")
     ELSE ReadBytes(buf, n.off, n.v)

Require(read, ok, e) == IF read.err = "" /\ ~ok THEN Err(e) ELSE read

(* One field; c holds the values read so far. *)
ReadField(buf, c, k) ==
  LET int == VarDecode(buf, c.off) byte == ReadInt(buf, c.off, 1)
  IN CASE k = "varint" -> int
       [] k = "u8" -> byte
       [] k = "u16" -> ReadInt(buf, c.off, 2)
       [] k = "string" -> ReadString(buf, c.off)
       [] k = "atype" -> Require(byte, byte.v \in AddrTypes, "BadValue")
       [] k = "udp atype" -> Require(byte, byte.v \in AddrTypes, "Invalid")
       [] k \in DOMAIN StreamType -> Require(int, int.v = StreamType[k], "Bad")
       [] k = "sid" -> Require(int, int.v <= SID_MAX, "Invalid")
       [] k = "code" -> Require(int, UdpStatusCodeValid(c.vals[1], int.v), "Invalid")

(* A mutant: the padding is counted, not skipped. *)
FinishKeepsPadding(buf, c) ==
  LET pad == VarDecode(buf, c.off)
  IN IF c.err # "" THEN c
     ELSE IF pad.err # "" THEN pad
     ELSE [err |-> "", vals |-> c.vals, used |-> pad.off - 1]

(* The padding: its length, then that many bytes skipped. *)
Finish(buf, c) ==
  LET pad == VarDecode(buf, c.off)
      skip == ReadBytes(buf, pad.off, pad.v)
  IN IF c.err # "" THEN c
     ELSE IF pad.err # "" THEN pad
     ELSE IF skip.err # "" THEN skip
     ELSE [err |-> "", vals |-> c.vals, used |-> skip.off - 1]

Decode(frame, buf) ==
  LET Step(c, k) ==
        IF c.err # "" THEN c
        ELSE LET x == ReadField(buf, c, k)
             IN IF x.err # "" THEN x
                ELSE [err |-> "", off |-> x.off, vals |-> Append(c.vals, x.v)]
  IN Finish(buf, FoldLeft(Step, [err |-> "", off |-> 1, vals |-> <<>>], frame))

(* What a peer writes: `form` is the width of its varints (0: the shortest, *)
(* as our encoder), `pad` the padding it adds (none, as our encoder).       *)
Width(v, form) == IF form < VarLen(v) THEN VarLen(v) ELSE form
WriteInt(v, form) == VarEncode(v, Width(v, form))

WriteField(k, v, form) ==
  CASE k \in {"varint", "sid", "code", "tcp type", "udp type"} -> WriteInt(v, form)
    [] k \in {"u8", "atype", "udp atype"} -> <<v>>
    [] k = "u16" -> BigEndian(v, 2)
    [] k = "string" -> WriteInt(Len(v), form) \o v

Encode(frame, vals, form, pad) ==
  FoldLeft(LAMBDA a, i : a \o WriteField(frame[i], vals[i], form), <<>>,
           [i \in 1..Len(frame) |-> i])
  \o WriteInt(pad, form) \o [i \in 1..pad |-> 0]

(* The values our encoder writes at all (`TooLong`, `BadValue`). *)
Legal(frame, vals) ==
  \A i \in 1..Len(frame) :
    CASE frame[i] = "string" -> Len(vals[i]) <= MAX_STRING
      [] frame[i] \in {"atype", "udp atype"} -> vals[i] \in AddrTypes
      [] frame[i] = "sid" -> vals[i] <= SID_MAX
      [] frame[i] \in DOMAIN StreamType -> vals[i] = StreamType[frame[i]]
      [] frame[i] = "code" -> UdpStatusCodeValid(vals[1], vals[i])
      [] OTHER -> TRUE

----------------------------------------------------------------------------
(* The reader.                                                              *)

Wait == [res |-> "wait"]
Bad == [res |-> "bad"]

(* An OK UDP_SESSION_RESP with the FIN in the same read: the server has      *)
(* already ended the session, and the client closes it.                      *)
OkAtFin(frame, vals, fin) == frame = UdpSessionResp /\ vals[1] = 0 /\ fin

(* `MAX_FRAME`, complete or not. *)
Judge(frame, rx, fin) ==
  LET d == Decode(frame, rx)
  IN CASE d.err = "" /\ d.used <= MAX_FRAME /\ ~OkAtFin(frame, d.vals, fin) ->
            [res |-> "frame", vals |-> d.vals, used |-> d.used]
       [] d.err = "Short" /\ ~fin /\ Len(rx) < MAX_FRAME -> Wait
       [] OTHER -> Bad

FieldValues(k) ==
  CASE k \in {"varint", "sid"} -> Ints
    [] k \in DOMAIN StreamType -> {StreamType[k], 3}
    [] k = "code" -> {0, 1, 5}
    [] k = "u8" -> {0, 1}
    [] k \in {"atype", "udp atype"} -> {1, 2, 3}
    [] k = "u16" -> {258}
    [] k = "string" -> Strings

Tuples(sets) ==
  FoldLeft(LAMBDA acc, set : {Append(t, x) : t \in acc, x \in set}, {<<>>}, sets)

(* A frame some peer wrote, perhaps cut short, with bytes behind it. *)
FrameInit ==
  \E frame \in Frames, form \in Forms, pad \in {0, 2}, cut \in {0, 1, 3}, tail \in {<<>>, <<9>>} :
    \E vals \in Tuples([i \in 1..Len(frame) |-> FieldValues(frame[i])]) :
      LET bytes == Encode(frame, vals, form, pad)
          sent == IF cut = 0 THEN bytes \o tail ELSE SubSeq(bytes, 1, Len(bytes) - cut)
      IN w = [frame |-> frame, vals |-> vals, whole |-> sent, rest |-> sent, rx |-> <<>>,
              fin |-> FALSE, size |-> Len(bytes), legal |-> cut = 0 /\ Legal(frame, vals), got |-> Wait]

(* The next n bytes arrive, the FIN with or behind the last of them. *)
RecvFrame(n, fin) ==
  /\ w.got = Wait
  /\ n = 0 => fin
  /\ fin => n = Len(w.rest)
  /\ LET rx == w.rx \o SubSeq(w.rest, 1, n)
     IN w' = [w EXCEPT !.rx = rx, !.rest = SubSeq(@, n + 1, Len(@)), !.fin = fin,
                       !.got = Judge(w.frame, rx, fin)]

(* A byte at a time visits every cut there is; all at once is one more way. *)
FrameNext ==
  \E n \in {0, 1, Len(w.rest)} \cap 0..Len(w.rest), fin \in BOOLEAN : RecvFrame(n, fin)
FrameSpec == FrameInit /\ [][FrameNext]_w

----------------------------------------------------------------------------
(* A verdict is the one the whole stream deserves, however it was cut: no    *)
(* reader commits on a prefix it will regret or waits for bytes it has; a    *)
(* frame of legal values within MAX_FRAME is read back field for field, with *)
(* any width of varint and any padding, and what follows it is left for the  *)
(* relay to the byte; a frame over MAX_FRAME or with an illegal value is     *)
(* refused. The one verdict that depends on the cut is that of an OK answer  *)
(* to a UDP session, which is refused when the FIN comes with its last byte. *)
FramesAgree ==
  /\ w.got # Wait => w.got = Judge(w.frame, w.whole, w.fin)
  /\ w.got = Wait /\ w.legal => Len(w.rx) < w.size
  /\ w.got # Wait /\ w.legal =>
       w.got = IF w.size <= MAX_FRAME /\ ~OkAtFin(w.frame, w.vals, w.fin)
               THEN [res |-> "frame", vals |-> w.vals, used |-> w.size] ELSE Bad
  /\ w.got.res = "frame" => Legal(w.frame, w.got.vals) /\ w.got.used <= Len(w.rx)
============================================================================
