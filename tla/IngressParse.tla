---------------------------- MODULE IngressParse ----------------------------
(***************************************************************************)
(* An accepted socket reading its request: the SOCKS5 and HTTP CONNECT      *)
(* parsers (ingress/), the 8 KiB cap, and the feed loop that consumes,      *)
(* replies and hands the rest of the buffer to the relay                    *)
(* (client/ingress_glue.rs).                                                *)
(*                                                                         *)
(* A SOCKS5 byte is a number; an HTTP head is a sequence of tokens, with    *)
(* CR, LF, SP and ':' tokens of their own, so that the terminator may be    *)
(* cut anywhere. The cap and the address lengths are scaled.                *)
(***************************************************************************)
EXTENDS Naturals, SequencesExt

CONSTANTS
  INGRESS_CAP,     \* 8192 in the code
  MAX_HOST,        \* 255
  V4LEN, V6LEN     \* 4 and 16

ASSUME IngressAssumption ==
  /\ {INGRESS_CAP, MAX_HOST, V4LEN, V6LEN} \subseteq Nat

VARIABLE g   \* [req: what the peer means, rest: not yet arrived, rx, greeted,
             \*  udp: an ASSOCIATE may be served, st, target, out: replies, read]

----------------------------------------------------------------------------
(* `Progress`: how much is consumed, what is written, what it comes to.     *)
Need == [p |-> "need", consumed |-> 0]
Close == [p |-> "close", consumed |-> 0]
Refused(reply) == [p |-> "refuse", consumed |-> 0, reply |-> reply]
Go(consumed, reply) == [p |-> "go", consumed |-> consumed, reply |-> reply]
Done(consumed, target) == [p |-> "done", consumed |-> consumed, target |-> target]
Associate(consumed) == [p |-> "associate", consumed |-> consumed]

(* A mutant: a full buffer keeps waiting. *)
CappedNever(buf, p) == p

(* A full cap without a complete request closes without a reply. *)
Capped(buf, p) == IF p.p = "need" /\ Len(buf) >= INGRESS_CAP THEN Close ELSE p

Window(buf) == SubSeq(buf, 1, IF Len(buf) < INGRESS_CAP THEN Len(buf) ELSE INGRESS_CAP)

----------------------------------------------------------------------------
(* socks5.rs                                                                *)
VER == 5
CONNECT == 1
ASSOCIATE == 3
NOT_UTF8 == 255

(* VER | NMETHODS | METHODS *)
Greeting(b) ==
  IF Len(b) < 2 THEN Need
  ELSE IF b[1] # VER THEN Close
  ELSE LET total == 2 + b[2]
       IN IF Len(b) < total THEN Need
          ELSE IF 0 \notin {b[i] : i \in 3..total} THEN Refused("no method")
          ELSE Go(total, "method ok")

(* VER | CMD | RSV | ATYP | DST.ADDR | DST.PORT *)
Request(b) ==
  IF Len(b) < 4 THEN Need
  ELSE IF b[1] # VER THEN Close
  ELSE IF b[2] \notin {CONNECT, ASSOCIATE} THEN Refused("command")
  ELSE IF b[4] \notin {1, 3, 4} THEN Refused("address type")
  ELSE IF b[4] = 3 /\ Len(b) < 5 THEN Need
  ELSE LET off == IF b[4] = 3 THEN 5 ELSE 4
           len == CASE b[4] = 1 -> V4LEN [] b[4] = 4 -> V6LEN [] OTHER -> b[5]
           total == off + len + 2
           addr == SubSeq(b, off + 1, off + len)
       IN IF Len(b) < total THEN Need
          ELSE IF b[2] = ASSOCIATE THEN Associate(total)
          ELSE IF b[4] = 3 /\ NOT_UTF8 \in Range(addr) THEN Refused("address type")
          ELSE Done(total, [host |-> addr, port |-> b[total - 1] * 256 + b[total]])

----------------------------------------------------------------------------
(* http_connect.rs                                                          *)
CRLF == <<"CR", "LF">>

At(b, i, pat) == i + Len(pat) - 1 <= Len(b) /\ SubSeq(b, i, i + Len(pat) - 1) = pat
FindPat(b, pat) == Min({i \in 1..Len(b) : At(b, i, pat)} \cup {Len(b) + 1})

(* `splitn(3, ' ')` of the request line. *)
SplitLine(l) ==
  LET sp == {i \in 1..Len(l) : l[i] = "SP"}
      a == Min(sp \cup {Len(l) + 1})
      b == Min({i \in sp : i > a} \cup {Len(l) + 1})
  IN [parts |-> 1 + (IF a <= Len(l) THEN 1 ELSE 0) + (IF b <= Len(l) THEN 1 ELSE 0),
      method |-> SubSeq(l, 1, a - 1), target |-> SubSeq(l, a + 1, b - 1),
      version |-> SubSeq(l, b + 1, Len(l))]

Ports == {<<"80">>}      \* 1..5 digits, 1..65535; <<"0">>, <<"x">>, <<>> are none

(* `parse_host`: UTF-8 ("ff" is not); a bracket must close and hold an IPv6  *)
(* literal; a name is not empty and at most MAX_HOST long.                   *)
HostOk(h) ==
  /\ "ff" \notin Range(h)
  /\ IF h # <<>> /\ h[1] = "[" THEN h = <<"[", "v6", "]">> ELSE Len(h) \in 1..MAX_HOST

ParseConnect(b) ==
  LET p == FindPat(b, CRLF \o CRLF)
      line == SplitLine(SubSeq(b, 1, FindPat(b, CRLF) - 1))
      t == line.target
      colon == Max({i \in 1..Len(t) : t[i] = ":"} \cup {0})
  IN IF p > Len(b) THEN Need
     ELSE IF line.parts = 1 \/ line.method = <<>> THEN Refused("400")
     ELSE IF line.method # <<"CONNECT">> THEN Refused("405")
     ELSE IF line.parts = 2 \/ t = <<>> \/ line.version = <<>> \/ line.version[1] # "HTTP/"
     THEN Refused("400")
     ELSE IF colon = 0 THEN Refused("400")
     ELSE IF SubSeq(t, colon + 1, Len(t)) \notin Ports \/ ~HostOk(SubSeq(t, 1, colon - 1))
     THEN Refused("400")
     ELSE Done(p + 3, [host |-> SubSeq(t, 1, colon - 1), port |-> t[colon + 1]])

----------------------------------------------------------------------------
(* ingress_glue.rs                                                          *)

Parse(kind, greeted, buf) ==
  LET b == Window(buf)
  IN Capped(buf, CASE kind = "http" -> ParseConnect(b)
                   [] greeted -> Request(b)
                   [] OTHER -> Greeting(b))

Drop(buf, n) == SubSeq(buf, n + 1, Len(buf))

(* One turn of `feed` on the state x; tcp_write may fail (wrote). *)
Turn1(x, wrote) ==
  LET p == Parse(x.req.kind, x.greeted, x.rx)
      y == [x EXCEPT !.rx = Drop(@, p.consumed)]
  IN CASE p.p = "need" -> [x EXCEPT !.read = "wait"]
       [] p.p = "close" -> [y EXCEPT !.st = "closed"]
       [] p.p = "done" -> [y EXCEPT !.st = "done", !.target = p.target, !.read = "off"]
       [] p.p = "associate" /\ x.udp -> [y EXCEPT !.st = "associate"]
       [] p.p = "associate" -> [y EXCEPT !.st = "closed", !.out = Append(@, "command")]
       [] p.p = "refuse" ->
            [y EXCEPT !.st = "closed", !.out = IF wrote THEN Append(@, p.reply) ELSE @]
       [] p.p = "go" /\ ~wrote -> [y EXCEPT !.st = "closed"]
       [] OTHER -> [y EXCEPT !.greeted = TRUE, !.out = Append(@, p.reply), !.read = "again"]

(* The requests a peer may mean, and their bytes. *)
Socks5Requests ==
  [kind : {"socks5"}, ver : {5, 4}, methods : {<<>>, <<2>>, <<2, 0>>}, cmd : {1, 2, 3},
   atyp : {1, 2, 3, 4}, addr : {<<>>, <<7>>, <<NOT_UTF8>>, [i \in 1..10 |-> 7]},
   payload : {<<>>, <<5, 1>>}]

HttpRequests ==
  [kind : {"http"}, method : {<<"CONNECT">>, <<"GET">>, <<>>},
   target : {<<"h", ":", "80">>, <<"[", "v6", "]", ":", "80">>, <<"[", "h", "]", ":", "80">>,
             <<"h", "h", ":", "80">>, <<"h", "h", "h", ":", "80">>, <<"ff", ":", "80">>,
             <<"h">>, <<":", "80">>, <<"h", ":", "0">>, <<>>},
   version : {<<"SP", "HTTP/">>, <<"SP", "x">>, <<>>},
   lines : {<<>>, <<"line">> \o CRLF, <<"line">> \o CRLF \o <<"line">> \o CRLF},
   payload : {<<>>, <<"CR", "LF">>}]

Addr(q) == CASE q.atyp = 1 -> [i \in 1..V4LEN |-> 1] [] q.atyp = 4 -> [i \in 1..V6LEN |-> 1]
             [] OTHER -> q.addr

GreetingBytes(q) == <<q.ver, Len(q.methods)>> \o q.methods
RequestBytes(q) ==
  <<5, q.cmd, 0, q.atyp>> \o (IF q.atyp = 3 THEN <<Len(q.addr)>> ELSE <<>>) \o Addr(q) \o <<1, 2>>

HeadTokens(q) ==
  q.method \o <<"SP">> \o q.target \o q.version \o CRLF \o q.lines \o CRLF

Stream(q) == IF q.kind = "http" THEN HeadTokens(q) \o q.payload
             ELSE GreetingBytes(q) \o RequestBytes(q) \o q.payload

Fresh(q, udp) ==
  [req |-> q, rest |-> Stream(q), rx |-> <<>>, greeted |-> FALSE, udp |-> udp,
   st |-> "reading", target |-> <<>>, out |-> <<>>, read |-> "wait"]

IngressInit ==
  \/ \E q \in Socks5Requests, udp \in BOOLEAN : g = Fresh(q, udp)
  \/ \E q \in HttpRequests : g = Fresh(q, FALSE)

(* Bytes arrive while the shard still reads. *)
BytesArrive(n) ==
  /\ g.st = "reading" /\ g.read = "wait" /\ n \in 1..Len(g.rest)
  /\ g' = [g EXCEPT !.rx = @ \o SubSeq(g.rest, 1, n), !.rest = Drop(@, n), !.read = "again"]

(* The loop of `feed`, one turn at a time; nothing interleaves with it. *)
FeedTurn(wrote) ==
  /\ g.st = "reading" /\ g.read = "again"
  /\ g' = Turn1(g, wrote)

(* The write of a reply fails only on a socket whose peer is gone. *)
IngressNext ==
  \/ \E n \in {1, 3, Len(g.rest)} : BytesArrive(n)
  \/ FeedTurn(TRUE)
  \/ FeedTurn(FALSE)

IngressSpec == IngressInit /\ [][IngressNext]_g

----------------------------------------------------------------------------
(* What a request means, whichever way its bytes arrive.                    *)

Outcome(st, out, target, left) == [st |-> st, out |-> out, target |-> target, left |-> left]
Closed(out) == Outcome("closed", out, <<>>, <<>>)

Socks5Means(q, udp) ==
  LET ok == <<"method ok">>
      long == Len(RequestBytes(q)) > INGRESS_CAP
  IN CASE q.ver # 5 -> Closed(<<>>)
       [] 0 \notin Range(q.methods) -> Closed(<<"no method">>)
       [] q.cmd = 2 -> Closed(ok \o <<"command">>)
       [] q.atyp = 2 -> Closed(ok \o <<"address type">>)
       [] long -> Closed(ok)
       [] q.cmd = 3 -> IF udp THEN Outcome("associate", ok, <<>>, q.payload)
                       ELSE Closed(ok \o <<"command">>)
       [] q.atyp = 3 /\ NOT_UTF8 \in Range(q.addr) -> Closed(ok \o <<"address type">>)
       [] OTHER -> Outcome("done", ok, [host |-> Addr(q), port |-> 258], q.payload)

HttpMeans(q) ==
  CASE Len(HeadTokens(q)) > INGRESS_CAP -> Closed(<<>>)
    [] q.method = <<>> -> Closed(<<"400">>)
    [] q.method = <<"GET">> -> Closed(<<"405">>)
    [] \/ q.version # <<"SP", "HTTP/">>
       \/ q.target \notin {<<"h", ":", "80">>, <<"h", "h", ":", "80">>,
                            <<"[", "v6", "]", ":", "80">>} ->
         Closed(<<"400">>)
    [] OTHER -> Outcome("done", <<>>, [host |-> Front(Front(q.target)), port |-> "80"], q.payload)

Means == IF g.req.kind = "http" THEN HttpMeans(g.req) ELSE Socks5Means(g.req, g.udp)

(* The socket is served what its request means, however the bytes were cut:  *)
(* the same replies in the same order, the same target, and every byte       *)
(* behind the request, and no other, is left for the relay. A request the    *)
(* cap cannot hold, or whose reply cannot be written, closes the socket; a   *)
(* socket that has its whole request is never left waiting.                  *)
RequestsAgree ==
  /\ g.st \in {"done", "associate"} =>
       Outcome(g.st, g.out, g.target, g.rx \o g.rest) = Means
  /\ g.st = "closed" => Means.st = "closed" \/ Len(g.out) < 1
  /\ g.st = "closed" => IsPrefix(g.out, Means.out)
  /\ g.rest = <<>> => ~(g.st = "reading" /\ g.read = "wait")
============================================================================
