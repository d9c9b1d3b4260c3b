------------------------------ MODULE MC_Text ------------------------------
(* Everything the proxy reads, cut or rewrites as bytes, side by side: a     *)
(* behaviour is one host name, path or target, one header section, one       *)
(* control frame, one ingress request, or one session's datagrams. `part`    *)
(* says which; the variables of the other parts stay <<>>.                   *)
EXTENDS HeaderRules, WireFrames, IngressParse, UdpFragments

Two(fields) == UNION {[1..n -> fields] : n \in 0..2}

Extras ==
  {F("connection", "v"), F("transfer-encoding", "chunked"), F("host", "a"),
   F("content-length", "0"), F("content-length", "05"), F("content-length", "bad"),
   F("cookie", "c"), F("accept", ""), F("accept-encoding", "v"), F("x-a", "v"),
   F("x-a", "w"), F("x-a", "ctl"), F("x-a", "big"), F("x-a", "huge"), F("(fold)", "v"),
   F("x-a", "nul"), F("x-mq-auth", "Bearer x"), F("x-mq-class", ""), F("x-mq-class", "big"),
   F("x-mq-method", "get"), F("x-mq-method", "CONNECT"), F("x-mq-cache", "60"),
   F("x-mq-cache", "v"), F("x-mq-origin-protocol", "h2"), F("x-mq-origin-protocol", "v"),
   F("x-mq-accept-encoding", "w"), F("x-mq-accept-encoding", ""),
   F("x-mq-forward-cookie", "true")}

MC_FetchHeads ==
  {<<F("x-mq-auth", a), F("x-mq-target", t)>> \o e :
     a \in {"Bearer t", "Bearer x", "Bearer cut", "Bearer long", "Bearer "},
     t \in {"https://a/b", "http://a:1?b", "https://a@b", "ftp"}, e \in Two(Extras)}
  \cup {<<F("x-mq-auth", a), F("x-mq-target", t)>> \o e :
     a \in {"Bearer t", "Bearer x"}, t \in {"https://a/{", "https://a/?ff"},
     e \in {<<>>} \cup {<<x>> : x \in Extras}}
  \cup {<<F("x-mq-target", "https://a/b")>>,
        <<F("x-mq-auth", "Bearer t"), F("x-mq-target", "https://a/b")>>
          \o [i \in 1..3 |-> F("x-a", "v")]}

BrowserFields ==
  {F("te", "v"), F("host", "a"), F("host", "b"), F("host", "a/b"), F("content-length", "0"),
   F("content-length", "5"), F("content-length", "05"), F("content-length", "7"),
   F("content-length", "bad"), F("cookie", "c"), F("cookie", "d"), F("accept", "v"),
   F("x-a", "v"), F("x-a", "w"), F("x-a", "big"), F("x-mq-auth", "Bearer x"),
   F("x-mq-forward-cookie", "v")}

MC_BrowserHeads ==
  {[method |-> m, authority |-> a, scheme |-> s, path |-> p, map |-> Grouped(h), end |-> e] :
     m \in {"POST"}, s \in {"https", "none"}, p \in {<<"/", "b">>},
     a \in {<<>>, <<"a">>, <<"A", ".", ":", "1">>, <<"b">>, <<"a", "@", "b">>},
     h \in Two(BrowserFields), e \in BOOLEAN}
  \cup {[method |-> m, authority |-> <<"a">>, scheme |-> s, path |-> p, map |-> <<>>,
         end |-> TRUE] :
     m \in {"CONNECT", "GET"}, s \in {"http", "https"}, p \in {<<"/">>, <<>>, <<"/", "{">>}}

OriginFields ==
  {F("connection", "v"), F("content-length", "5"), F("content-length", "0"),
   F("content-length", "bad"), F("x-mq-origin-protocol", "v"), F("alt-svc", "v"),
   F("set-cookie", "c"), F("set-cookie", "d"), F("x-a", "big"), F("x-a", "huge"), F("x-a", "")}

MC_OriginHeads ==
  {[status |-> s, headers |-> Grouped(h)] :
     s \in {101, 200, 700}, h \in Two(OriginFields)}
  \cup {[status |-> 200, headers |-> Grouped(h)] :
     h \in UNION {[1..n -> OriginFields] : n \in 3..4}}

MC_Ints == {1, 16384}
MC_Strings == {<<>>, <<7, 8>>, <<7, 8, 9>>}

VARIABLE part

fvars == vars    \* of UdpFragments
Idle(v) == v = <<>>
NoFragments ==
  /\ Idle(mss) /\ Idle(changes) /\ Idle(cache) /\ Idle(packet_id) /\ Idle(sent)
  /\ Idle(packets) /\ Idle(net) /\ Idle(slots) /\ Idle(fed) /\ Idle(since)
  /\ Idle(outrun) /\ Idle(delivered)

MCInit ==
  \/ part = "uri" /\ UriInit /\ Idle(r) /\ Idle(w) /\ Idle(g) /\ NoFragments
  \/ part = "headers" /\ HeaderInit /\ Idle(u) /\ Idle(w) /\ Idle(g) /\ NoFragments
  \/ part = "frames" /\ FrameInit /\ Idle(u) /\ Idle(r) /\ Idle(g) /\ NoFragments
  \/ part = "ingress" /\ IngressInit /\ Idle(u) /\ Idle(r) /\ Idle(w) /\ NoFragments
  \/ part = "fragments" /\ Init /\ Idle(u) /\ Idle(r) /\ Idle(w) /\ Idle(g)

MCNext ==
  /\ UNCHANGED part
  /\ \/ part = "uri" /\ UriNext /\ UNCHANGED <<r, w, g, fvars>>
     \/ part = "headers" /\ HeaderNext /\ UNCHANGED <<u, w, g, fvars>>
     \/ part = "frames" /\ FrameNext /\ UNCHANGED <<u, r, g, fvars>>
     \/ part = "ingress" /\ IngressNext /\ UNCHANGED <<u, r, w, fvars>>
     \/ part = "fragments" /\ Next /\ UNCHANGED <<u, r, w, g>>
   
MCSpec == MCInit /\ [][MCNext]_<<part, u, r, w, g, fvars>>

(* UriRules: names, paths and targets are compared and cut by the rules.     *)
NamesAndPaths == part = "uri" => UriAgree

(* HeaderRules: a section reaches its origin, and an answer its caller, with *)
(* the right fields and one framing, and no end refuses what the other made, *)
(* but for a byte in a value or a path, or a token, that the server checks.  *)
HeadsTrue == part = "headers" => HeadersTrue

(* WireFrames: a frame is read alike however its bytes arrive.               *)
FramesRead == part = "frames" => FramesAgree

(* IngressParse: a SOCKS5 or CONNECT request is served alike however its     *)
(* bytes arrive, and the relay gets every byte behind it.                    *)
IngressServed == part = "ingress" => RequestsAgree

(* UdpFragments: fragments of two packets mix only across a wrap of the      *)
(* packet_id, a packet whose fragments all arrive in time is delivered, and  *)
(* none is delivered twice.                                                  *)
FragmentsSound ==
  part = "fragments" => MixedOnlyAcrossWrap /\ NothingLostInSlots /\ DeliveredOnce
============================================================================
