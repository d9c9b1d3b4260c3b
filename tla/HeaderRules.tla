---------------------------- MODULE HeaderRules ----------------------------
(***************************************************************************)
(* The way of a header section through the proxy and back.                  *)
(*                                                                         *)
(*   request   h1 head -> `fetch_head` (fetch front)  \                     *)
(*             h2 head -> `map_request` (MITM front)  -> `ReqHead` ->       *)
(*             `render` -> the wire -> `Capture` and `decide` (server) ->   *)
(*             `build_request` -> the origin                                *)
(*   response  origin -> `normalise` -> the wire -> `HeadCollector` ->      *)
(*             `render_head` (fetch) or `map_response` (MITM)               *)
(*                                                                         *)
(* One record `r` carries a section from stage to stage. A field is a name  *)
(* and a value; a name stands for all its spellings (every comparison in    *)
(* the code ignores case). Values are the classes the rules tell apart:     *)
(* "ctl" holds a control byte, "nul" a NUL, "big" fills a field to the      *)
(* limit and "huge" passes it. Lengths are scaled: a name or an ordinary    *)
(* value weighs 1.                                                          *)
(***************************************************************************)
EXTENDS UriRules, FiniteSetsExt

CONSTANTS
  FetchHeads,      \* the h1 header lines the fetch front may be given
  BrowserHeads,    \* the h2 heads the MITM front may be given
  OriginHeads,     \* the response heads an origin may give
  MAX_HEADERS, FIELD_MAX, SECTION_MAX, COUNT_MAX, OVERHEAD,
  RENDER_SLACK     \* room for the status line and the two lines of our own

ASSUME HeaderAssumption ==
  {MAX_HEADERS, FIELD_MAX, SECTION_MAX, COUNT_MAX, OVERHEAD, RENDER_SLACK} \subseteq Nat

VARIABLE r         \* [st: the stage, in: what came in, x: what it became]

F(n, v) == [n |-> n, v |-> v]
Absent == "(absent)"
Names(h) == {h[i].n : i \in 1..Len(h)}
Values(h, n) ==
  LET own == SelectSeq(h, LAMBDA f : f.n = n) IN [i \in 1..Len(own) |-> own[i].v]
Find(h, n) == LET v == Values(h, n) IN IF v = <<>> THEN Absent ELSE v[1]
LastOf(h, n) == LET v == Values(h, n) IN IF v = <<>> THEN Absent ELSE v[Len(v)]

(* The first check that fails; the checks are pairs <<failed, why>>. *)
FirstReject(checks) ==
  LET bad == {i \in 1..Len(checks) : checks[i][1]}
  IN IF bad = {} THEN "ok" ELSE checks[Min(bad)][2]

----------------------------------------------------------------------------
(* mq-http: names, numbers, limits.                                         *)

HopByHop == {"connection", "keep-alive", "proxy-authenticate", "proxy-authorization",
             "proxy-connection", "te", "trailer", "transfer-encoding", "upgrade"}

Xmq == {"x-mq-auth", "x-mq-target", "x-mq-method", "x-mq-class", "x-mq-cache",
        "x-mq-origin-protocol", "x-mq-accept-encoding", "x-mq-forward-cookie"}

(* A mutant: the control headers stay. *)
StripClientLax(n, forwardCookie) ==
  n \in HopByHop \cup {"host", "content-length"} \/ (~forwardCookie /\ n = "cookie")

StripClient(n, forwardCookie) ==
  \/ n \in HopByHop \cup Xmq \cup {"host", "content-length"}
  \/ ~forwardCookie /\ n = "cookie"

StripServer(n) == n \in HopByHop \cup Xmq

HasDupXmq(h) == \E n \in Xmq : Len(Values(h, n)) > 1
ForwardCookieRequested(h) == Find(h, "x-mq-forward-cookie") = "true"

(* Strict decimal; leading zeros are accepted. *)
Numbers == "0" :> 0 @@ "5" :> 5 @@ "05" :> 5 @@ "7" :> 7
NotANumber == 99
ParseContentLength(v) == IF v \in DOMAIN Numbers THEN Numbers[v] ELSE NotANumber
NumText(n) == CHOOSE t \in {"0", "5", "7"} : Numbers[t] = n

ParseCacheTtl(v) == v = "60"
ParseHttpVer(v) == IF v \in {"h1", "h2"} THEN v ELSE "default"

(* Upper-cased, 1..METHOD_MAX tchars; CONNECT is refused by both fronts. *)
ParseMethodUpper(v) ==
  CASE v = "get" -> "GET" [] v \in {"GET", "POST", "HEAD", "CONNECT"} -> v [] OTHER -> Absent

Weight(v) == CASE v = "" -> 0 [] v = "big" -> FIELD_MAX - 1 [] v = "huge" -> FIELD_MAX
               [] OTHER -> 1
Size(f) == 1 + Weight(f.v)

(* `SectionBudget::add` of every field, none refused. *)
SectionFits(sizes) ==
  /\ \A i \in 1..Len(sizes) : sizes[i] <= FIELD_MAX
  /\ Len(sizes) <= COUNT_MAX
  /\ FoldLeft(LAMBDA a, n : a + n + OVERHEAD, 0, sizes) <= SECTION_MAX

FieldSizes(h) == [i \in 1..Len(h) |-> Size(h[i])]
PseudoSizes(w) == <<2, 2, 1 + Len(w.authority), 1 + Len(w.path)>>

(* A `HeaderMap` iterates name by name, in the order of the first of each. *)
Grouped(h) ==
  FoldLeft(LAMBDA acc, f : IF f.n \in Names(acc) THEN acc
                           ELSE acc \o SelectSeq(h, LAMBDA g : g.n = f.n), <<>>, h)

----------------------------------------------------------------------------
(* The fetch front: `parse_complete`, then the reject steps of `fetch_head`. *)

(* Lines that are no header: obs-fold, a name that is no token. *)
BadLines == {"(fold)", "(no token)"}

ParseComplete(lines) ==
  IF \/ Len(lines) > MAX_HEADERS
     \/ Names(lines) \cap BadLines # {}
     \/ \E i \in 1..Len(lines) : lines[i].v = "nul"
     \/ Len(Values(lines, "content-length")) > 1
     \/ \E i \in 1..Len(lines) :
          lines[i].n = "content-length" /\ ParseContentLength(lines[i].v) = NotANumber
  THEN Fail
  ELSE [headers |-> lines,
        cl |-> IF "content-length" \in Names(lines)
               THEN ParseContentLength(Find(lines, "content-length")) ELSE 0,
        chunked |-> F("transfer-encoding", "chunked") \in Range(lines)]

(* The targets a caller may name, as text behind their scheme. *)
Targets == "https://a/b" :> [scheme |-> "https", s |-> <<"a", "/", "b">>]
        @@ "http://a:1?b" :> [scheme |-> "http", s |-> <<"a", ":", "1", "?", "b">>]
        @@ "https://a@b" :> [scheme |-> "https", s |-> <<"a", "@", "b">>]
        @@ "https://a/{" :> [scheme |-> "https", s |-> <<"a", "/", "{">>]
        @@ "https://a/?ff" :> [scheme |-> "https", s |-> <<"a", "/", "?", "ff">>]

TargetOf(v) ==
  IF v \notin DOMAIN Targets \/ ParseTarget(Targets[v].s) = Fail THEN Fail
  ELSE [scheme |-> Targets[v].scheme] @@ ParseTarget(Targets[v].s)

Tokens == {"Bearer t", "Bearer x", "Bearer cut", "Bearer long"}
TooLongControl(v) == v \in {"Bearer long", "big", "huge"}

FetchHead(h) ==
  LET c(n) == Find(h.headers, "x-mq-" \o n)
      given(n) == c(n) \notin {Absent, ""}
      method == IF c("method") = Absent THEN "GET" ELSE ParseMethodUpper(c("method"))
      target == TargetOf(c("target"))
      cookie == ForwardCookieRequested(h.headers)
      why == FirstReject(<<
        <<HasDupXmq(h.headers), "duplicate-control-header">>,
        <<c("auth") = Absent, "missing-auth">>,
        <<c("auth") \notin Tokens, "bad-auth-format">>,
        <<target = Fail, "bad-target">>,
        <<method \in {Absent, "CONNECT"}, "bad-method">>,
        <<given("origin-protocol") /\ ParseHttpVer(c("origin-protocol")) = "default",
          "bad-origin-protocol">>,
        <<given("cache") /\ ~ParseCacheTtl(c("cache")), "bad-cache-ttl">>,
        <<\E n \in {"auth", "class", "accept-encoding"} : TooLongControl(c(n)),
          "header-too-long">>>>)
      optional(n) == IF given(n) THEN c(n) ELSE Absent
  IN IF why # "ok" THEN [why |-> why]
     ELSE [why |-> "ok", method |-> method, scheme |-> target.scheme,
           authority |-> target.authority, path |-> target.path,
           auth |-> c("auth"), class |-> c("class"),
           proto |-> optional("origin-protocol"), cache |-> optional("cache"),
           ae |-> optional("accept-encoding"),
           headers |-> SelectSeq(h.headers, LAMBDA f :
               /\ ~StripClient(f.n, cookie)
               /\ ~(given("accept-encoding") /\ f.n = "accept-encoding")),
           body |-> IF h.cl = 0 THEN [kind |-> "empty", n |-> 0]
                    ELSE [kind |-> "known", n |-> h.cl]]

----------------------------------------------------------------------------
(* The MITM front: `map_request`.                                           *)

Sni == <<"a">>             \* the name this connection was opened for

HostText == "a" :> <<"a">> @@ "b" :> <<"b">> @@ "a/b" :> <<"a", "/", "b">>
(* External: what `http::uri::Authority` accepts. *)
AuthorityValid(a) == a # <<>> /\ ~Has(a, {"/", "?", "#", " "})

HostAuthority(p) ==
  LET h == HostText[Find(p.map, "host")]
  IN IF "host" \in Names(p.map) /\ AuthorityValid(h) THEN h ELSE Fail

ForwardedHeaders(map) ==
  LET cookies == Values(map, "cookie")
      joined == FoldLeft(LAMBDA a, v : a \o "; " \o v, cookies[1], Tail(cookies))
      Step(out, f) ==
        CASE f.n = "cookie" /\ "cookie" \in Names(out) -> out
          [] f.n = "cookie" -> Append(out, F("cookie", joined))
          [] OTHER -> IF StripClient(f.n, TRUE) THEN out ELSE Append(out, f)
  IN FoldLeft(Step, <<>>, map)

(* Every content-length is judged before END_STREAM is. *)
MapBody(map, end) ==
  LET ns == {ParseContentLength(v) : v \in Range(Values(map, "content-length"))}
  IN CASE NotANumber \in ns \/ Cardinality(ns) > 1 -> Fail
       [] end -> IF ns \subseteq {0} THEN [kind |-> "empty", n |-> 0] ELSE Fail
       [] OTHER -> IF ns = {} THEN [kind |-> "unknown", n |-> 0]
                   ELSE [kind |-> "known", n |-> CHOOSE n \in ns : TRUE]

MapRequest(p) ==
  LET authority == IF p.authority # Fail THEN p.authority ELSE HostAuthority(p)
      target == ParseTarget(authority \o p.path)
      body == MapBody(p.map, p.end)
      why == FirstReject(<<
        <<p.method = "CONNECT", "bad-method">>,
        <<p.path = <<>> \/ p.path[1] # "/", "bad-target">>,
        <<authority = Fail, "bad-target">>,
        <<p.scheme = "http", "bad-target">>,
        <<target = Fail, "bad-target">>,
        <<target # Fail /\ Canonical(HostPart(target.authority)) # Sni, "misdirected">>,
        <<body = Fail, "malformed">>>>)
  IN IF why # "ok" THEN [why |-> why]
     ELSE [why |-> "ok", method |-> p.method, scheme |-> "https",
           authority |-> target.authority, path |-> target.path,
           auth |-> "Bearer t", class |-> Absent, proto |-> Absent, cache |-> Absent,
           ae |-> Absent, headers |-> ForwardedHeaders(p.map), body |-> body]

----------------------------------------------------------------------------
(* The wire: `render` and the server's `Capture` and `decide`.              *)

Optional(n, v) == IF v = Absent THEN <<>> ELSE <<F(n, v)>>

RenderFields(h) ==
  <<F("x-mq-auth", h.auth)>> \o Optional("x-mq-class", h.class)
  \o Optional("x-mq-origin-protocol", h.proto) \o Optional("x-mq-cache", h.cache)
  \o Optional("accept-encoding", h.ae)
  \o (IF h.body.kind = "known" /\ h.body.n > 0
      THEN <<F("content-length", NumText(h.body.n))>> ELSE <<>>)
  \o h.headers

(* The FIN rides on the head iff there is no body (`Exchanges::open`). *)
Wire(h) == [method |-> h.method, scheme |-> h.scheme, authority |-> h.authority,
            path |-> h.path, fields |-> RenderFields(h),
            fin |-> h.body.kind = "empty" \/ h.body = [kind |-> "known", n |-> 0]]

Captured == {"x-mq-auth", "x-mq-class", "x-mq-origin-protocol", "content-length", "host"}

Forwarded(fields) ==
  SelectSeq(fields, LAMBDA f : f.n \notin Captured /\ ~StripServer(f.n))

Capture(w) ==
  LET kept == Forwarded(w.fields)
      cls == Values(w.fields, "content-length")
      auth == LastOf(w.fields, "x-mq-auth")
  IN [headers |-> kept,
      badHeader |-> \/ \E i \in 1..Len(kept) : kept[i].v \in {"ctl", "nul"}
                    \/ ~SectionFits(PseudoSizes(w) \o FieldSizes(kept)),
      badCl |-> Len(cls) > 1 \/ (cls # <<>> /\ ParseContentLength(cls[1]) = NotANumber),
      cl |-> IF cls = <<>> THEN NotANumber ELSE ParseContentLength(cls[1]),
      auth |-> auth, cut |-> auth \in {"Bearer cut", "Bearer long"}]   \* AUTH_CAP

(* Only the server looks for these in a path: "{" stands for the bytes      *)
(* `"<>{}` and the backtick, "ff" for what `http::uri::PathAndQuery` refuses  *)
(* (external) of the bytes that are left, such as text that is not UTF-8.    *)
NotInPath == {"{", "ff"}

DecideHead(w) ==
  LET c == Capture(w)
      why == FirstReject(<<
        <<c.badHeader, "bad-header">>,
        <<c.badCl, "bad-request">>,
        <<c.cut \/ c.auth # "Bearer t", "auth-failed">>,
        <<w.method = "CONNECT" \/ w.path[1] # "/", "bad-request">>,
        <<\/ Len(w.authority) > AUTHORITY_MAX \/ Len(w.path) > TARGET_PATH_MAX
          \/ Has(w.authority, {" "}) \/ Has(w.path, {" ", "#"} \cup NotInPath), "bad-target">>>>)
  IN IF why # "ok" THEN [why |-> why]
     ELSE [why |-> "ok", method |-> w.method, authority |-> w.authority, path |-> w.path,
           headers |-> c.headers,
           body |-> CASE w.fin -> [kind |-> "empty", n |-> 0]
                      [] c.cl = NotANumber -> [kind |-> "unknown", n |-> 0]
                      [] OTHER -> [kind |-> "known", n |-> c.cl]]

(* `build_request`, at the moment the request gets its connection; ended: the *)
(* whole upload is in and is empty.                                           *)
BuildRequest(a, proto, ended) ==
  Grouped(<<F("host", "(authority)")>>
    \o (IF "accept" \in Names(a.headers) THEN <<>> ELSE <<F("accept", "*/*")>>)
    \o a.headers
    \o (CASE ended -> <<>>
          [] a.body.kind = "known" -> <<F("content-length", NumText(a.body.n))>>
          [] OTHER -> IF proto = "h1" THEN <<F("transfer-encoding", "chunked")>> ELSE <<>>))

----------------------------------------------------------------------------
(* The response: `normalise`, the gateway's head, `HeadCollector`, and the   *)
(* two ways it is shown.                                                     *)

SingleCl(h) ==
  LET v == Values(h, "content-length")
  IN IF Len(v) = 1 THEN ParseContentLength(v[1]) ELSE NotANumber

(* The gateway's own two fields are measured up front. *)
Normalise(o) ==
  LET kept == SelectSeq(o.headers,
                LAMBDA f : f.n \notin HopByHop \cup {"x-mq-origin-protocol"})
  IN IF o.status = 101 \/ ~SectionFits(<<2, 2>> \o FieldSizes(kept)) THEN Fail
     ELSE [status |-> o.status,
           fields |-> <<F("x-mq-origin-protocol", "h1")>> \o kept, cl |-> SingleCl(kept)]

Clamp(status) == IF status \in 100..599 THEN status ELSE 502

Collect(w) ==
  LET kept == SelectSeq(w.fields, LAMBDA f : f.n \notin HopByHop)
  IN IF ~SectionFits(<<2>> \o FieldSizes(kept)) \/ \E f \in Range(kept) : f.v = "nul" THEN Fail
     ELSE [status |-> Clamp(Clamp(w.status)), headers |-> kept, cl |-> SingleCl(kept),
           hasCl |-> "content-length" \in Names(kept)]

(* A rendered line costs less than OVERHEAD; the slack covers our own lines. *)
RenderHead(h, isHead) ==
  LET shown(f) == IF isHead /\ f.n = "content-length" THEN F(f.n, "0") ELSE f
      lines == [i \in 1..Len(h.headers) |-> shown(h.headers[i])]
               \o (IF h.hasCl THEN <<>> ELSE <<F("transfer-encoding", "chunked")>>)
               \o <<F("connection", "close")>>
  IN IF FoldLeft(LAMBDA a, f : a + Size(f) + 1, 1, lines) > SECTION_MAX + RENDER_SLACK
     THEN Fail ELSE lines

MapResponse(h) == Grouped(SelectSeq(h.headers, LAMBDA f : f.n \notin HopByHop \cup {"alt-svc"}))

----------------------------------------------------------------------------
RIdle == [st |-> "idle", in |-> <<>>, x |-> <<>>]

HeaderInit ==
  \/ \E h \in FetchHeads :
       r = [st |-> "fetch", in |-> [front |-> "fetch", map |-> h], x |-> <<>>]
  \/ \E p \in BrowserHeads :
       r = [st |-> "browser", in |-> [front |-> "mitm"] @@ p, x |-> <<>>]
  \/ \E o \in OriginHeads : r = [st |-> "origin", in |-> o, x |-> <<>>]

To(st, x) == r' = [r EXCEPT !.st = st, !.x = x]
Refuse(by, why) == To("refused", [by |-> by, why |-> why])

(* A chunked upload and a malformed head never reach `fetch_head`. *)
TakeFetch ==
  /\ r.st = "fetch"
  /\ LET h == ParseComplete(r.in.map)
     IN IF h = Fail THEN Refuse("front", "bad head")
        ELSE IF h.chunked THEN Refuse("front", "length required")
        ELSE LET q == FetchHead(h)
             IN IF q.why = "ok" THEN To("head", q) ELSE Refuse("front", q.why)

TakeBrowser ==
  /\ r.st = "browser"
  /\ LET q == MapRequest(r.in)
     IN IF q.why = "ok" THEN To("head", q) ELSE Refuse("front", q.why)

Render ==
  /\ r.st = "head"
  /\ IF SectionFits(PseudoSizes(r.x) \o FieldSizes(RenderFields(r.x)))
     THEN To("wire", Wire(r.x)) ELSE Refuse("front", "header-too-long")

Intake ==
  /\ r.st = "wire"
  /\ LET a == DecideHead(r.x)
     IN IF a.why = "ok" THEN To("admitted", a) ELSE Refuse("server", a.why)

Build(proto, ended) ==
  /\ r.st = "admitted"
  /\ r.x.body.kind = "empty" => ended
  /\ r.x.body.kind = "known" => ~ended
  /\ To("sent", [a |-> r.x, proto |-> proto, ended |-> ended,
                 headers |-> BuildRequest(r.x, proto, ended)])

Relay ==
  /\ r.st = "origin"
  /\ LET w == Normalise(r.in)
     IN IF w = Fail THEN Refuse("server", "upstream-protocol") ELSE To("relayed", w)

Show(front, isHead) ==
  /\ r.st = "relayed"
  /\ LET h == Collect(r.x)
         shown == IF front = "fetch" THEN RenderHead(h, isHead) ELSE MapResponse(h)
     IN IF h = Fail \/ (front = "fetch" /\ shown = Fail) THEN Refuse("client", "upstream-protocol")
        ELSE To("shown", [front |-> front, isHead |-> isHead, h |-> h, cl |-> r.x.cl,
                          headers |-> shown])

HeaderNext ==
  \/ TakeFetch \/ TakeBrowser \/ Render \/ Intake \/ Relay
  \/ \E proto \in {"h1", "h2"}, ended \in BOOLEAN : Build(proto, ended)
  \/ \E front \in {"fetch", "mitm"}, isHead \in BOOLEAN : Show(front, isHead)

----------------------------------------------------------------------------
(* What is promised.                                                        *)

FromBrowser == r.in.front = "mitm"
Given == r.in.map

(* The caller's own fields, as the origin is to see them. *)
Wanted(n) ==
  LET v == Values(Given, n)
  IN CASE n = "cookie" /\ FromBrowser /\ Len(v) = 2 -> <<v[1] \o "; " \o v[2]>>
       [] n = "cookie" /\ ~FromBrowser -> IF F("x-mq-forward-cookie", "true") \in Range(Given)
                                          THEN v ELSE <<>>
       [] n = "accept" /\ v = <<>> -> <<"*/*">>
       [] n = "accept-encoding" /\ ~FromBrowser ->
            IF Find(Given, "x-mq-accept-encoding") \notin {Absent, ""}
            THEN <<Find(Given, "x-mq-accept-encoding")>> ELSE v
       [] OTHER -> v

(* The path the caller asked for, as its front renders it. *)
AskedPath == IF FromBrowser THEN r.in.path ELSE TargetOf(Find(Given, "x-mq-target")).path

Private == HopByHop \cup Xmq \cup {"host", "content-length"}

(* The body the caller announced: a length, none, or only its end. *)
Announced ==
  LET v == Values(Given, "content-length")
  IN IF v # <<>> /\ ParseContentLength(v[1]) # 0 THEN ParseContentLength(v[1]) ELSE 0

RequestTrue ==
  r.st = "sent" =>
    LET h == r.x.headers
        framing == Values(h, "content-length") \o Values(h, "transfer-encoding")
    IN \* the control and hop-by-hop fields of the caller end here
       /\ Names(h) \cap Private \subseteq {"host", "content-length", "transfer-encoding"}
       /\ h[1].n = "host" /\ Len(Values(h, "host")) = 1
       \* every other field arrives, every value of it, in order, and no more
       /\ \A n \in (Names(h) \cup Names(Given)) \ Private : Values(h, n) = Wanted(n)
       \* one framing, the announced one
       /\ IF Announced > 0 THEN framing = <<NumText(Announced)>>
          ELSE framing = IF FromBrowser /\ ~r.in.end /\ ~r.x.ended /\ r.x.proto = "h1"
                            /\ Values(Given, "content-length") = <<>>
                         THEN <<"chunked">> ELSE <<>>
       \* where it goes, and in whose name
       /\ r.x.a.path = AskedPath /\ ~Has(AskedPath, NotInPath)
       /\ IF FromBrowser THEN Canonical(HostPart(r.x.a.authority)) = Sni
          ELSE Find(Given, "x-mq-auth") = "Bearer t"

(* What one end let through the other end can read, but for three things     *)
(* that only the server checks: a control byte in a value, the token, and    *)
(* the bytes of a path that `parse_target` lets through. It refuses no       *)
(* rendered head for its size or its shape, and the client refuses no        *)
(* response head the server relayed.                                         *)
EndsAgreeOnHeads ==
  r.st = "refused" =>
    /\ r.x.by # "client"
    /\ r.x.by = "server" /\ r.x.why # "upstream-protocol" =>
         \/ r.x.why = "bad-header" /\ \E f \in Range(Given) : f.v = "ctl"
         \/ r.x.why = "auth-failed" /\ ~FromBrowser /\ Find(Given, "x-mq-auth") # "Bearer t"
         \/ r.x.why = "bad-target" /\ Has(AskedPath, NotInPath)

ResponseTrue ==
  r.st = "shown" =>
    LET h == r.x.headers given == r.in.headers
        own == HopByHop \cup {"x-mq-origin-protocol"}
    IN /\ r.x.cl = r.x.h.cl          \* both ends check the body against one length
       /\ r.x.h.status \in 100..599
       /\ Values(h, "x-mq-origin-protocol") = <<"h1">>
       /\ \A n \in (Names(h) \cup Names(given)) \ own :
            Values(h, n) = IF r.x.front = "mitm" /\ n = "alt-svc" THEN <<>>
                           ELSE IF r.x.front = "fetch" /\ r.x.isHead /\ n = "content-length"
                           THEN [i \in 1..Len(Values(given, n)) |-> "0"]
                           ELSE Values(given, n)
       /\ Names(h) \cap HopByHop =
            IF r.x.front = "mitm" THEN {}
            ELSE {"connection"} \cup (IF "content-length" \in Names(given) THEN {}
                                      ELSE {"transfer-encoding"})

(* A request that reaches its origin carries the caller's end-to-end fields  *)
(* and nothing of the proxy's control headers, the caller's hop-by-hop       *)
(* fields, host or length; it has one host and the one framing of the body   *)
(* announced, goes to the authority it named (the connection's own name on   *)
(* the MITM front) and was authorised. A response shows the origin's fields  *)
(* with one framing, and both ends measure its body alike. Neither end       *)
(* refuses for size or shape what the other end let through; the bytes of a  *)
(* path, those of a value and the token are the server's to judge.           *)
HeadersTrue == RequestTrue /\ EndsAgreeOnHeads /\ ResponseTrue
============================================================================
