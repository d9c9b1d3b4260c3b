------------------------------ MODULE UriRules ------------------------------
(***************************************************************************)
(* The names and paths the proxy compares: `parse_target` (mq-http          *)
(* headers.rs), the one canonicaliser of host names and the two suffix      *)
(* rules of the MITM policy (client/mitm/policy.rs), and the removal of dot *)
(* segments before a request leaves for its origin (origin/request.rs).     *)
(*                                                                         *)
(* Text is a sequence of characters; each class of characters the code      *)
(* tells apart is one character: a letter "a" or "b", the capital "A", the  *)
(* digit "1", the separators, and " " for every byte a URI may not hold.    *)
(*                                                                         *)
(* The machine picks a text, runs the code's loop on it and stops: the      *)
(* invariant compares the result with a definition by labels or segments.   *)
(***************************************************************************)
EXTENDS Naturals, SequencesExt

CONSTANTS
  NameChars,      \* the characters of the enumerated host names
  PathChars,      \* those of the enumerated paths
  TargetChars,    \* those of the enumerated targets
  MaxName, MaxEntry, MaxPath, MaxTarget,     \* their longest lengths
  NAME_MAX, LABEL_MAX, AUTHORITY_MAX, TARGET_PATH_MAX

ASSUME UriAssumption ==
  /\ {NAME_MAX, LABEL_MAX, AUTHORITY_MAX, TARGET_PATH_MAX} \subseteq Nat
  /\ \A n \in {MaxName, MaxEntry, MaxPath, MaxTarget} : n \in Nat

Fail == <<>>                         \* `None` of an `Option`
Texts(chars, n) == UNION {[1..m -> chars] : m \in 0..n}
Letters == {"a", "b", "A"}
Digits == {"1"}

First(s, t, from) ==   \* the first place of a character of t, or past the end
  Min({i \in from..Len(s) : s[i] \in t} \cup {Len(s) + 1})
Last1(s, t, from) ==   \* the last place, or 0
  Max({i \in from..Len(s) : s[i] \in t} \cup {0})
Has(s, t) == \E i \in 1..Len(s) : s[i] \in t

----------------------------------------------------------------------------
(* `parse_target`, behind the scheme.                                       *)

(* Bytes no URI holds, and the userinfo and fragment marks. *)
Forbidden == {" ", "#"}

InBrackets(s, i) == s[1] = "[" /\ ~\E j \in 2..(i - 1) : s[j] = "]"

(* The authority ends at the first '/' or '?' outside the brackets. *)
AuthorityEnd(s) ==
  Min({i \in 1..Len(s) : s[i] \in {"/", "?"} /\ ~InBrackets(s, i)} \cup {Len(s) + 1})

(* The host:port split of an authority: after ']' for a literal, else at    *)
(* the last ':'; the port is not empty and all digits.                      *)
PortOk(a) ==
  LET bracketed == a[1] = "["
      rb == First(a, {"]"}, 2)
      scan == IF bracketed THEN rb + 1 ELSE 1
      pc == Last1(a, {":"}, scan)
  IN /\ bracketed => /\ rb <= Len(a)
                     /\ rb # 2                  \* "[]"
                     /\ scan <= Len(a) => a[scan] = ":"
     /\ pc # 0 => /\ pc < Len(a)
                  /\ \A i \in (pc + 1)..Len(a) : a[i] \in Digits
                  /\ pc # 1
                  /\ ~bracketed => ~\E i \in 1..(pc - 1) : a[i] = ":"

AuthorityOk(a) ==
  /\ a # <<>>
  /\ Len(a) <= AUTHORITY_MAX
  /\ ~Has(a, Forbidden \cup {"@"} \cup (IF a[1] = "[" THEN {} ELSE {"]"}))
  /\ PortOk(a)

Rooted(rest) == IF rest = <<>> \/ Head(rest) = "?" THEN <<"/">> \o rest ELSE rest

ParseTarget(s) ==
  LET i == AuthorityEnd(s)
      a == SubSeq(s, 1, i - 1)
      rest == SubSeq(s, i, Len(s))
  IN IF \/ \E j \in 2..(i - 1) : s[j] = "["     \* honoured at the start only
        \/ ~AuthorityOk(a)
        \/ Has(rest, Forbidden)
        \/ Len(Rooted(rest)) > TARGET_PATH_MAX
     THEN Fail
     ELSE [authority |-> a, path |-> Rooted(rest)]

(* The host the MITM front compares with its SNI: the port is cut off. *)
HostPart(a) ==
  LET c == Last1(a, {":"}, 1)
  IN IF c # 0 /\ a[Len(a)] # "]" THEN SubSeq(a, 1, c - 1) ELSE a

----------------------------------------------------------------------------
(* `Sni::canonical`, `is_under`, `IgnoreHosts` and `CaScope`.               *)

Lower(c) == IF c = "A" THEN "a" ELSE c

(* `split('.')`: the pieces between the dots. *)
Pieces(s, dot) ==
  LET d == <<0>> \o SetToSortSeq({i \in 1..Len(s) : s[i] = dot}, <) \o <<Len(s) + 1>>
  IN [k \in 1..(Len(d) - 1) |-> SubSeq(s, d[k] + 1, d[k + 1] - 1)]

IsIp(s) ==
  LET l == Pieces(s, ".")
  IN Len(l) = 4 /\ \A k \in 1..4 : l[k] # <<>> /\ ~Has(l[k], Letters \cup {"-"})

Canonical(b) ==
  LET t == IF b # <<>> /\ b[Len(b)] = "." THEN Front(b) ELSE b
      s == [i \in 1..Len(t) |-> Lower(t[i])]
      l == Pieces(s, ".")
  IN IF \/ t = <<>> \/ Len(t) > NAME_MAX
        \/ \E k \in 1..Len(l) :
              \/ Len(l[k]) \notin 1..LABEL_MAX
              \/ \E i \in 1..Len(l[k]) : l[k][i] \notin Letters \cup Digits \cup {"-"}
        \/ IsIp(s)
     THEN Fail
     ELSE s


(* A mutant: names that merely end alike. *)
IsUnderLoose(s, base) == s # base /\ IsSuffix(base, s)

(* `self` ends with "." + base. *)
IsUnder(s, base) ==
  /\ IsSuffix(base, s)
  /\ LET p == SubSeq(s, 1, Len(s) - Len(base)) IN p # <<>> /\ p[Len(p)] = "."

(* An entry of IgnoreHosts: a leading dot puts it with the suffixes. *)
ParseEntry(e) ==
  LET dot == e # <<>> /\ Head(e) = "."
      c == Canonical(IF dot THEN Tail(e) ELSE e)
  IN IF c = Fail THEN Fail ELSE [suffix |-> dot, sni |-> c]

(* Exact once, then each proper parent domain among the suffixes. *)
IgnoreMatches(ignore, s) ==
  \/ [suffix |-> FALSE, sni |-> s] \in ignore
  \/ \E i \in 1..Len(s) :
       s[i] = "." /\ [suffix |-> TRUE, sni |-> SubSeq(s, i + 1, Len(s))] \in ignore

(* A NameConstraints subtree: everything, a domain, or strictly under it. *)
SubtreeMatches(t, s) ==
  CASE t.kind = "all" -> TRUE
    [] t.kind = "domain" -> s = t.sni \/ IsUnder(s, t.sni)
    [] t.kind = "under" -> IsUnder(s, t.sni)

Covers(scope, s) ==
  /\ scope.permitted = {} \/ \E t \in scope.permitted : SubtreeMatches(t, s)
  /\ ~\E t \in scope.excluded : SubtreeMatches(t, s)

----------------------------------------------------------------------------
(* `remove_dot_segments`, one turn of its loop per step.                    *)

VARIABLE u     \* [kind, s: the text, e: an entry or a second text, in, out]

Starts(s, p) == IsPrefix(p, s)
DD == <<".", ".">>

Pop(out) ==
  LET c == Last1(out, {"/"}, 1) IN SubSeq(out, 1, IF c = 0 THEN 0 ELSE c - 1)

Turn(s, out) ==
  LET cut(n) == SubSeq(s, n + 1, Len(s))
      end == First(s, {"/"}, 2) - 1
  IN CASE Starts(s, DD \o <<"/">>) -> [in |-> cut(3), out |-> out]
       [] Starts(s, <<".", "/">>) -> [in |-> cut(2), out |-> out]
       [] Starts(s, <<"/", ".", "/">>) -> [in |-> cut(2), out |-> out]
       [] s = <<"/", ".">> -> [in |-> <<"/">>, out |-> out]
       [] Starts(s, <<"/">> \o DD \o <<"/">>) -> [in |-> cut(3), out |-> Pop(out)]
       [] s = <<"/">> \o DD -> [in |-> <<"/">>, out |-> Pop(out)]
       [] s \in {<<".">>, DD} -> [in |-> <<>>, out |-> out]
       [] OTHER -> [in |-> cut(end), out |-> out \o SubSeq(s, 1, end)]

(* `decide` lets only a path that starts with '/' through. *)
UriInit ==
  \/ \E s \in Texts(PathChars, MaxPath) :
       u = [kind |-> "dots", s |-> <<"/">> \o s, e |-> <<>>, in |-> <<"/">> \o s, out |-> <<>>]
  \/ \E s \in Texts(NameChars, MaxName) \cup {<<"1", ".", "1", ".", "1", ".", "1">>},
        e \in Texts(NameChars, MaxEntry) :
       u = [kind |-> "names", s |-> s, e |-> e, in |-> <<>>, out |-> <<>>]
  \/ \E s, e \in Texts(TargetChars, MaxTarget) :
       u = [kind |-> "target", s |-> s, e |-> <<"/">> \o e, in |-> <<>>, out |-> <<>>]

RemoveDots == u.in # <<>> /\ u' = Turn(u.in, u.out) @@ u

UriNext == RemoveDots
UriSpec == UriInit /\ [][UriNext]_u

----------------------------------------------------------------------------
(* The definitions the results are compared with.                           *)

(* RFC 3986 5.2.4 by segments: "." is dropped, ".." drops the segment before *)
(* it, and either of them at the end leaves a trailing slash.               *)
Resolve(path) ==
  LET segs == Tail(Pieces(path, "/"))
      Step(acc, x) == CASE x = <<".">> -> acc
                        [] x = DD -> IF acc = <<>> THEN acc ELSE Front(acc)
                        [] OTHER -> Append(acc, x)
      kept == FoldLeft(Step, <<>>, segs)
      all == IF segs[Len(segs)] \in {<<".">>, DD} THEN Append(kept, <<>>) ELSE kept
  IN FoldLeft(LAMBDA acc, x : acc \o <<"/">> \o x, <<>>, all)

(* s is a strict subdomain of b, label by label. *)
Subdomain(s, b) ==
  LET ls == Pieces(s, ".") lb == Pieces(b, ".")
  IN Len(lb) < Len(ls) /\ SubSeq(ls, Len(ls) - Len(lb) + 1, Len(ls)) = lb

DotsResolved == u.kind = "dots" /\ u.in = <<>> => u.out = Resolve(u.s)

NamesAgree ==
  u.kind = "names" =>
    LET s == Canonical(u.s) e == ParseEntry(u.e) b == Canonical(u.e)
    IN /\ s # Fail => Canonical(s) = s
       /\ s # Fail /\ e # Fail =>
            (IgnoreMatches({e}, s) <=> IF e.suffix THEN Subdomain(s, e.sni) ELSE s = e.sni)
       /\ s # Fail /\ b # Fail =>
            /\ Covers([permitted |-> {[kind |-> "under", sni |-> b]}, excluded |-> {}], s)
                 <=> Subdomain(s, b)
            /\ Covers([permitted |-> {}, excluded |-> {[kind |-> "domain", sni |-> b]}], s)
                 <=> ~(s = b \/ Subdomain(s, b))
            \* an apex and its subdomains are two entries, never one
            /\ IgnoreMatches({[suffix |-> FALSE, sni |-> b], [suffix |-> TRUE, sni |-> b]}, s)
                 <=> SubtreeMatches([kind |-> "domain", sni |-> b], s)

TargetsExact ==
  u.kind = "target" =>
    LET t == ParseTarget(u.s) joined == ParseTarget(u.s \o u.e)
    IN /\ t # Fail =>
            /\ t.path[1] = "/"
            /\ u.s \in {t.authority \o t.path, t.authority \o Tail(t.path)}
            /\ ~Has(t.authority, {"@"} \cup Forbidden)
            /\ Has(t.authority, {"/", "?"}) => t.authority[1] = "["
       \* an authority that stands alone keeps its path when one is appended:
       \* nothing of it moves into the path, nothing of the path into the host
       /\ t # Fail /\ t.authority = u.s /\ joined # Fail =>
            joined = [authority |-> u.s, path |-> u.e]

(* What the code compares is what its rules say: the path that leaves for an *)
(* origin is the requested one with its dot segments resolved; an exact      *)
(* IgnoreHosts entry matches that name only and a dotted one every strict    *)
(* subdomain and no name that merely ends alike, as do the CA's subtrees;    *)
(* a target is cut into authority and path without loss and without moving a *)
(* byte from one to the other.                                               *)
UriAgree == DotsResolved /\ NamesAgree /\ TargetsExact
============================================================================
