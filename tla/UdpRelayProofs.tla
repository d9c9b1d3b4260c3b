--------------------------- MODULE UdpRelayProofs ---------------------------
(***************************************************************************)
(* Proofs about UdpRelay: the tables of the two ends stay within their     *)
(* limits and mirror each other, the ends agree on a session once nothing  *)
(* of it is on its way, and a datagram goes astray only across a wrap of   *)
(* the sid counter, for every number of associations, targets and sessions *)
(* and every modulus of the counter.                                       *)
(***************************************************************************)
EXTENDS UdpRelay, ListLemmas, FiniteSetTheorems

(* The sid session k was made with; datagrams and table entries that bear  *)
(* sid are k's.                                                            *)
SidOf(k) == made[k] % SidMod
Of(k, sid) == k \in 1 .. Len(made) /\ SidOf(k) = sid

(* An entry of a table of DSTs. *)
Entry == [session : Sids \cup {None}, failed : BOOLEAN, present : BOOLEAN]

(* What the client keeps: values, limits, tables that mirror each other,   *)
(* and a history of ever larger counts.                                    *)
ClientTypes ==
  /\ udp \in {"Unknown", "Available", "Unavailable"} /\ closing \in BOOLEAN
  /\ assocs \subseteq Assocs
  /\ dsts \in [Assocs -> [Targets -> Entry]]
  /\ sess \in [Sids -> ClientSession \cup {None}]
  /\ count \in Nat
  /\ made \in Seq(Nat) /\ Len(made) <= MaxSessions

ClientLimits ==
  /\ Cardinality(Live) <= MAX_SESSIONS_PER_CONN
  /\ \A a \in Assocs : Cardinality(Present(dsts[a])) <= MAX_DST_PER_ASSOC

Numbered ==
  /\ \A i, j \in 1 .. Len(made) : i < j => made[i] < made[j]
  /\ \A i \in 1 .. Len(made) : made[i] < count
  /\ \A sid \in Live : Of(sess[sid].k, sid)

ClientInv ==
  ClientTypes /\ ClientLimits /\ Numbered /\ SessionsMirrorDsts /\ NoneLeftWaiting

(* What is on its way, and what the server keeps. *)
Parked == [sid : Sids, k : Ks, old : BOOLEAN]

NetInv ==
  /\ c2s \in [Ks -> SUBSET {"open", "reset"}]
  /\ s2c \in [Ks -> SUBSET {"ok", "error", "reset"}]
  /\ up \subseteq Sids \X Ks /\ \A m \in up : Of(m[2], m[1])
  /\ down \subseteq Sids \X Ks /\ \A m \in down : Of(m[2], m[1])

ServerInv ==
  /\ srv \in [Sids -> ServerSession \cup {None}]
  /\ Cardinality(Admitted) <= MAX_SESSIONS_PER_CONN
  /\ \A sid \in Admitted : Of(srv[sid].k, sid)
  /\ preopen \in Seq(Parked) /\ Len(preopen) <= PREOPEN_DGRAMS
  /\ \A i \in 1 .. Len(preopen) : Of(preopen[i].k, preopen[i].sid)
  /\ NothingParkedWhenLive

(* A packet goes astray only between sessions with the same sid. *)
CrossInv ==
  \A x \in crossed : /\ x[1] \in 1 .. Len(made) /\ x[2] \in 1 .. Len(made)
                     /\ x[1] # x[2] /\ SidOf(x[1]) = SidOf(x[2])

(* The stream of session k: which end has it, and what is on its way. *)
StreamInv(k) ==
  /\ s2c[k] # {} => ClientHolds(k)
  /\ "open" \in c2s[k] =>
       ~ServerHolds(k) /\ s2c[k] = {} /\ (ClientHolds(k) \/ "reset" \in c2s[k])
  /\ "open" \in c2s[k] /\ ClientHolds(k) => sess[SidOf(k)].phase = "AwaitResp"
  /\ ServerHolds(k) /\ ~ClientHolds(k) => "reset" \in c2s[k]
  /\ ClientHolds(k) => "reset" \notin c2s[k]
  /\ ClientHolds(k) /\ ~ServerHolds(k) =>
       "open" \in c2s[k] \/ "error" \in s2c[k] \/ "reset" \in s2c[k]
  /\ ClientHolds(k) /\ ServerHolds(k) =>
       /\ "error" \notin s2c[k] /\ "reset" \notin s2c[k]
       /\ srv[SidOf(k)].phase = "Live" =>
            (sess[SidOf(k)].phase = "Open" <=> "ok" \notin s2c[k])
       /\ srv[SidOf(k)].phase # "Live" =>
            sess[SidOf(k)].phase = "AwaitResp" /\ "ok" \notin s2c[k]

(* Without a connection that relays UDP there is nothing but the tables of *)
(* the client; a session not made yet has no stream.                       *)
Quiet ==
  /\ udp # "Available" => Admitted = {} /\ \A k \in Ks : c2s[k] = {}
  /\ \A k \in Ks : k > Len(made) => c2s[k] = {}

UInv ==
  ClientInv /\ NetInv /\ ServerInv /\ CrossInv /\ Quiet /\ \A k \in Ks : StreamInv(k)
-----------------------------------------------------------------------------
(* Numbers                                                                 *)

(* The quotient and the rest. *)
LEMMA Division ==
  ASSUME NEW a \in Nat, NEW m \in Nat \ {0}
  PROVE  a = m * (a \div m) + (a % m) /\ a % m \in 0 .. m - 1 /\ a \div m \in Nat
OBVIOUS

(* The rest of a multiple and some more. *)
LEMMA Remainder ==
  ASSUME NEW q \in Nat, NEW m \in Nat \ {0}, NEW r \in 0 .. m - 1
  PROVE  (m * q + r) % m = r
OBVIOUS

(* Two numbers with the same rest are equal or at least the modulus apart. *)
LEMMA RestsApart ==
  ASSUME NEW a \in Nat, NEW b \in Nat, NEW m \in Nat \ {0}, a % m = b % m, a < b
  PROVE  b - a >= m
<1> DEFINE p == a \div m
           q == b \div m
           r == a % m
<1>1. a = m * p + r /\ b = m * q + r /\ p \in Nat /\ q \in Nat /\ r \in 0 .. m - 1
  BY Division
<1> HIDE DEF p, q, r
<1>2. q > p
  <2>1. CASE q <= p
    <3>1. m * q <= m * p
      BY <1>1, <2>1
    <3> QED BY <1>1, <3>1
  <2> QED BY <1>1, <2>1
<1>3. m * q >= m * (p + 1)
  BY <1>1, <1>2
<1>4. m * (p + 1) = m * p + m /\ m * p \in Nat /\ m * q \in Nat
  BY <1>1
<1> QED
  BY <1>1, <1>3, <1>4

(* Counting from n on, every rest comes up before the modulus is through.  *)
LEMMA RestComesUp ==
  ASSUME NEW n \in Nat, NEW m \in Nat \ {0}, NEW s \in 0 .. m - 1
  PROVE  \E x \in n .. n + m : x % m = s
<1> DEFINE q == n \div m
           r == n % m
<1>1. n = m * q + r /\ q \in Nat /\ r \in 0 .. m - 1
  BY Division
<1> HIDE DEF q, r
<1>2. CASE s >= r
  <2>1. (m * q + s) % m = s
    BY <1>1, Remainder
  <2>2. m * q + s \in n .. n + m
    BY <1>1, <1>2
  <2> QED BY <2>1, <2>2
<1>3. CASE s < r
  <2>1. (m * (q + 1) + s) % m = s
    BY <1>1, Remainder
  <2>2. m * (q + 1) = m * q + m /\ m * q \in Nat
    BY <1>1
  <2>3. m * (q + 1) + s \in n .. n + m
    BY <1>1, <1>3, <2>2
  <2> QED BY <2>1, <2>3
<1> QED
  BY <1>1, <1>2, <1>3

(* The rests are the sids, of which there are as many as the modulus. *)
LEMMA SidsAreRests ==
  /\ \A n \in Nat : n % SidMod \in Sids
  /\ Sids \subseteq Nat /\ None \notin Sids
  /\ IsFiniteSet(Sids) /\ Cardinality(Sids) = SidMod
<1>1. SidMod \in Nat \ {0}
  BY UdpAssumption
<1>2. IsFiniteSet(Sids) /\ Cardinality(Sids) = SidMod
  <2>1. 0 \in Int /\ SidMod - 1 \in Int
    BY <1>1
  <2>2. IsFiniteSet(0 .. SidMod - 1) /\ Cardinality(0 .. SidMod - 1) = IF 0 > SidMod - 1 THEN 0 ELSE SidMod - 1 - 0 + 1
    BY <2>1, FS_Interval
  <2> QED BY <1>1, <2>2 DEF Sids
<1>3. \A n \in Nat : n % SidMod \in Sids
  BY <1>1, Division DEF Sids
<1>4. Sids \subseteq Nat /\ None \notin Sids
  BY <1>1, UdpAssumption DEF Sids
<1> QED
  BY <1>2, <1>3, <1>4

(* alloc_sid always finds a sid that is not live below the limit. *)
LEMMA AllocFindsFree ==
  ASSUME ClientTypes, Cardinality(Live) < MAX_SESSIONS_PER_CONN
  PROVE  Alloc \in Nat /\ Alloc >= count /\ Alloc % SidMod \in Sids \ Live
<1>1. count \in Nat /\ SidMod \in Nat \ {0} /\ MAX_SESSIONS_PER_CONN \in 1 .. SidMod
  BY UdpAssumption DEF ClientTypes
<1>2. PICK s \in Sids : s \notin Live
  <2>1. CASE Live = Sids
    <3>1. Cardinality(Live) = SidMod
      BY <2>1, SidsAreRests, Zenon
    <3> QED BY <1>1, <3>1
  <2>2. Live \subseteq Sids
    BY DEF Live
  <2> QED BY <2>1, <2>2
<1> DEFINE T == {n \in count .. count + SidMod : n % SidMod \notin Live}
<1>3. T \in SUBSET Nat
  BY <1>1
<1>4. T # {}
  <2>1. s \in 0 .. SidMod - 1
    BY DEF Sids
  <2>2. PICK x \in count .. count + SidMod : x % SidMod = s
    BY <1>1, <2>1, RestComesUp
  <2> QED BY <1>2, <2>2
<1>5. PICK n \in T : \A m \in T : n <= m
  <2> HIDE DEF T
  <2> QED BY <1>3, <1>4, LeastNumber
<1>6. ASSUME NEW m \in count .. n - 1 PROVE m % SidMod \in Live
  <2>1. m \in Nat /\ n \in Nat /\ m < n /\ m \in count .. count + SidMod
    BY <1>1, <1>5
  <2>2. m \notin T
    <3> HIDE DEF T
    <3> QED BY <1>5, <2>1
  <2> QED BY <2>1, <2>2
<1>7. \E x \in count .. count + SidMod :
        /\ x % SidMod \notin Live
        /\ \A m \in count .. x - 1 : m % SidMod \in Live
  BY <1>5, <1>6
<1>8. Alloc \in count .. count + SidMod /\ Alloc % SidMod \notin Live
  BY <1>7 DEF Alloc
<1> QED
  BY <1>1, <1>8, SidsAreRests

-----------------------------------------------------------------------------
(* Sessions and streams                                                    *)

(* Values of the constants that the steps use. *)
LEMMA Constants ==
  /\ SidMod \in Nat \ {0} /\ MaxSessions \in Nat
  /\ MAX_SESSIONS_PER_CONN \in Nat /\ MAX_DST_PER_ASSOC \in Nat \ {0}
  /\ PREOPEN_DGRAMS \in Nat \ {0}
  /\ None \notin Sids /\ None \notin ClientSession /\ None \notin ServerSession
  /\ IsFiniteSet(Assocs) /\ IsFiniteSet(Targets)
BY UdpAssumption, SidsAreRests

(* A session made is one of Ks, and its sid one of the sids. *)
LEMMA MadeSids ==
  ASSUME ClientTypes, NEW k \in 1 .. Len(made)
  PROVE  k \in Ks /\ made[k] \in Nat /\ SidOf(k) \in Sids
<1>1. Len(made) \in Nat /\ Len(made) <= MaxSessions /\ made[k] \in Nat
  BY DEF ClientTypes
<1>2. SidOf(k) \in Sids
  BY <1>1, SidsAreRests, Zenon DEF SidOf
<1>3. k \in Ks
  BY <1>1, Constants DEF Ks
<1> QED
  BY <1>1, <1>2, <1>3

(* A live session is a record, and Issued tells the waiting from the rest. *)
LEMMA LiveSession ==
  ASSUME ClientTypes, NEW sid \in Live
  PROVE  /\ sid \in Sids /\ sess[sid] \in ClientSession
         /\ sid \in Issued <=> sess[sid].phase # "PendingAuth"
BY DEF ClientTypes, Live, Issued

LEMMA AdmittedSession ==
  ASSUME ServerInv, NEW sid \in Admitted
  PROVE  sid \in Sids /\ srv[sid] \in ServerSession
BY DEF ServerInv, Admitted

(* The client has the stream of k exactly in the entry of k's sid. *)
LEMMA ClientHoldsIff ==
  ASSUME ClientTypes, Numbered, NEW k
  PROVE  ClientHolds(k) <=> k \in 1 .. Len(made) /\ SidOf(k) \in Issued /\ sess[SidOf(k)].k = k
<1>1. ASSUME NEW sid \in Issued, sess[sid].k = k
      PROVE  k \in 1 .. Len(made) /\ SidOf(k) = sid
  BY <1>1 DEF Issued, Numbered, Of
<1> QED
  BY <1>1 DEF ClientHolds

LEMMA ServerHoldsIff ==
  ASSUME ServerInv, NEW k
  PROVE  ServerHolds(k) <=> k \in 1 .. Len(made) /\ SidOf(k) \in Admitted /\ srv[SidOf(k)].k = k
<1>1. ASSUME NEW sid \in Admitted, srv[sid].k = k
      PROVE  k \in 1 .. Len(made) /\ SidOf(k) = sid
  BY <1>1 DEF ServerInv, Of
<1> QED
  BY <1>1 DEF ServerHolds

-----------------------------------------------------------------------------
(* Frames: what a part of the state that is left alone keeps.              *)

LEMMA ClientFrame ==
  ASSUME ClientInv, UNCHANGED client
  PROVE  /\ ClientInv' /\ Live' = Live /\ Issued' = Issued
         /\ \A k : ClientHolds(k)' = ClientHolds(k) /\ SidOf(k)' = SidOf(k)
         /\ \A k, sid : Of(k, sid)' = Of(k, sid)
<1> USE DEF client
<1>1. Live' = Live
  BY DEF Live
<1>2. Issued' = Issued
  BY <1>1 DEF Issued
<1>3. \A k : SidOf(k)' = SidOf(k)
  BY DEF SidOf
<1>4. \A k, sid : Of(k, sid)' = Of(k, sid)
  BY <1>3 DEF Of
<1>5. \A k : ClientHolds(k)' = ClientHolds(k)
  BY <1>2 DEF ClientHolds
<1>6. ClientTypes' /\ ClientLimits'
  BY <1>1 DEF ClientInv, ClientTypes, ClientLimits, Present
<1>7. Numbered' 
  BY <1>1, <1>4 DEF ClientInv, Numbered
<1>8. SessionsMirrorDsts' /\ NoneLeftWaiting'
  BY <1>1 DEF ClientInv, SessionsMirrorDsts, NoneLeftWaiting
<1> QED
  BY <1>1, <1>2, <1>3, <1>4, <1>5, <1>6, <1>7, <1>8 DEF ClientInv

LEMMA ServerFrame ==
  ASSUME ServerInv, UNCHANGED server, \A k, sid : Of(k, sid) => Of(k, sid)'
  PROVE  /\ ServerInv' /\ Admitted' = Admitted
         /\ \A k : ServerHolds(k)' = ServerHolds(k)
<1> USE DEF server
<1>1. Admitted' = Admitted
  BY DEF Admitted
<1>2. \A k : ServerHolds(k)' = ServerHolds(k)
  BY <1>1 DEF ServerHolds
<1>3. ServerInv'
  BY <1>1 DEF ServerInv, NothingParkedWhenLive
<1> QED
  BY <1>1, <1>2, <1>3

LEMMA NetFrame ==
  ASSUME NetInv, UNCHANGED net, \A k, sid : Of(k, sid) => Of(k, sid)'
  PROVE  NetInv'
BY DEF NetInv, net

LEMMA CrossFrame ==
  ASSUME CrossInv, UNCHANGED crossed,
         \A k \in 1 .. Len(made) : k \in 1 .. Len(made)' /\ SidOf(k)' = SidOf(k)
  PROVE  CrossInv'
BY DEF CrossInv

(* The stream of k, when what StreamInv looks at is left alone. *)
LEMMA StreamFrame ==
  ASSUME NEW k, StreamInv(k),
         c2s'[k] = c2s[k], s2c'[k] = s2c[k], SidOf(k)' = SidOf(k),
         ClientHolds(k)' <=> ClientHolds(k), ServerHolds(k)' <=> ServerHolds(k),
         ClientHolds(k) => sess'[SidOf(k)].phase = sess[SidOf(k)].phase,
         ClientHolds(k) /\ ServerHolds(k) =>
           (srv'[SidOf(k)].phase = "Live" <=> srv[SidOf(k)].phase = "Live")
  PROVE  StreamInv(k)'
BY DEF StreamInv

-----------------------------------------------------------------------------
(* The server's steps: the client's tables are left alone.                 *)

(* What is parked. *)
LEMMA BufferElements ==
  ASSUME NEW q \in Seq(Parked)
  PROVE  /\ Range(q) = ToSet(q)
         /\ \A e : e \in ToSet(q) <=> \E i \in 1 .. Len(q) : e = q[i]
BY DEF Range, ToSet

(* The buffer after filtering. *)
LEMMA FilteredBuffer ==
  ASSUME preopen \in Seq(Parked), NEW T
  PROVE  /\ Filter(preopen, T) \in Seq(Parked) /\ Len(Filter(preopen, T)) <= Len(preopen)
         /\ \A i \in 1 .. Len(Filter(preopen, T)) :
              Filter(preopen, T)[i] \in ToSet(preopen) /\ Filter(preopen, T)[i] \in T
<1> DEFINE q == Filter(preopen, T)
           U == ToSet(preopen) \cap T
<1>1. q \in Seq(U) /\ Len(q) <= Len(preopen)
  BY FilterProperties
<1>2. U \subseteq Parked
  BY BufferElements
<1> HIDE DEF q, U
<1>3. q \in Seq(Parked) /\ \A i \in 1 .. Len(q) : q[i] \in U
  BY <1>1, <1>2
<1> QED
  BY <1>1, <1>3 DEF q, U

(* Removing from the buffer all that is parked for sid. *)
LEMMA DiscardedBuffer ==
  ASSUME preopen \in Seq(Parked), NEW sid
  PROVE  /\ Discard(sid) \in Seq(Parked) /\ Len(Discard(sid)) <= Len(preopen)
         /\ \A i \in 1 .. Len(Discard(sid)) :
              /\ Discard(sid)[i].sid # sid
              /\ \E j \in 1 .. Len(preopen) : Discard(sid)[i] = preopen[j]
         /\ Rest(sid) = Discard(sid)
<1> DEFINE T == {e \in Range(preopen) : e.sid # sid}
<1>1. Discard(sid) = Filter(preopen, T) /\ Rest(sid) = Discard(sid)
  BY DEF Discard, Rest
<1>2. \A e \in T : e.sid # sid
  OBVIOUS
<1> HIDE DEF T
<1> QED
  BY <1>1, <1>2, FilteredBuffer, BufferElements

(* take_session, refuse, drop_data, end_session: the server drops a        *)
(* session; a reset it had of the client's is consumed.                    *)
LEMMA TakeKeeps ==
  ASSUME UInv, NEW sid \in Admitted, NEW m \in {"error", "reset"}, TakeSession(sid, m),
         UNCHANGED <<client, up, down>>,
         c2s' \in [Ks -> SUBSET {"open", "reset"}],
         \A j \in Ks : \/ c2s'[j] = c2s[j]
                       \/ j = srv[sid].k /\ "reset" \in c2s[j] /\ c2s'[j] = {}
  PROVE  UInv'
<1> DEFINE k == srv[sid].k
<1>1. /\ sid \in Sids /\ srv[sid] \in ServerSession /\ k \in 1 .. Len(made) /\ SidOf(k) = sid
      /\ k \in Ks
  BY AdmittedSession, MadeSids DEF UInv, ServerInv, Of, ClientInv, ServerSession
<1>2. /\ ClientInv' /\ Live' = Live /\ Issued' = Issued
      /\ \A j : ClientHolds(j)' = ClientHolds(j) /\ SidOf(j)' = SidOf(j)
      /\ \A j, s : Of(j, s)' = Of(j, s)
  BY ClientFrame DEF UInv
<1>3. /\ srv' = [srv EXCEPT ![sid] = None] /\ srv \in [Sids -> ServerSession \cup {None}]
      /\ UNCHANGED crossed
  BY DEF TakeSession, UInv, ServerInv
<1>4. Admitted' = Admitted \ {sid}
  BY <1>1, <1>3 DEF Admitted
<1>5. ASSUME NEW j PROVE ServerHolds(j)' <=> ServerHolds(j) /\ j # k
  <2>1. ServerHolds(j) <=> j \in 1 .. Len(made) /\ SidOf(j) \in Admitted /\ srv[SidOf(j)].k = j
    BY ServerHoldsIff DEF UInv
  <2>2. ServerHolds(j)' <=> \E s \in Admitted \ {sid} : srv[s].k = j
    BY <1>3, <1>4 DEF ServerHolds, Admitted
  <2>3. ASSUME NEW s \in Admitted, srv[s].k = j PROVE SidOf(j) = s
    BY <2>3 DEF UInv, ServerInv, Of
  <2>4. ServerHolds(j)' => ServerHolds(j) /\ j # k
    BY <1>1, <2>2, <2>3 DEF ServerHolds
  <2>5. ServerHolds(j) /\ j # k => ServerHolds(j)'
    BY <2>1, <2>2
  <2> QED BY <2>4, <2>5
<1>6. ServerInv'
  <2>1. srv' \in [Sids -> ServerSession \cup {None}]
    BY <1>1, <1>3
  <2>2. Cardinality(Admitted)' <= MAX_SESSIONS_PER_CONN
    <3>1. IsFiniteSet(Admitted)
      BY SidsAreRests, FS_Subset DEF Admitted
    <3>2. Cardinality(Admitted \ {sid}) <= Cardinality(Admitted)
          /\ Cardinality(Admitted) \in Nat /\ Cardinality(Admitted \ {sid}) \in Nat
      BY <3>1, FS_Subset, FS_CardinalityType
    <3> QED BY <1>4, <3>2, Constants DEF UInv, ServerInv
  <2>3. \A s \in Admitted' : Of(srv[s].k, s)' /\ srv'[s] = srv[s]
    BY <1>1, <1>2, <1>3, <1>4 DEF UInv, ServerInv, Admitted
  <2>4. preopen' = Discard(sid) /\ preopen \in Seq(Parked) /\ Len(preopen) <= PREOPEN_DGRAMS
    BY DEF TakeSession, UInv, ServerInv
  <2>5. /\ preopen' \in Seq(Parked) /\ Len(preopen') <= Len(preopen)
        /\ \A i \in 1 .. Len(preopen') :
              /\ preopen'[i].sid # sid
              /\ \E j \in 1 .. Len(preopen) : preopen'[i] = preopen[j]
    BY <2>4, DiscardedBuffer
  <2>6. Len(preopen') <= PREOPEN_DGRAMS
    BY <2>4, <2>5, Constants
  <2>7. \A i \in 1 .. Len(preopen') : Of(preopen[i].k, preopen[i].sid)'
    BY <2>5, <1>2 DEF UInv, ServerInv
  <2>8. NothingParkedWhenLive'
    <3>1. \A j \in 1 .. Len(preopen) : preopen[j].sid \in Admitted => srv[preopen[j].sid].phase # "Live"
      BY <2>4 DEF UInv, ServerInv, NothingParkedWhenLive
    <3>2. DOMAIN preopen' = 1 .. Len(preopen') BY <2>5
    <3>3. ASSUME NEW i \in 1 .. Len(preopen'), preopen'[i].sid \in Admitted'
          PROVE  srv'[preopen'[i].sid].phase # "Live"
      <4>1. PICK j \in 1 .. Len(preopen) : preopen'[i] = preopen[j] BY <2>5
      <4>2. preopen[j].sid \in Admitted' BY <3>3, <4>1
      <4>3. preopen[j].sid \in Admitted BY <1>4, <4>2
      <4> QED BY <2>3, <3>1, <4>1, <4>2, <4>3
    <3> QED BY <3>2, <3>3 DEF NothingParkedWhenLive
  <2> QED BY <2>1, <2>2, <2>3, <2>5, <2>6, <2>7, <2>8 DEF ServerInv
<1>7. /\ s2c' \in [Ks -> SUBSET {"ok", "error", "reset"}]
      /\ \A j \in Ks : s2c'[j] = IF j = k /\ ClientHolds(k) THEN s2c[k] \cup {m} ELSE s2c[j]
  BY <1>1 DEF TakeSession, Answer, UInv, NetInv
<1>8. NetInv'
  BY <1>2, <1>7 DEF UInv, NetInv
<1>9. CrossInv'
  BY <1>2, <1>3, CrossFrame DEF UInv, client
<1>10. Quiet'
  <2>1. udp' = udp /\ made' = made
    BY DEF client
  <2> QED BY <2>1, <1>4 DEF UInv, Quiet
<1>11. ASSUME NEW j \in Ks PROVE StreamInv(j)'
  <2>1. StreamInv(j)
    BY DEF UInv
  <2>2. CASE j = k
    <3>1. ServerHolds(j) /\ ~ServerHolds(j)'
      BY <1>1, <1>5, <2>2 DEF ServerHolds
    <3>2. ClientHolds(j)' = ClientHolds(j) /\ "open" \notin c2s'[j]
      BY <1>2, <2>1, <3>1 DEF StreamInv
    <3> QED BY <2>1, <2>2, <3>1, <3>2, <1>7 DEF StreamInv
  <2>3. CASE j # k
    <3>1. ServerHolds(j)' <=> ServerHolds(j)
      BY <1>5, <2>3
    <3>2. ServerHolds(j) => SidOf(j) # sid /\ SidOf(j) \in Sids
      <4>1. ServerHolds(j) => SidOf(j) \in Admitted /\ srv[SidOf(j)].k = j
        BY ServerHoldsIff DEF UInv
      <4> QED BY <4>1, <2>3 DEF Admitted
    <3>3. ServerHolds(j) => srv'[SidOf(j)] = srv[SidOf(j)]
      BY <3>2, <1>3
    <3>4. sess' = sess /\ c2s'[j] = c2s[j] /\ s2c'[j] = s2c[j]
      BY <2>3, <1>7 DEF client
    <3> QED BY <1>2, <2>1, <3>1, <3>3, <3>4, StreamFrame
  <2> QED BY <2>2, <2>3
<1> QED
  BY <1>2, <1>6, <1>8, <1>9, <1>10, <1>11 DEF UInv

(* A session of the server moves on and keeps its stream. *)
LEMMA Touched ==
  ASSUME UInv, NEW sid \in Admitted, NEW x \in ServerSession, x.k = srv[sid].k,
         srv' = [srv EXCEPT ![sid] = x], UNCHANGED client
  PROVE  /\ Admitted' = Admitted /\ \A j : ServerHolds(j)' <=> ServerHolds(j)
         /\ srv' \in [Sids -> ServerSession \cup {None}] /\ srv'[sid] = x
         /\ Cardinality(Admitted)' <= MAX_SESSIONS_PER_CONN
         /\ \A s \in Sids : s # sid => srv'[s] = srv[s]
         /\ \A s \in Admitted' : Of(srv[s].k, s)'
<1>1. sid \in Sids /\ srv \in [Sids -> ServerSession \cup {None}]
      /\ Cardinality(Admitted) <= MAX_SESSIONS_PER_CONN
  BY DEF UInv, ServerInv, Admitted
<1>2. /\ srv' \in [Sids -> ServerSession \cup {None}] /\ srv'[sid] = x
      /\ \A s \in Sids : s # sid => srv'[s] = srv[s]
  BY <1>1
<1>3. x # None
  BY Constants
<1>4. Admitted' = Admitted
  BY <1>1, <1>2, <1>3 DEF Admitted
<1>5. \A s \in Admitted : srv'[s].k = srv[s].k
  BY <1>1, <1>2 DEF Admitted
<1>6. \A j : ServerHolds(j)' <=> ServerHolds(j)
  BY <1>4, <1>5 DEF ServerHolds
<1>7. \A s \in Admitted' : Of(srv[s].k, s)'
  <2>1. \A j, s : Of(j, s)' = Of(j, s)
    BY ClientFrame DEF UInv
  <2> QED BY <1>4, <1>5, <2>1 DEF UInv, ServerInv
<1> QED
  BY <1>1, <1>2, <1>4, <1>6, <1>7

LEMMA TouchKeeps ==
  ASSUME UInv, NEW sid \in Admitted, NEW x \in ServerSession, x.k = srv[sid].k,
         x.phase = "Live" <=> srv[sid].phase = "Live",
         srv' = [srv EXCEPT ![sid] = x], UNCHANGED <<client, c2s, s2c, up, preopen>>,
         down' \subseteq down \cup {<<sid, srv[sid].k>>}, CrossInv'
  PROVE  UInv'
<1>1. /\ ClientInv' /\ \A j : ClientHolds(j)' = ClientHolds(j) /\ SidOf(j)' = SidOf(j)
      /\ \A j, s : Of(j, s)' = Of(j, s)
  BY ClientFrame DEF UInv
<1>2. /\ Admitted' = Admitted /\ \A j : ServerHolds(j)' <=> ServerHolds(j)
      /\ srv' \in [Sids -> ServerSession \cup {None}] /\ srv'[sid] = x
      /\ Cardinality(Admitted)' <= MAX_SESSIONS_PER_CONN
      /\ \A s \in Sids : s # sid => srv'[s] = srv[s]
      /\ \A s \in Admitted' : Of(srv[s].k, s)'
  BY Touched
<1>3. \A s \in Sids : srv'[s].phase = "Live" <=> srv[s].phase = "Live"
  BY <1>2
<1>4. ServerInv'
  <2>1. NothingParkedWhenLive'
    BY <1>2, <1>3 DEF UInv, ServerInv, NothingParkedWhenLive, Admitted
  <2> QED BY <1>1, <1>2, <2>1 DEF UInv, ServerInv
<1>5. NetInv'
  <2>1. sid \in Sids /\ srv[sid].k \in Ks /\ Of(srv[sid].k, sid)
    BY AdmittedSession DEF UInv, ServerInv, ServerSession
  <2>2. <<sid, srv[sid].k>> \in Sids \X Ks
    BY <2>1
  <2>3. \A m \in down' : m \in Sids \X Ks /\ Of(m[2], m[1])
    BY <2>1, <2>2 DEF UInv, NetInv
  <2> QED BY <1>1, <2>3 DEF UInv, NetInv
<1>6. Quiet'
  BY <1>2 DEF UInv, Quiet, client
<1>7. ASSUME NEW j \in Ks PROVE StreamInv(j)'
  <2>1. StreamInv(j) /\ sess' = sess /\ c2s' = c2s /\ s2c' = s2c
    BY DEF UInv, client
  <2>2. ServerHolds(j) => SidOf(j) \in Sids
    BY ServerHoldsIff DEF UInv, Admitted
  <2> QED BY <1>1, <1>2, <1>3, <2>1, <2>2, StreamFrame
<1> QED
  BY <1>1, <1>4, <1>5, <1>6, <1>7 DEF UInv

(* A packet is handed to a session that bears its sid. *)
LEMMA HandKeeps ==
  ASSUME UInv, UNCHANGED client,
         \A x \in crossed' : \/ x \in crossed
                             \/ \E k, j, s : /\ Of(k, s) /\ Of(j, s)
                                             /\ k # j /\ x = <<k, j>>
  PROVE  CrossInv'
<1>1. /\ \A j : SidOf(j)' = SidOf(j)
      /\ made' = made
  BY ClientFrame DEF UInv, client
<1> QED
  BY <1>1 DEF CrossInv, UInv, Of

LEMMA HandElements ==
  ASSUME NEW k, NEW j
  PROVE  \A x \in Hand(k, j) : k # j /\ x = <<k, j>>
BY DEF Hand

(* Only the pre-OPEN buffer changes. *)
LEMMA BufferKeeps ==
  ASSUME UInv, UNCHANGED <<client, net, srv, crossed>>,
         preopen' \in Seq(Parked), Len(preopen') <= PREOPEN_DGRAMS,
         \A i \in 1 .. Len(preopen') :
           /\ Of(preopen'[i].k, preopen'[i].sid)
           /\ preopen'[i].sid \in Admitted => srv[preopen'[i].sid].phase # "Live"
  PROVE  UInv'
<1>1. /\ ClientInv' /\ \A j : ClientHolds(j)' = ClientHolds(j) /\ SidOf(j)' = SidOf(j)
      /\ \A j, s : Of(j, s)' = Of(j, s)
  BY ClientFrame DEF UInv
<1>2. Admitted' = Admitted
  BY DEF Admitted
<1>3. \A j : ServerHolds(j)' <=> ServerHolds(j)
  BY <1>2 DEF ServerHolds
<1>4. ServerInv'
  <2>1. NothingParkedWhenLive'
    BY <1>2 DEF NothingParkedWhenLive
  <2>2. \A i \in 1 .. Len(preopen') : Of(preopen[i].k, preopen[i].sid)'
    BY <1>1
  <2>3. \A s \in Admitted' : Of(srv[s].k, s)'
    BY <1>1, <1>2 DEF UInv, ServerInv
  <2> QED BY <1>2, <2>1, <2>2, <2>3 DEF UInv, ServerInv
<1>5. NetInv' /\ CrossInv'
  <2>1. made' = made
    BY DEF client
  <2> QED BY <1>1, <2>1, NetFrame, CrossFrame DEF UInv
<1>6. Quiet'
  BY <1>2 DEF UInv, Quiet, client, net
<1>7. ASSUME NEW j \in Ks PROVE StreamInv(j)'
  <2>1. StreamInv(j) /\ sess' = sess /\ c2s' = c2s /\ s2c' = s2c
    BY DEF UInv, client, net
  <2> QED BY <1>1, <1>3, <2>1, StreamFrame
<1> QED
  BY <1>1, <1>4, <1>5, <1>6, <1>7 DEF UInv

(* The values a session of the server moves to. *)
LEMMA SessionValues ==
  ASSUME UInv, NEW sid \in Admitted
  PROVE  /\ \A ph \in {"Resolving", "Opening", "Live"} :
              /\ [srv[sid] EXCEPT !.phase = ph] \in ServerSession
              /\ [srv[sid] EXCEPT !.phase = ph].k = srv[sid].k
              /\ [srv[sid] EXCEPT !.phase = ph].phase = ph
              /\ [srv EXCEPT ![sid].phase = ph] = [srv EXCEPT ![sid] = [srv[sid] EXCEPT !.phase = ph]]
         /\ \A b \in BOOLEAN :
              /\ [srv[sid] EXCEPT !.active = b] \in ServerSession
              /\ [srv[sid] EXCEPT !.active = b].k = srv[sid].k
              /\ [srv[sid] EXCEPT !.active = b].phase = srv[sid].phase
              /\ [srv EXCEPT ![sid].active = b] = [srv EXCEPT ![sid] = [srv[sid] EXCEPT !.active = b]]
<1>1. srv[sid] \in ServerSession
  BY AdmittedSession DEF UInv
<1> QED
  BY <1>1 DEF ServerSession

LEMMA UdpResolvedKeeps ==
  ASSUME UInv, NEW sid \in Sids, UdpResolved(sid)
  PROVE  UInv'
<1>1. sid \in Admitted /\ srv[sid].phase = "Resolving" /\ UNCHANGED <<client, c2s, up, down>>
  BY DEF UdpResolved
<1>2. CASE TakeSession(sid, "error")
  BY <1>1, <1>2, TakeKeeps DEF UInv, NetInv
<1>3. CASE srv' = [srv EXCEPT ![sid].phase = "Opening"] /\ UNCHANGED <<preopen, s2c, crossed>>
  <2> DEFINE x == [srv[sid] EXCEPT !.phase = "Opening"]
  <2>1. /\ x \in ServerSession /\ x.k = srv[sid].k /\ x.phase = "Opening"
        /\ srv' = [srv EXCEPT ![sid] = x]
    BY <1>1, <1>3, SessionValues
  <2>2. CrossInv'
    BY <1>1, <1>3, HandKeeps
  <2> HIDE DEF x
  <2> QED BY <1>1, <1>3, <2>1, <2>2, TouchKeeps
<1> QED
  BY <1>2, <1>3 DEF UdpResolved

LEMMA UdpReplyKeeps ==
  ASSUME UInv, NEW sid \in Sids, UdpReply(sid)
  PROVE  UInv'
<1>1. /\ sid \in Admitted /\ UNCHANGED <<client, c2s, s2c, up, preopen, crossed>>
      /\ down' = down \cup {<<sid, srv[sid].k>>}
  BY DEF UdpReply
<1> DEFINE x == [srv[sid] EXCEPT !.active = TRUE]
<1>2. /\ x \in ServerSession /\ x.k = srv[sid].k /\ x.phase = srv[sid].phase
      /\ srv' = [srv EXCEPT ![sid] = x]
  BY <1>1, SessionValues DEF UdpReply
<1>3. CrossInv'
  BY <1>1, HandKeeps
<1> HIDE DEF x
<1> QED
  BY <1>1, <1>2, <1>3, TouchKeeps

LEMMA UdpIdleKeeps ==
  ASSUME UInv, NEW sid \in Sids, UdpIdle(sid)
  PROVE  UInv'
<1>1. sid \in Admitted /\ UNCHANGED <<client, c2s, up, down>>
  BY DEF UdpIdle
<1>2. CASE TakeSession(sid, "reset")
  BY <1>1, <1>2, TakeKeeps DEF UInv, NetInv
<1>3. CASE srv' = [srv EXCEPT ![sid].active = FALSE] /\ UNCHANGED <<preopen, s2c, crossed>>
  <2> DEFINE x == [srv[sid] EXCEPT !.active = FALSE]
  <2>1. /\ x \in ServerSession /\ x.k = srv[sid].k /\ x.phase = srv[sid].phase
        /\ srv' = [srv EXCEPT ![sid] = x]
    BY <1>1, <1>3, SessionValues
  <2>2. CrossInv'
    BY <1>1, <1>3, HandKeeps
  <2> HIDE DEF x
  <2> QED BY <1>1, <1>3, <2>1, <2>2, TouchKeeps
<1> QED
  BY <1>2, <1>3 DEF UdpIdle

(* The parked datagrams of a session go out when its socket opens, and its *)
(* RESP OK is sent.                                                        *)
LEMMA UdpSocketKeeps ==
  ASSUME UInv, NEW sid \in Sids, UdpSocket(sid)
  PROVE  UInv'
<1> DEFINE k == srv[sid].k
           x == [srv[sid] EXCEPT !.phase = "Live"]
<1>1. sid \in Admitted /\ srv[sid].phase = "Opening" /\ UNCHANGED <<client, c2s, up, down>>
  BY DEF UdpSocket
<1>2. CASE TakeSession(sid, "error") \/ TakeSession(sid, "reset")
  BY <1>1, <1>2, TakeKeeps DEF UInv, NetInv
<1>3. CASE /\ srv' = [srv EXCEPT ![sid].phase = "Live"]
           /\ s2c' = Answer(srv[sid].k, "ok")
           /\ preopen' = Rest(sid)
           /\ crossed' = crossed \cup UNION {Hand(p, srv[sid].k) : p \in Taken(sid)}
  <2>1. /\ x \in ServerSession /\ x.k = k /\ x.phase = "Live"
        /\ srv' = [srv EXCEPT ![sid] = x]
    BY <1>1, <1>3, SessionValues
  <2>2. /\ Admitted' = Admitted /\ \A j : ServerHolds(j)' <=> ServerHolds(j)
        /\ srv' \in [Sids -> ServerSession \cup {None}] /\ srv'[sid] = x
        /\ Cardinality(Admitted)' <= MAX_SESSIONS_PER_CONN
        /\ \A s \in Sids : s # sid => srv'[s] = srv[s]
        /\ \A s \in Admitted' : Of(srv[s].k, s)'
    BY <1>1, <2>1, Touched
  <2>3. k \in Ks /\ Of(k, sid)
    BY <1>1, AdmittedSession DEF UInv, ServerInv, ServerSession
  <2> HIDE DEF x
  <2>4. /\ ClientInv' /\ \A j : ClientHolds(j)' = ClientHolds(j) /\ SidOf(j)' = SidOf(j)
        /\ \A j, s : Of(j, s)' = Of(j, s)
    BY <1>1, ClientFrame DEF UInv
  <2>5. preopen \in Seq(Parked) /\ Len(preopen) <= PREOPEN_DGRAMS
    BY DEF UInv, ServerInv
  <2>6. /\ preopen' \in Seq(Parked) /\ Len(preopen') <= Len(preopen)
        /\ \A i \in 1 .. Len(preopen') :
             /\ preopen'[i].sid # sid
             /\ \E j \in 1 .. Len(preopen) : preopen'[i] = preopen[j]
    BY <1>3, <2>5, DiscardedBuffer
  <2>7. ServerInv'
    <3>1. NothingParkedWhenLive'
      <4>1. ASSUME NEW i \in 1 .. Len(preopen'), preopen'[i].sid \in Admitted
            PROVE  srv'[preopen'[i].sid].phase # "Live"
        <5>1. PICK j \in 1 .. Len(preopen) : preopen'[i] = preopen[j]
          BY <2>6
        <5>2. srv[preopen[j].sid].phase # "Live" /\ preopen[j].sid \in Sids /\ preopen[j].sid # sid
          BY <4>1, <5>1, <2>5, <2>6 DEF UInv, ServerInv, NothingParkedWhenLive, Admitted
        <5> QED BY <5>1, <5>2, <2>2
      <4> QED BY <4>1, <2>2, <2>6 DEF NothingParkedWhenLive
    <3>2. \A i \in 1 .. Len(preopen') : Of(preopen[i].k, preopen[i].sid)'
      BY <2>4, <2>6 DEF UInv, ServerInv
    <3>3. Len(preopen') <= PREOPEN_DGRAMS
      BY <2>5, <2>6, Constants
    <3> QED BY <2>2, <2>6, <3>1, <3>2, <3>3 DEF ServerInv
  <2>8. CrossInv'
    <3>1. ASSUME NEW p \in Taken(sid) PROVE Of(p, sid)
      BY <2>5 DEF Taken, UInv, ServerInv, Range
    <3>2. ASSUME NEW y \in crossed' \ crossed
          PROVE  \E p \in Taken(sid) : p # k /\ y = <<p, k>>
      BY <1>3, <3>2, HandElements
    <3>3. \A y \in crossed' \ crossed : \E p, j, s : Of(p, s) /\ Of(j, s) /\ p # j /\ y = <<p, j>>
      BY <2>3, <3>1, <3>2
    <3> QED BY <1>1, <3>3, HandKeeps
  <2>9. /\ s2c' \in [Ks -> SUBSET {"ok", "error", "reset"}]
        /\ \A j \in Ks : s2c'[j] = IF j = k /\ ClientHolds(k) THEN s2c[k] \cup {"ok"} ELSE s2c[j]
    BY <1>3, <2>3 DEF Answer, UInv, NetInv
  <2>10. NetInv'
    BY <1>1, <2>4, <2>9 DEF UInv, NetInv
  <2>11. Quiet'
    BY <1>1, <2>2 DEF UInv, Quiet, client
  <2>12. ASSUME NEW j \in Ks PROVE StreamInv(j)'
    <3>1. StreamInv(j) /\ sess' = sess /\ c2s' = c2s
      BY <1>1 DEF UInv, client
    <3>2. CASE j = k
      <4>1. ServerHolds(j) /\ SidOf(j) = sid
        BY <1>1, <2>3, <3>2 DEF ServerHolds, Of
      <4>2. ServerHolds(j)' /\ SidOf(j)' = sid /\ ClientHolds(j)' = ClientHolds(j)
        BY <4>1, <2>2, <2>4
      <4> QED BY <1>1, <2>1, <2>2, <2>9, <3>1, <3>2, <4>1, <4>2 DEF StreamInv
    <3>3. CASE j # k
      <4>1. s2c'[j] = s2c[j]
        BY <2>9, <3>3
      <4>2. ServerHolds(j) => SidOf(j) \in Sids /\ SidOf(j) # sid
        BY <3>3, ServerHoldsIff DEF UInv, Admitted
      <4>3. ServerHolds(j) => srv'[SidOf(j)] = srv[SidOf(j)]
        BY <2>2, <4>2
      <4> QED BY <2>2, <2>4, <3>1, <4>1, <4>3, StreamFrame
    <3> QED BY <3>2, <3>3
  <2> QED BY <2>4, <2>7, <2>8, <2>10, <2>11, <2>12 DEF UInv
<1> QED
  BY <1>1, <1>2, <1>3 DEF UdpSocket

LEMMA PreopenAgesKeeps ==
  ASSUME UInv, PreopenAges
  PROVE  UInv'
<1>1. preopen \in Seq(Parked) /\ Len(preopen) <= PREOPEN_DGRAMS
  BY DEF UInv, ServerInv
<1>2. PICK i \in 1 .. Len(preopen) : preopen' = [preopen EXCEPT ![i].old = TRUE]
  <2>1. DOMAIN preopen = 1 .. Len(preopen)
    BY <1>1
  <2>2. \E i \in DOMAIN preopen : preopen' = [preopen EXCEPT ![i].old = TRUE]
    BY Zenon DEF PreopenAges
  <2> QED BY <2>1, <2>2, Zenon
<1> DEFINE aged == [preopen[i] EXCEPT !.old = TRUE]
<1>3. aged \in Parked /\ aged.k = preopen[i].k /\ aged.sid = preopen[i].sid
  <2>1. preopen[i] \in Parked
    BY <1>1
  <2> QED BY <2>1 DEF Parked
<1>4. /\ preopen' \in Seq(Parked) /\ Len(preopen') = Len(preopen)
      /\ \A j \in 1 .. Len(preopen) :
           preopen'[j] = IF j = i THEN aged ELSE preopen[j]
  BY <1>1, <1>2, <1>3
<1> HIDE DEF aged
<1>5. \A j \in 1 .. Len(preopen) :
        preopen'[j].k = preopen[j].k /\ preopen'[j].sid = preopen[j].sid
  BY <1>3, <1>4
<1>6. \A j \in 1 .. Len(preopen) :
        /\ Of(preopen[j].k, preopen[j].sid)
        /\ preopen[j].sid \in Admitted => srv[preopen[j].sid].phase # "Live"
  BY <1>1 DEF UInv, ServerInv, NothingParkedWhenLive
<1> QED
  BY <1>1, <1>4, <1>5, <1>6, BufferKeeps DEF PreopenAges

(* The buffer after one more datagram. *)
LEMMA PushedBuffer ==
  ASSUME preopen \in Seq(Parked), Len(preopen) <= PREOPEN_DGRAMS, NEW m \in Sids \X Ks
  PROVE  /\ Push(m) \in Seq(Parked) /\ Len(Push(m)) <= PREOPEN_DGRAMS
         /\ \A i \in 1 .. Len(Push(m)) :
              \/ Push(m)[i].sid = m[1] /\ Push(m)[i].k = m[2]
              \/ \E j \in 1 .. Len(preopen) : Push(m)[i] = preopen[j]
<1> DEFINE T == {e \in Range(preopen) : ~e.old}
           kept == Filter(preopen, T)
           room == IF Len(kept) < PREOPEN_DGRAMS THEN kept ELSE Tail(kept)
           new == [sid |-> m[1], k |-> m[2], old |-> FALSE]
<1>1. Push(m) = Append(room, new)
  BY DEF Push
<1>2. /\ kept \in Seq(Parked) /\ Len(kept) <= Len(preopen)
      /\ \A i \in 1 .. Len(kept) : kept[i] \in ToSet(preopen)
  BY FilteredBuffer
<1>3. new \in Parked /\ new.sid = m[1] /\ new.k = m[2]
  BY DEF Parked
<1>4. PREOPEN_DGRAMS \in Nat \ {0} /\ Len(preopen) \in Nat
  BY Constants
<1> HIDE DEF kept, new
<1>5. /\ room \in Seq(Parked) /\ Len(room) < PREOPEN_DGRAMS
      /\ \A i \in 1 .. Len(room) : room[i] \in ToSet(preopen)
  <2>1. CASE Len(kept) < PREOPEN_DGRAMS
    BY <1>2, <2>1
  <2>2. CASE ~(Len(kept) < PREOPEN_DGRAMS)
    <3>1. Len(kept) = PREOPEN_DGRAMS /\ Len(kept) \in Nat \ {0}
      BY <1>2, <1>4, <2>2
    <3>2. /\ Tail(kept) \in Seq(Parked) /\ Len(Tail(kept)) = Len(kept) - 1
          /\ \A i \in 1 .. Len(Tail(kept)) : Tail(kept)[i] = kept[i + 1]
      BY <1>2, <3>1
    <3>3. \A i \in 1 .. Len(Tail(kept)) : Tail(kept)[i] \in ToSet(preopen)
      BY <1>2, <3>1, <3>2
    <3> QED BY <2>2, <3>1, <3>2, <3>3
  <2> QED BY <2>1, <2>2
<1> HIDE DEF room
<1>6. /\ Append(room, new) \in Seq(Parked) /\ Len(Append(room, new)) = Len(room) + 1
      /\ \A i \in 1 .. Len(room) + 1 :
           Append(room, new)[i] = IF i = Len(room) + 1 THEN new ELSE room[i]
  BY <1>3, <1>5
<1>7. Len(Push(m)) <= PREOPEN_DGRAMS /\ Push(m) \in Seq(Parked)
  BY <1>1, <1>4, <1>5, <1>6
<1>8. ASSUME NEW i \in 1 .. Len(Push(m))
      PROVE  \/ Push(m)[i].sid = m[1] /\ Push(m)[i].k = m[2]
             \/ Push(m)[i] \in ToSet(preopen)
  <2>1. i \in 1 .. Len(room) + 1
    BY <1>1, <1>6
  <2>2. CASE i = Len(room) + 1
    BY <1>1, <1>3, <1>6, <2>1, <2>2
  <2>3. CASE i # Len(room) + 1
    <3>1. i \in 1 .. Len(room)
      BY <1>5, <2>1, <2>3
    <3> QED BY <1>1, <1>5, <1>6, <2>1, <2>3, <3>1
  <2> QED BY <2>2, <2>3
<1> QED
  BY <1>7, <1>8, BufferElements

LEMMA UdpDeliverKeeps ==
  ASSUME UInv, NEW m \in up, UdpDeliver(m)
  PROVE  UInv'
<1>1. UNCHANGED <<client, net>> /\ m \in Sids \X Ks /\ Of(m[2], m[1])
  BY DEF UdpDeliver, UInv, NetInv
<1>2. CASE /\ m[1] \in Admitted => srv[m[1]].phase # "Live"
           /\ preopen' = Push(m) /\ UNCHANGED <<crossed, srv>>
  <2>1. preopen \in Seq(Parked) /\ Len(preopen) <= PREOPEN_DGRAMS
    BY DEF UInv, ServerInv
  <2>2. /\ preopen' \in Seq(Parked) /\ Len(preopen') <= PREOPEN_DGRAMS
        /\ \A i \in 1 .. Len(preopen') :
              \/ preopen'[i].sid = m[1] /\ preopen'[i].k = m[2]
              \/ \E j \in 1 .. Len(preopen) : preopen'[i] = preopen[j]
    BY <1>1, <1>2, <2>1, PushedBuffer
  <2>3. \A j \in 1 .. Len(preopen) :
          /\ Of(preopen[j].k, preopen[j].sid)
          /\ preopen[j].sid \in Admitted => srv[preopen[j].sid].phase # "Live"
    BY <2>1 DEF UInv, ServerInv, NothingParkedWhenLive
  <2>4. \A i \in 1 .. Len(preopen') :
          /\ Of(preopen'[i].k, preopen'[i].sid)
          /\ preopen'[i].sid \in Admitted => srv[preopen'[i].sid].phase # "Live"
    BY <1>1, <1>2, <2>2, <2>3
  <2> QED BY <1>1, <1>2, <2>2, <2>4, BufferKeeps
<1>3. CASE m[1] \in Admitted /\ UNCHANGED <<preopen, crossed, srv>>
  <2>1. \A i \in 1 .. Len(preopen) :
          /\ Of(preopen[i].k, preopen[i].sid)
          /\ preopen[i].sid \in Admitted => srv[preopen[i].sid].phase # "Live"
    BY DEF UInv, ServerInv, NothingParkedWhenLive
  <2>2. preopen \in Seq(Parked) /\ Len(preopen) <= PREOPEN_DGRAMS
    BY DEF UInv, ServerInv
  <2> QED BY <1>1, <1>3, <2>1, <2>2, BufferKeeps
<1>4. CASE /\ m[1] \in Admitted /\ UNCHANGED preopen
           /\ crossed' = crossed \cup Hand(m[2], srv[m[1]].k)
           /\ srv' = [srv EXCEPT ![m[1]].active = TRUE]
  <2> DEFINE sid == m[1]
             x == [srv[sid] EXCEPT !.active = TRUE]
  <2>1. /\ x \in ServerSession /\ x.k = srv[sid].k /\ x.phase = srv[sid].phase
        /\ srv' = [srv EXCEPT ![sid] = x]
    BY <1>4, SessionValues
  <2>2. Of(srv[sid].k, sid)
    BY <1>4 DEF UInv, ServerInv
  <2>3. CrossInv'
    BY <1>1, <1>4, <2>2, HandKeeps, HandElements
  <2>4. UNCHANGED <<c2s, s2c, up, preopen>> /\ down' \subseteq down \cup {<<sid, srv[sid].k>>}
    BY <1>1, <1>4 DEF net
  <2> HIDE DEF x
  <2> QED BY <1>1, <1>4, <2>1, <2>3, <2>4, TouchKeeps
<1> QED
  BY <1>2, <1>3, <1>4 DEF UdpDeliver

(* deliver: only the history of astray packets changes. *)
LEMMA DeliverKeeps ==
  ASSUME UInv, NEW m \in down, Deliver(m)
  PROVE  UInv'
<1>1. UNCHANGED <<client, net, server>> /\ Of(m[2], m[1]) /\ made' = made
  BY DEF Deliver, UInv, NetInv, client
<1>2. /\ ClientInv' /\ \A j : ClientHolds(j)' = ClientHolds(j) /\ SidOf(j)' = SidOf(j)
      /\ \A j, s : Of(j, s)' = Of(j, s)
  BY <1>1, ClientFrame DEF UInv
<1>3. ServerInv' /\ Admitted' = Admitted /\ \A j : ServerHolds(j)' = ServerHolds(j)
  BY <1>1, <1>2, ServerFrame DEF UInv
<1>4. NetInv'
  BY <1>1, <1>2, NetFrame DEF UInv
<1>5. CrossInv'
  <2>1. m[1] \in Live => Of(sess[m[1]].k, m[1])
    BY DEF UInv, ClientInv, Numbered
  <2> QED BY <1>1, <2>1, HandKeeps, HandElements DEF Deliver
<1>6. Quiet'
  BY <1>1, <1>3 DEF UInv, Quiet, client, net
<1>7. ASSUME NEW j \in Ks PROVE StreamInv(j)'
  <2>1. StreamInv(j) /\ sess' = sess /\ c2s' = c2s /\ s2c' = s2c /\ srv' = srv
    BY <1>1 DEF UInv, client, net, server
  <2> QED BY <1>2, <1>3, <2>1, StreamFrame
<1> QED
  BY <1>2, <1>3, <1>4, <1>5, <1>6, <1>7 DEF UInv

(* udp_open: refused or reset, or admitted under a sid that was free. *)
LEMMA UdpOpenKeeps ==
  ASSUME UInv, NEW k \in Ks, UdpOpen(k)
  PROVE  UInv'
<1> DEFINE sid == SidOf(k)
<1>1. /\ k \in 1 .. Len(made) /\ "open" \in c2s[k]
      /\ c2s' = [c2s EXCEPT ![k] = @ \ {"open"}] /\ UNCHANGED <<client, up, down, preopen, crossed>>
  BY DEF UdpOpen, UInv, ClientInv, ClientTypes
<1>2. /\ StreamInv(k) /\ ~ServerHolds(k) /\ s2c[k] = {} /\ (ClientHolds(k) \/ "reset" \in c2s[k])
  BY <1>1 DEF UInv, StreamInv
<1>3. /\ ClientInv' /\ \A j : ClientHolds(j)' = ClientHolds(j) /\ SidOf(j)' = SidOf(j)
      /\ \A j, s : Of(j, s)' = Of(j, s)
  BY <1>1, ClientFrame DEF UInv
<1>4. /\ c2s' \in [Ks -> SUBSET {"open", "reset"}] /\ c2s'[k] = c2s[k] \ {"open"}
      /\ \A j \in Ks : j # k => c2s'[j] = c2s[j]
  BY <1>1 DEF UInv, NetInv
<1>5. CrossInv'
  BY <1>1, <1>3, CrossFrame DEF UInv, client
<1>6. udp = "Available" /\ udp' = udp /\ sess' = sess /\ made' = made
  BY <1>1 DEF UInv, Quiet, client
<1>7. ASSUME NEW m \in {"error", "reset"}, s2c' = Answer(k, m), UNCHANGED srv
      PROVE  UInv'
  <2>1. ServerInv' /\ Admitted' = Admitted /\ \A j : ServerHolds(j)' = ServerHolds(j)
    BY <1>1, <1>3, <1>7, ServerFrame DEF UInv, server
  <2>2. /\ s2c' \in [Ks -> SUBSET {"ok", "error", "reset"}]
        /\ s2c'[k] = IF ClientHolds(k) THEN {m} ELSE {}
        /\ \A j \in Ks : j # k => s2c'[j] = s2c[j]
    BY <1>2, <1>7 DEF Answer, UInv, NetInv
  <2>3. NetInv'
    BY <1>1, <1>3, <1>4, <2>2 DEF UInv, NetInv
  <2>4. Quiet'
    BY <1>1, <1>4, <1>6, <2>1 DEF UInv, Quiet
  <2>5. StreamInv(k)'
    BY <1>2, <1>3, <1>4, <1>7, <2>1, <2>2 DEF StreamInv
  <2>6. ASSUME NEW j \in Ks, j # k PROVE StreamInv(j)'
    <3>1. StreamInv(j)
      BY DEF UInv
    <3> QED BY <1>3, <1>4, <1>6, <1>7, <2>1, <2>2, <2>6, <3>1, StreamFrame
  <2> QED BY <1>3, <1>5, <2>1, <2>3, <2>4, <2>5, <2>6 DEF UInv
<1>8. ASSUME sid \notin Admitted, Cardinality(Admitted) < MAX_SESSIONS_PER_CONN, UNCHANGED s2c,
             srv' = [srv EXCEPT ![sid] = [k |-> k, phase |-> "Resolving", active |-> FALSE]]
      PROVE  UInv'
  <2> DEFINE x == [k |-> k, phase |-> "Resolving", active |-> FALSE]
  <2>1. x \in ServerSession /\ x.k = k /\ x.phase = "Resolving" /\ x # None
    <3>1. x \in ServerSession
      BY DEF ServerSession
    <3>2. x # None
      <4> HIDE DEF x
      <4> QED BY <3>1, Constants
    <3> QED BY <3>1, <3>2
  <2>2. sid \in Sids /\ srv \in [Sids -> ServerSession \cup {None}]
    BY <1>1, MadeSids DEF UInv, ClientInv, ServerInv
  <2>3. srv' = [srv EXCEPT ![sid] = x]
    BY <1>8
  <2> HIDE DEF x, sid
  <2>4. /\ srv' \in [Sids -> ServerSession \cup {None}] /\ srv'[sid] = x
        /\ \A s \in Sids : s # sid => srv'[s] = srv[s]
    BY <2>1, <2>2, <2>3
  <2>5. Admitted' = Admitted \cup {sid}
    BY <2>1, <2>2, <2>4 DEF Admitted
  <2>6. Cardinality(Admitted)' <= MAX_SESSIONS_PER_CONN
    <3>1. IsFiniteSet(Admitted)
      BY SidsAreRests, FS_Subset DEF Admitted
    <3>2. Cardinality(Admitted \cup {sid}) = Cardinality(Admitted) + 1 /\ Cardinality(Admitted) \in Nat
      BY <1>8, <3>1, FS_AddElement, FS_CardinalityType
    <3> QED BY <1>8, <2>5, <3>2, Constants
  <2>7. ASSUME NEW j PROVE ServerHolds(j)' <=> ServerHolds(j) \/ j = k
    <3>1. ServerHolds(j)' <=> \E s \in Admitted \cup {sid} : srv'[s].k = j
      BY <2>5 DEF ServerHolds
    <3>2. \A s \in Admitted : srv'[s] = srv[s]
      BY <1>8, <2>4 DEF Admitted
    <3> QED BY <3>1, <3>2, <2>1, <2>4 DEF ServerHolds
  <2>8. ServerInv'
    <3>1. \A s \in Admitted' : Of(srv[s].k, s)'
      <4>1. Of(k, sid)
        BY <1>1 DEF Of, sid
      <4>2. \A s \in Admitted : Of(srv[s].k, s) /\ srv'[s] = srv[s]
        BY <1>8, <2>4 DEF UInv, ServerInv, Admitted
      <4> QED BY <1>3, <2>1, <2>4, <2>5, <4>1, <4>2
    <3>2. NothingParkedWhenLive'
      <4>1. \A s \in Sids : s \in Admitted' /\ srv'[s].phase = "Live" =>
                              s \in Admitted /\ srv[s].phase = "Live"
        BY <2>1, <2>4, <2>5
      <4>2. \A i \in DOMAIN preopen : preopen[i].sid \in Admitted => srv[preopen[i].sid].phase # "Live"
        BY DEF UInv, ServerInv, NothingParkedWhenLive
      <4> QED BY <1>1, <4>1, <4>2 DEF NothingParkedWhenLive, Admitted
    <3> QED BY <1>1, <1>3, <2>4, <2>6, <3>1, <3>2 DEF UInv, ServerInv
  <2>9. NetInv'
    BY <1>1, <1>3, <1>4, <1>8 DEF UInv, NetInv
  <2>10. Quiet'
    BY <1>1, <1>4, <1>6 DEF UInv, Quiet
  <2>11. StreamInv(k)'
    <3>1. SidOf(k)' = SidOf(k) /\ ServerHolds(k)' /\ ClientHolds(k)' = ClientHolds(k)
      BY <1>3, <2>7
    <3>2. srv'[SidOf(k)].phase = "Resolving" /\ sess' = sess /\ s2c'[k] = {}
      BY <1>2, <1>6, <1>8, <2>1, <2>4 DEF sid
    <3>3. ClientHolds(k) => sess[SidOf(k)].phase = "AwaitResp"
      BY <1>1, <1>2 DEF StreamInv
    <3> QED BY <1>2, <1>4, <3>1, <3>2, <3>3 DEF StreamInv
  <2>12. ASSUME NEW j \in Ks, j # k PROVE StreamInv(j)'
    <3>1. StreamInv(j)
      BY DEF UInv
    <3>2. ServerHolds(j) => SidOf(j) \in Sids /\ SidOf(j) # sid
      BY <1>8, ServerHoldsIff DEF UInv, Admitted
    <3>3. ServerHolds(j) => srv'[SidOf(j)] = srv[SidOf(j)]
      BY <2>4, <3>2
    <3>4. ServerHolds(j)' <=> ServerHolds(j)
      BY <2>7, <2>12
    <3> QED BY <1>3, <1>4, <1>6, <1>8, <2>12, <3>1, <3>3, <3>4, StreamFrame
  <2> QED BY <1>3, <1>5, <2>8, <2>9, <2>10, <2>11, <2>12 DEF UInv
<1> QED
  BY <1>7, <1>8 DEF UdpOpen, SidOf

(* data_readable: a reset of the client's ends what the server has. *)
LEMMA ClientResetKeeps ==
  ASSUME UInv, NEW k \in Ks, ClientReset(k)
  PROVE  UInv'
<1>1. "reset" \in c2s[k] /\ c2s' = [c2s EXCEPT ![k] = {}] /\ UNCHANGED <<client, up, down>>
  BY DEF ClientReset
<1>2. /\ c2s' \in [Ks -> SUBSET {"open", "reset"}] /\ c2s'[k] = {}
      /\ \A j \in Ks : j # k => c2s'[j] = c2s[j]
  BY <1>1 DEF UInv, NetInv
<1>3. ASSUME NEW sid \in Admitted, srv[sid].k = k, TakeSession(sid, "reset")
      PROVE  UInv'
  BY <1>1, <1>2, <1>3, TakeKeeps
<1>4. ASSUME ~ServerHolds(k), UNCHANGED <<server, s2c, crossed>>
      PROVE  UInv'
  <2>1. /\ ClientInv' /\ \A j : ClientHolds(j)' = ClientHolds(j) /\ SidOf(j)' = SidOf(j)
        /\ \A j, s : Of(j, s)' = Of(j, s)
    BY <1>1, ClientFrame DEF UInv
  <2>2. ServerInv' /\ Admitted' = Admitted /\ \A j : ServerHolds(j)' = ServerHolds(j)
    BY <1>4, <2>1, ServerFrame DEF UInv
  <2>3. NetInv'
    BY <1>1, <1>2, <1>4, <2>1 DEF UInv, NetInv
  <2>4. CrossInv'
    BY <1>1, <1>4, <2>1, CrossFrame DEF UInv, client
  <2>5. Quiet'
    BY <1>1, <1>2, <2>2 DEF UInv, Quiet, client
  <2>6. StreamInv(k)'
    <3>1. StreamInv(k)
      BY DEF UInv
    <3> QED BY <1>1, <1>2, <1>4, <2>1, <2>2, <3>1 DEF StreamInv
  <2>7. ASSUME NEW j \in Ks, j # k PROVE StreamInv(j)'
    <3>1. StreamInv(j) /\ sess' = sess /\ srv' = srv
      BY <1>1, <1>4 DEF UInv, client, server
    <3> QED BY <1>2, <1>4, <2>1, <2>2, <2>7, <3>1, StreamFrame
  <2> QED BY <2>1, <2>2, <2>3, <2>4, <2>5, <2>6, <2>7 DEF UInv
<1> QED
  BY <1>3, <1>4 DEF ClientReset

-----------------------------------------------------------------------------
(* The client's steps.                                                     *)

LEMMA MadeFrame ==
  ASSUME UNCHANGED made
  PROVE  /\ \A k : SidOf(k)' = SidOf(k)
         /\ \A k, sid : Of(k, sid)' = Of(k, sid)
BY DEF SidOf, Of

(* The tables of DSTs: values, limit, and the sessions they name. *)
DstsInv ==
  /\ assocs \subseteq Assocs
  /\ dsts \in [Assocs -> [Targets -> Entry]]
  /\ \A a \in Assocs : Cardinality(Present(dsts[a])) <= MAX_DST_PER_ASSOC
  /\ SessionsMirrorDsts

LEMMA DstsOfClient ==
  ASSUME ClientInv
  PROVE  DstsInv
BY DEF ClientInv, ClientTypes, ClientLimits, DstsInv

(* end_session for the sids of D: what is left of the client and of the    *)
(* streams.  A stream the server has reset needs no reset.                 *)
LEMMA EndKeeps ==
  ASSUME UInv, NEW D, D \subseteq Live, NEW refused, NEW live \in BOOLEAN,
         EndSessions(D, refused, live), DstsInv',
         live \/ \A k \in StreamsOf(D) : "reset" \in s2c[k],
         udp' = udp \/ (udp = "Unknown" /\ udp' = "Unavailable" /\ D = Live),
         closing' \in {closing, TRUE},
         UNCHANGED <<count, made, up, down, server, crossed>>
  PROVE  UInv'
<1>1. /\ sess \in [Sids -> ClientSession \cup {None}] /\ Live \subseteq Sids
      /\ sess' = [sid \in Sids |-> IF sid \in D THEN None ELSE sess[sid]]
  BY DEF UInv, ClientInv, ClientTypes, EndSessions, Live
<1>2. /\ \A k : SidOf(k)' = SidOf(k)
      /\ \A k, sid : Of(k, sid)' = Of(k, sid)
  BY MadeFrame
<1>3. Live' = Live \ D /\ \A sid \in Live' : sess'[sid] = sess[sid]
  BY <1>1 DEF Live
<1>4. Issued' = Issued \ D
  BY <1>3 DEF Issued
<1>5. ClientInv'
  <2>1. ClientTypes'
    BY <1>1 DEF UInv, ClientInv, ClientTypes, DstsInv
  <2>2. ClientLimits'
    <3>1. IsFiniteSet(Live)
      BY SidsAreRests, FS_Subset DEF Live
    <3>2. Cardinality(Live \ D) <= Cardinality(Live)
          /\ Cardinality(Live) \in Nat /\ Cardinality(Live \ D) \in Nat
      BY <3>1, FS_Subset, FS_CardinalityType
    <3> QED BY <1>3, <3>2, Constants DEF UInv, ClientInv, ClientLimits, DstsInv
  <2>3. Numbered'
    BY <1>2, <1>3 DEF UInv, ClientInv, Numbered
  <2>4. NoneLeftWaiting'
    <3>1. CASE D = Live
      BY <3>1, <1>3 DEF NoneLeftWaiting
    <3>2. CASE udp' = udp
      <4>1. closing => closing'
        OBVIOUS
      <4> QED BY <3>2, <4>1, <1>3, Zenon DEF UInv, ClientInv, NoneLeftWaiting
    <3> QED BY <3>1, <3>2
  <2> QED BY <2>1, <2>2, <2>3, <2>4 DEF ClientInv, DstsInv
<1>6. ServerInv' /\ Admitted' = Admitted /\ \A k : ServerHolds(k)' = ServerHolds(k)
  BY <1>2, ServerFrame DEF UInv
<1>7. CrossInv'
  BY <1>2, CrossFrame DEF UInv
<1>8. \A k : ClientHolds(k) => /\ k \in 1 .. Len(made) /\ SidOf(k) \in Issued
                               /\ sess[SidOf(k)].k = k
  BY ClientHoldsIff DEF UInv, ClientInv
<1>9. \A k : k \in StreamsOf(D) <=> ClientHolds(k) /\ SidOf(k) \in D
  <2>1. ASSUME NEW sid \in D \cap Issued
        PROVE  ClientHolds(sess[sid].k) /\ SidOf(sess[sid].k) = sid
    BY DEF ClientHolds, UInv, ClientInv, Numbered, Of, Issued
  <2>2. \A k \in StreamsOf(D) : ClientHolds(k) /\ SidOf(k) \in D
    BY <2>1 DEF StreamsOf
  <2>3. ASSUME NEW k, ClientHolds(k), SidOf(k) \in D PROVE k \in StreamsOf(D)
    BY <2>3, <1>8 DEF StreamsOf
  <2> QED BY <2>2, <2>3
<1>10. \A k : ClientHolds(k)' <=> ClientHolds(k) /\ k \notin StreamsOf(D)
  <2>1. ASSUME NEW k, ClientHolds(k)' PROVE ClientHolds(k) /\ k \notin StreamsOf(D)
    <3>1. PICK sid \in Issued \ D : sess[sid].k = k
      BY <1>3, <1>4, <2>1 DEF ClientHolds, Issued
    <3>2. SidOf(k) = sid
      BY <3>1 DEF UInv, ClientInv, Numbered, Of, Issued
    <3> QED BY <1>9, <3>1, <3>2 DEF ClientHolds
  <2>2. ASSUME NEW k, ClientHolds(k), k \notin StreamsOf(D) PROVE ClientHolds(k)'
    <3>1. SidOf(k) \in Issued \ D /\ sess[SidOf(k)].k = k
      BY <1>8, <1>9, <2>2
    <3> QED BY <1>3, <1>4, <3>1 DEF ClientHolds, Issued
  <2> QED BY <2>1, <2>2
<1>11. /\ c2s \in [Ks -> SUBSET {"open", "reset"}] /\ s2c \in [Ks -> SUBSET {"ok", "error", "reset"}]
  BY DEF UInv, NetInv
<1>12. /\ c2s' \in [Ks -> SUBSET {"open", "reset"}] /\ s2c' \in [Ks -> SUBSET {"ok", "error", "reset"}]
       /\ \A k \in Ks : /\ k \in StreamsOf(D) => /\ s2c'[k] = {}
                                                 /\ c2s'[k] = IF live THEN c2s[k] \cup {"reset"} ELSE c2s[k]
                        /\ k \notin StreamsOf(D) => c2s'[k] = c2s[k] /\ s2c'[k] = s2c[k]
  BY <1>11 DEF EndSessions, ResetStreams
<1>13. NetInv'
  BY <1>2, <1>12 DEF UInv, NetInv
<1>14. Quiet'
  <2>1. \A k \in StreamsOf(D) : k \in 1 .. Len(made) /\ udp = "Available"
    <3>1. \A sid \in Issued : udp = "Available"
      BY DEF Issued, UInv, ClientInv, NoneLeftWaiting
    <3> QED BY <1>8, <1>9, <3>1
  <2>2. Len(made) \in Nat /\ Ks \subseteq Int
    BY DEF UInv, ClientInv, ClientTypes, Ks
  <2>3. \A k \in Ks : k > Len(made) => k \notin StreamsOf(D)
    BY <2>1, <2>2
  <2> QED BY <1>6, <1>12, <2>1, <2>3 DEF UInv, Quiet
<1>15. ASSUME NEW k \in Ks PROVE StreamInv(k)'
  <2>1. StreamInv(k)
    BY DEF UInv
  <2>2. CASE k \in StreamsOf(D)
    <3>1. ClientHolds(k) /\ ~ClientHolds(k)' /\ ServerHolds(k)' = ServerHolds(k)
      BY <1>6, <1>9, <1>10, <2>2
    <3>2. s2c'[k] = {} /\ c2s'[k] = IF live THEN c2s[k] \cup {"reset"} ELSE c2s[k]
      BY <1>12, <2>2
    <3>3. ~live => "reset" \in s2c[k]
      BY <2>2
    <3> QED BY <2>1, <3>1, <3>2, <3>3 DEF StreamInv
  <2>3. CASE k \notin StreamsOf(D)
    <3>1. ClientHolds(k)' <=> ClientHolds(k)
      BY <1>10, <2>3
    <3>2. c2s'[k] = c2s[k] /\ s2c'[k] = s2c[k]
      BY <1>12, <2>3
    <3>3. ClientHolds(k) => SidOf(k) \in Sids \ D
      BY <1>8, <1>9, <2>3 DEF Issued, Live
    <3>4. ClientHolds(k) => sess'[SidOf(k)] = sess[SidOf(k)]
      BY <1>1, <3>3
    <3>5. srv' = srv
      BY DEF server
    <3> QED BY <1>2, <1>6, <2>1, <3>1, <3>2, <3>4, <3>5, StreamFrame
  <2> QED BY <2>2, <2>3
<1> QED
  BY <1>5, <1>6, <1>7, <1>13, <1>14, <1>15 DEF UInv

(* The DSTs that named the sessions of D name none now. *)
LEMMA ClearedDsts ==
  ASSUME ClientInv, NEW D, D \subseteq Live, NEW refused \in BOOLEAN,
         dsts' = ClearDsts(D, refused), UNCHANGED assocs, Live' = Live \ D,
         \A sid \in Live' : sess'[sid].assoc = sess[sid].assoc /\ sess'[sid].target = sess[sid].target
  PROVE  DstsInv'
<1>1. /\ assocs \subseteq Assocs /\ dsts \in [Assocs -> [Targets -> Entry]] /\ SessionsMirrorDsts
      /\ \A a \in Assocs : Cardinality(Present(dsts[a])) <= MAX_DST_PER_ASSOC
  BY DstsOfClient DEF DstsInv
<1>2. None \notin D /\ \A sid \in Live : sess[sid] \in ClientSession
  BY Constants, LiveSession DEF Live, ClientInv
<1>3. ASSUME NEW a \in Assocs, NEW t \in Targets
      PROVE  /\ dsts[a][t] \in Entry /\ dsts'[a][t] \in Entry
             /\ dsts'[a][t].present = dsts[a][t].present
             /\ dsts'[a][t].session = IF dsts[a][t].session \in D THEN None ELSE dsts[a][t].session
  <2>1. dsts[a][t] \in Entry
    BY <1>1
  <2>2. dsts'[a][t] = IF dsts[a][t].session \in D
                      THEN [dsts[a][t] EXCEPT !.session = None, !.failed = @ \/ refused]
                      ELSE dsts[a][t]
    BY DEF ClearDsts
  <2> QED BY <2>1, <2>2 DEF Entry
<1>4. dsts' \in [Assocs -> [Targets -> Entry]]
  <2>1. dsts' = [a \in Assocs |-> [t \in Targets |-> dsts'[a][t]]]
    BY DEF ClearDsts
  <2> QED BY <1>3, <2>1
<1>5. ASSUME NEW a \in Assocs PROVE Cardinality(Present(dsts'[a])) <= MAX_DST_PER_ASSOC
  <2>1. Present(dsts'[a]) = Present(dsts[a])
    BY <1>3 DEF Present
  <2> QED BY <1>1, <2>1
<1>6. SessionsMirrorDsts'
  <2>1. ASSUME NEW sid \in Live'
        PROVE  /\ sess'[sid].assoc \in assocs'
               /\ dsts'[sess'[sid].assoc][sess'[sid].target].session = sid
    <3>1. sid \in Live /\ sid \notin D /\ sess[sid] \in ClientSession
      BY <1>2
    <3>2. sess[sid].assoc \in Assocs /\ sess[sid].target \in Targets
      BY <3>1 DEF ClientSession
    <3>3. sess[sid].assoc \in assocs /\ dsts[sess[sid].assoc][sess[sid].target].session = sid
      BY <1>1, <3>1 DEF SessionsMirrorDsts
    <3> QED BY <1>3, <3>1, <3>2, <3>3
  <2>2. ASSUME NEW a \in Assocs, NEW t \in Targets, dsts'[a][t].session # None
        PROVE  /\ dsts'[a][t].session \in Live'
               /\ sess'[dsts'[a][t].session].assoc = a /\ sess'[dsts'[a][t].session].target = t
    <3>1. dsts'[a][t].session = dsts[a][t].session /\ dsts[a][t].session \notin D
      BY <1>3, <2>2
    <3> QED BY <1>1, <2>2, <3>1 DEF SessionsMirrorDsts
  <2> QED BY <2>1, <2>2 DEF SessionsMirrorDsts
<1> QED
  BY <1>1, <1>4, <1>5, <1>6 DEF DstsInv

(* What EndSessions leaves of the client's table. *)
LEMMA EndedSessions ==
  ASSUME ClientInv, NEW D, D \subseteq Live, NEW refused, NEW live, EndSessions(D, refused, live)
  PROVE  Live' = Live \ D /\ \A sid \in Live' : sess'[sid] = sess[sid]
<1>1. sess' = [sid \in Sids |-> IF sid \in D THEN None ELSE sess[sid]] /\ Live \subseteq Sids
  BY DEF EndSessions, Live
<1> QED
  BY <1>1 DEF Live

LEMMA EndSessionKeeps ==
  ASSUME UInv, NEW sid \in Issued, NEW refused \in BOOLEAN, NEW live \in BOOLEAN,
         EndSession(sid, refused, live), live \/ "reset" \in s2c[sess[sid].k]
  PROVE  UInv'
<1>1. /\ EndSessions({sid}, refused, live) /\ dsts' = ClearDsts({sid}, refused)
      /\ UNCHANGED <<udp, closing, assocs, count, made, up, down, server, crossed>>
  BY DEF EndSession
<1>2. {sid} \subseteq Live
  BY DEF Issued
<1>3. Live' = Live \ {sid} /\ \A s \in Live' : sess'[s] = sess[s]
  BY <1>1, <1>2, EndedSessions DEF UInv
<1>4. DstsInv'
  BY <1>1, <1>2, <1>3, ClearedDsts DEF UInv
<1>5. StreamsOf({sid}) = {sess[sid].k}
  BY DEF StreamsOf
<1>6. live \/ \A k \in StreamsOf({sid}) : "reset" \in s2c[k]
  BY <1>5
<1> QED
  BY <1>1, <1>2, <1>4, <1>6, EndKeeps

LEMMA StreamEndsKeep ==
  ASSUME UInv, NEW sid \in Sids, RespError(sid) \/ ServerReset(sid) \/ RespTimeout(sid)
  PROVE  UInv'
BY EndSessionKeeps DEF RespError, ServerReset, RespTimeout

(* end_assoc: the associations of A go with all their sessions. *)
LEMMA DroppedDsts ==
  ASSUME ClientInv, NEW A, EndAssocs(A)
  PROVE  /\ {sid \in Live : sess[sid].assoc \in A} \subseteq Live
         /\ DstsInv'
<1> DEFINE D == {sid \in Live : sess[sid].assoc \in A}
<1>1. /\ assocs \subseteq Assocs /\ dsts \in [Assocs -> [Targets -> Entry]] /\ SessionsMirrorDsts
      /\ \A a \in Assocs : Cardinality(Present(dsts[a])) <= MAX_DST_PER_ASSOC
  BY DstsOfClient DEF DstsInv
<1>2. /\ assocs' = assocs \ A /\ EndSessions(D, FALSE, TRUE)
      /\ dsts' = [a \in Assocs |-> IF a \in A THEN [t \in Targets |-> Absent] ELSE dsts[a]]
  BY DEF EndAssocs
<1>3. D \subseteq Live
  OBVIOUS
<1>4. Live' = Live \ D /\ \A s \in Live' : sess'[s] = sess[s]
  BY <1>2, <1>3, EndedSessions
<1>5. Absent \in Entry /\ Absent.session = None /\ ~Absent.present
  BY DEF Absent, Entry
<1>6. dsts' \in [Assocs -> [Targets -> Entry]]
  BY <1>1, <1>2, <1>5
<1>7. ASSUME NEW a \in Assocs PROVE Cardinality(Present(dsts'[a])) <= MAX_DST_PER_ASSOC
  <2>1. CASE a \in A
    <3>1. Present(dsts'[a]) = {}
      BY <1>2, <1>5, <2>1 DEF Present
    <3> QED BY <3>1, FS_EmptySet, Constants
  <2>2. CASE a \notin A
    BY <1>1, <1>2, <2>2
  <2> QED BY <2>1, <2>2
<1>8. SessionsMirrorDsts'
  <2>1. ASSUME NEW sid \in Live'
        PROVE  /\ sess'[sid].assoc \in assocs'
               /\ dsts'[sess'[sid].assoc][sess'[sid].target].session = sid
    <3>1. sid \in Live /\ sess[sid].assoc \notin A /\ sess'[sid] = sess[sid]
      BY <1>4
    <3>2. sess[sid].assoc \in assocs /\ dsts[sess[sid].assoc][sess[sid].target].session = sid
      BY <1>1, <3>1 DEF SessionsMirrorDsts
    <3> QED BY <1>1, <1>2, <3>1, <3>2
  <2>2. ASSUME NEW a \in Assocs, NEW t \in Targets, dsts'[a][t].session # None
        PROVE  /\ dsts'[a][t].session \in Live'
               /\ sess'[dsts'[a][t].session].assoc = a /\ sess'[dsts'[a][t].session].target = t
    <3>1. a \notin A /\ dsts'[a] = dsts[a]
      BY <1>2, <1>5, <2>2
    <3>2. /\ dsts[a][t].session \in Live /\ sess[dsts[a][t].session].assoc = a
          /\ sess[dsts[a][t].session].target = t
      BY <1>1, <2>2, <3>1 DEF SessionsMirrorDsts
    <3> QED BY <1>4, <3>1, <3>2
  <2> QED BY <2>1, <2>2 DEF SessionsMirrorDsts
<1> QED
  BY <1>1, <1>2, <1>6, <1>7, <1>8 DEF DstsInv

LEMMA EndAssocKeeps ==
  ASSUME UInv, NEW a \in Assocs, EndAssoc(a)
  PROVE  UInv'
<1> DEFINE D == {sid \in Live : sess[sid].assoc \in {a}}
<1>1. EndAssocs({a}) /\ UNCHANGED <<udp, closing, count, made, up, down, server, crossed>>
  BY DEF EndAssoc
<1>2. D \subseteq Live /\ DstsInv' /\ EndSessions(D, FALSE, TRUE)
  BY <1>1, DroppedDsts DEF UInv, EndAssocs
<1> HIDE DEF D
<1> QED
  BY <1>1, <1>2, EndKeeps

LEMMA UnavailableKeeps ==
  ASSUME UInv, Unavailable
  PROVE  UInv'
<1> DEFINE D == {sid \in Live : sess[sid].assoc \in assocs}
<1>1. /\ udp = "Unknown" /\ udp' = "Unavailable" /\ closing' \in {closing, TRUE} /\ EndAssocs(assocs)
      /\ UNCHANGED <<count, made, up, down, server, crossed>>
  BY DEF Unavailable
<1>2. D = Live
  BY DEF UInv, ClientInv, SessionsMirrorDsts
<1>3. D \subseteq Live /\ DstsInv' /\ EndSessions(D, FALSE, TRUE)
  BY <1>1, DroppedDsts DEF UInv, EndAssocs
<1> HIDE DEF D
<1> QED
  BY <1>1, <1>2, <1>3, EndKeeps

(* udp_conn_gone: nothing is left but the associations and the negative    *)
(* cache.                                                                  *)
LEMMA ConnGoneKeeps ==
  ASSUME UInv, ConnGone
  PROVE  UInv'
<1>1. /\ udp' = "Unknown" /\ closing' = FALSE /\ sess' = [sid \in Sids |-> None] /\ dsts' = ClearDsts(Live, FALSE)
      /\ c2s' = [k \in Ks |-> {}] /\ s2c' = [k \in Ks |-> {}] /\ up' = {} /\ down' = {}
      /\ srv' = [sid \in Sids |-> None] /\ preopen' = <<>>
      /\ UNCHANGED <<assocs, count, made, crossed>>
  BY DEF ConnGone
<1>2. Live' = {} /\ Issued' = {} /\ Admitted' = {}
  BY <1>1 DEF Live, Issued, Admitted
<1>3. \A k : ~ClientHolds(k)' /\ ~ServerHolds(k)'
  BY <1>2 DEF ClientHolds, ServerHolds
<1>4. Cardinality({}) = 0
  BY FS_EmptySet
<1>5. DstsInv'
  <2>1. Live' = Live \ Live
    BY <1>2
  <2> QED BY <1>1, <1>2, <2>1, ClearedDsts DEF UInv
<1>6. ClientInv'
  <2>1. ClientTypes'
    BY <1>1, <1>5 DEF UInv, ClientInv, ClientTypes, DstsInv
  <2>2. ClientLimits'
    BY <1>2, <1>4, <1>5, Constants DEF ClientLimits, DstsInv
  <2>3. Numbered'
    BY <1>1, <1>2 DEF UInv, ClientInv, Numbered
  <2>4. NoneLeftWaiting'
    BY <1>2 DEF NoneLeftWaiting
  <2> QED BY <1>5, <2>1, <2>2, <2>3, <2>4 DEF ClientInv, DstsInv
<1>7. ServerInv'
  <2>1. preopen' \in Seq(Parked) /\ Len(preopen') = 0 /\ DOMAIN preopen' = {}
    BY <1>1
  <2> QED BY <1>1, <1>2, <1>4, <2>1, Constants DEF ServerInv, NothingParkedWhenLive
<1>8. NetInv'
  BY <1>1 DEF NetInv
<1>9. CrossInv'
  BY <1>1, MadeFrame, CrossFrame DEF UInv
<1>10. Quiet'
  BY <1>1, <1>2 DEF Quiet
<1>11. ASSUME NEW k \in Ks PROVE StreamInv(k)'
  <2>1. c2s'[k] = {} /\ s2c'[k] = {}
    BY <1>1
  <2> QED BY <1>3, <2>1 DEF StreamInv
<1> QED
  BY <1>6, <1>7, <1>8, <1>9, <1>10, <1>11 DEF UInv

(* The app closes its connection, or keeps it as it is; the connection     *)
(* that is closed may just have been found to relay UDP.                   *)
Shut == closing' = TRUE /\ (udp' = udp \/ (udp = "Unknown" /\ udp' = "Available"))

(* Steps that change only what the DSTs or the associations say, or add a  *)
(* datagram of a session, or close the connection.                         *)
LEMMA SessionsStay ==
  ASSUME UInv, UNCHANGED <<udp, closing>> \/ Shut, DstsInv', NetInv',
         UNCHANGED <<sess, count, made, c2s, s2c, server, crossed>>
  PROVE  UInv'
<1>1. /\ \A k : SidOf(k)' = SidOf(k)
      /\ \A k, sid : Of(k, sid)' = Of(k, sid)
  BY MadeFrame
<1>2. Live' = Live /\ Issued' = Issued
  BY DEF Live, Issued
<1>3. \A k : ClientHolds(k)' <=> ClientHolds(k)
  BY <1>2 DEF ClientHolds
<1>4. ClientInv'
  <2>1. ClientTypes' /\ ClientLimits'
    BY <1>2 DEF UInv, ClientInv, ClientTypes, ClientLimits, DstsInv, Shut
  <2>2. Numbered' /\ NoneLeftWaiting'
    BY <1>1, <1>2 DEF UInv, ClientInv, Numbered, NoneLeftWaiting, Shut
  <2> QED BY <2>1, <2>2 DEF ClientInv, DstsInv
<1>5. ServerInv' /\ Admitted' = Admitted /\ \A k : ServerHolds(k)' = ServerHolds(k)
  BY <1>1, ServerFrame DEF UInv
<1>6. CrossInv'
  BY <1>1, CrossFrame DEF UInv
<1>7. Quiet'
  BY <1>5 DEF UInv, Quiet, Shut
<1>8. ASSUME NEW k \in Ks PROVE StreamInv(k)'
  <2>1. StreamInv(k) /\ srv' = srv
    BY DEF UInv, server
  <2> QED BY <1>1, <1>3, <1>5, <2>1, StreamFrame
<1> QED
  BY <1>4, <1>5, <1>6, <1>7, <1>8 DEF UInv

(* close, and the answer whose drain fails: every session stays as it is.  *)
LEMMA CloseKeeps ==
  ASSUME UInv, CloseConn \/ AvailableBroken
  PROVE  UInv'
<1>1. Shut /\ UNCHANGED <<assocs, dsts, sess, count, made, net, server, crossed>>
  BY DEF CloseConn, AvailableBroken, Shut
<1>2. Live' = Live
  BY <1>1 DEF Live
<1>3. DstsInv'
  BY <1>1, <1>2, DstsOfClient DEF UInv, DstsInv, SessionsMirrorDsts, Present
<1>4. \A k, sid : Of(k, sid)' = Of(k, sid)
  BY <1>1, MadeFrame
<1>5. NetInv'
  BY <1>1, <1>4 DEF UInv, NetInv, net
<1> QED
  BY <1>1, <1>3, <1>5, SessionsStay DEF net

LEMMA NewAssocKeeps ==
  ASSUME UInv, NEW a \in Assocs, NewAssoc(a)
  PROVE  UInv'
<1>1. assocs' = assocs \cup {a} /\ UNCHANGED <<udp, closing, dsts, sess, count, made, net, server, crossed>>
  BY DEF NewAssoc
<1>2. DstsInv'
  <2>1. Live' = Live
    BY <1>1 DEF Live
  <2> QED BY <1>1, <2>1, DstsOfClient DEF UInv, DstsInv, SessionsMirrorDsts, Present
<1>3. NetInv'
  BY <1>1, MadeFrame, NetFrame DEF UInv
<1> QED
  BY <1>1, <1>2, <1>3, SessionsStay DEF net

LEMMA NegCacheExpiresKeeps ==
  ASSUME UInv, NEW a \in Assocs, NEW t \in Targets, NegCacheExpires(a, t)
  PROVE  UInv'
<1>1. dsts' = [dsts EXCEPT ![a][t].failed = FALSE]
      /\ UNCHANGED <<udp, closing, assocs, sess, count, made, net, server, crossed>>
  BY DEF NegCacheExpires
<1>2. dsts \in [Assocs -> [Targets -> Entry]] /\ DstsInv /\ Live' = Live
  BY <1>1, DstsOfClient DEF UInv, DstsInv, Live
<1>3. /\ dsts' \in [Assocs -> [Targets -> Entry]]
      /\ \A b \in Assocs, u \in Targets : /\ dsts'[b][u].session = dsts[b][u].session
                                          /\ dsts'[b][u].present = dsts[b][u].present
  <2> DEFINE e == [dsts[a][t] EXCEPT !.failed = FALSE]
             d == [dsts[a] EXCEPT ![t] = e]
  <2>1. dsts[a] \in [Targets -> Entry] /\ dsts[a][t] \in Entry
    BY <1>2
  <2>2. e \in Entry /\ e.session = dsts[a][t].session /\ e.present = dsts[a][t].present
    BY <2>1 DEF Entry
  <2>3. dsts' = [dsts EXCEPT ![a] = d]
    BY <1>1, <1>2
  <2> HIDE DEF e
  <2>4. d \in [Targets -> Entry] /\ d[t] = e /\ \A u \in Targets : u # t => d[u] = dsts[a][u]
    BY <2>1, <2>2
  <2> HIDE DEF d
  <2>5. /\ dsts' \in [Assocs -> [Targets -> Entry]] /\ dsts'[a] = d
        /\ \A b \in Assocs : b # a => dsts'[b] = dsts[b]
    BY <1>2, <2>3, <2>4
  <2> QED BY <2>2, <2>4, <2>5
<1>4. \A b \in Assocs : Present(dsts'[b]) = Present(dsts[b])
  BY <1>3 DEF Present
<1>5. SessionsMirrorDsts'
  <2>1. \A sid \in Live : sess[sid].assoc \in Assocs /\ sess[sid].target \in Targets
    BY LiveSession DEF UInv, ClientInv, ClientSession
  <2> QED BY <1>1, <1>2, <1>3, <2>1 DEF DstsInv, SessionsMirrorDsts
<1>6. DstsInv'
  BY <1>1, <1>2, <1>3, <1>4, <1>5 DEF DstsInv
<1>7. NetInv'
  BY <1>1, MadeFrame, NetFrame DEF UInv
<1> QED
  BY <1>1, <1>6, <1>7, SessionsStay DEF net

LEMMA SessionSendKeeps ==
  ASSUME UInv, NEW a \in Assocs, NEW t \in Targets, SessionSend(a, t)
  PROVE  UInv'
<1>1. PICK sid \in Issued : up' = up \cup {<<sid, sess[sid].k>>}
  BY DEF SessionSend
<1>2. UNCHANGED <<client, c2s, s2c, down, server, crossed>>
  BY DEF SessionSend
<1>3. sid \in Sids /\ sess[sid].k \in Ks /\ Of(sess[sid].k, sid)
  BY LiveSession DEF Issued, UInv, ClientInv, Numbered, ClientSession
<1>4. ClientInv' /\ DstsInv'
  <2>1. ClientInv'
    BY <1>2, ClientFrame DEF UInv
  <2> QED BY <2>1, DstsOfClient DEF ClientInv, ClientTypes, ClientLimits, DstsInv
<1>5. NetInv'
  <2>1. \A m \in up' : m \in Sids \X Ks /\ Of(m[2], m[1])
    BY <1>1, <1>3 DEF UInv, NetInv
  <2>2. \A k, s : Of(k, s)' = Of(k, s)
    BY <1>2, MadeFrame DEF client
  <2> QED BY <1>2, <2>1, <2>2 DEF UInv, NetInv
<1> QED
  BY <1>2, <1>4, <1>5, SessionsStay DEF client

(* session_readable: a RESP OK opens the session. *)
LEMMA RespOkKeeps ==
  ASSUME UInv, NEW sid \in Sids, RespOk(sid)
  PROVE  UInv'
<1>1. PICK k : k = sess[sid].k
  OBVIOUS
<1> DEFINE x == [sess[sid] EXCEPT !.phase = "Open"]
<1>2. /\ sid \in Issued /\ "ok" \in s2c[k] /\ sess' = [sess EXCEPT ![sid].phase = "Open"]
      /\ s2c' = [s2c EXCEPT ![k] = @ \ {"ok"}]
      /\ UNCHANGED <<udp, closing, assocs, dsts, count, made, c2s, up, down, server, crossed>>
  BY <1>1 DEF RespOk
<1>3. /\ sid \in Live /\ sess[sid] \in ClientSession /\ sess[sid].phase # "PendingAuth"
      /\ sess \in [Sids -> ClientSession \cup {None}]
  BY <1>2 DEF Issued, Live, UInv, ClientInv, ClientTypes
<1>4. /\ x \in ClientSession /\ x.k = k /\ x.assoc = sess[sid].assoc /\ x.target = sess[sid].target
      /\ x.phase = "Open" /\ sess' = [sess EXCEPT ![sid] = x] /\ k \in Ks
  BY <1>1, <1>2, <1>3 DEF ClientSession
<1>5. Of(k, sid)
  BY <1>1, <1>3 DEF UInv, ClientInv, Numbered
<1> HIDE DEF x
<1>6. sess' \in [Sids -> ClientSession \cup {None}] /\ sess'[sid] = x /\ \A s \in Sids : s # sid => sess'[s] = sess[s]
  BY <1>3, <1>4
<1>7. x # None
  BY <1>4, Constants
<1>8. Live' = Live /\ Issued' = Issued
  <2>1. Live' = Live
    BY <1>3, <1>6, <1>7 DEF Live
  <2>2. Issued' = Issued
    BY <1>2, <1>4, <1>6, <2>1 DEF Issued, Live
  <2> QED BY <2>1, <2>2
<1>9. \A s \in Live : /\ sess'[s].k = sess[s].k /\ sess'[s].assoc = sess[s].assoc
                      /\ sess'[s].target = sess[s].target
                      /\ sess'[s].phase = "PendingAuth" <=> sess[s].phase = "PendingAuth"
  BY <1>1, <1>3, <1>4, <1>6 DEF Live
<1>10. \A j : ClientHolds(j)' <=> ClientHolds(j)
  BY <1>8, <1>9 DEF ClientHolds, Issued
<1>11. /\ \A j : SidOf(j)' = SidOf(j)
       /\ \A j, s : Of(j, s)' = Of(j, s)
  BY <1>2, MadeFrame
<1>12. ClientInv'
  <2>1. ClientTypes' /\ ClientLimits'
    BY <1>2, <1>6, <1>8 DEF UInv, ClientInv, ClientTypes, ClientLimits, Present
  <2>2. Numbered'
    BY <1>2, <1>8, <1>9, <1>11 DEF UInv, ClientInv, Numbered
  <2>3. SessionsMirrorDsts'
    BY <1>2, <1>8, <1>9 DEF UInv, ClientInv, SessionsMirrorDsts
  <2>4. NoneLeftWaiting'
    BY <1>2, <1>8, <1>9 DEF UInv, ClientInv, NoneLeftWaiting
  <2> QED BY <2>1, <2>2, <2>3, <2>4 DEF ClientInv
<1>13. ServerInv' /\ Admitted' = Admitted /\ \A j : ServerHolds(j)' = ServerHolds(j)
  BY <1>2, <1>11, ServerFrame DEF UInv
<1>14. /\ s2c' \in [Ks -> SUBSET {"ok", "error", "reset"}] /\ s2c'[k] = s2c[k] \ {"ok"}
       /\ \A j \in Ks : j # k => s2c'[j] = s2c[j]
  BY <1>2, <1>4 DEF UInv, NetInv
<1>15. NetInv'
  BY <1>2, <1>11, <1>14 DEF UInv, NetInv
<1>16. CrossInv'
  BY <1>2, <1>11, CrossFrame DEF UInv
<1>17. Quiet'
  BY <1>2, <1>13 DEF UInv, Quiet
<1>18. StreamInv(k)'
  <2>1. StreamInv(k) /\ c2s' = c2s /\ srv' = srv
    BY <1>2, <1>4 DEF UInv, server
  <2>2. SidOf(k) = sid /\ SidOf(k)' = sid
    BY <1>5, <1>11 DEF Of
  <2>3. ClientHolds(k) /\ ClientHolds(k)' /\ ServerHolds(k)' = ServerHolds(k)
    BY <1>1, <1>2, <1>10, <1>13 DEF ClientHolds
  <2>4. "open" \notin c2s[k] /\ "reset" \notin c2s[k]
    BY <1>2, <2>1, <2>3 DEF StreamInv
  <2> QED BY <1>2, <1>4, <1>6, <1>14, <2>1, <2>2, <2>3, <2>4 DEF StreamInv
<1>19. ASSUME NEW j \in Ks, j # k PROVE StreamInv(j)'
  <2>1. StreamInv(j) /\ c2s' = c2s /\ srv' = srv
    BY <1>2 DEF UInv, server
  <2>2. ClientHolds(j) => SidOf(j) \in Sids /\ SidOf(j) # sid
    BY <1>1, <1>19, ClientHoldsIff DEF UInv, ClientInv, Issued, Live
  <2>3. ClientHolds(j) => sess'[SidOf(j)] = sess[SidOf(j)]
    BY <1>6, <2>2
  <2> QED BY <1>10, <1>11, <1>13, <1>14, <1>19, <2>1, <2>3, StreamFrame
<1> QED
  BY <1>12, <1>13, <1>15, <1>16, <1>17, <1>18, <1>19 DEF UInv

(* udp_available: all that wait are issued, but for those that fail. *)
LEMMA AvailableKeeps ==
  ASSUME UInv, Available
  PROVE  UInv'
<1>1. PICK F \in SUBSET Waiting :
        /\ sess' = [sid \in Sids |->
                      CASE sid \in F -> None
                        [] sid \in Waiting \ F -> [sess[sid] EXCEPT !.phase = "AwaitResp"]
                        [] OTHER -> sess[sid]]
        /\ dsts' = ClearDsts(F, FALSE)
        /\ c2s' = [k \in Ks |-> IF k \in {sess[sid].k : sid \in Waiting \ F} THEN {"open"} ELSE c2s[k]]
        /\ up' = up \cup {<<sid, sess[sid].k>> : sid \in Waiting \ F}
  BY DEF Available
<1>2. udp = "Unknown" /\ udp' = "Available" /\ closing' = closing /\ UNCHANGED <<assocs, count, made, s2c, down, server, crossed>>
  BY DEF Available
<1>3. Issued = {} /\ Waiting = Live /\ Live \subseteq Sids
  BY <1>2 DEF UInv, ClientInv, NoneLeftWaiting, Issued, Waiting, Live
<1>4. PICK good : good = Live \ F
  OBVIOUS
<1>5. \A sid \in Live : sess[sid] \in ClientSession /\ sess[sid] # None /\ Of(sess[sid].k, sid)
  BY LiveSession, Constants DEF UInv, ClientInv, Numbered
<1>6. \A sid \in good : /\ sess'[sid] = [sess[sid] EXCEPT !.phase = "AwaitResp"]
                        /\ sess'[sid] \in ClientSession /\ sess'[sid].phase = "AwaitResp"
                        /\ sess'[sid].k = sess[sid].k /\ sess'[sid].assoc = sess[sid].assoc
                        /\ sess'[sid].target = sess[sid].target
  <2>1. ASSUME NEW sid \in good PROVE sess'[sid] = [sess[sid] EXCEPT !.phase = "AwaitResp"]
    BY <1>1, <1>3, <1>4
  <2> QED BY <1>4, <1>5, <2>1 DEF ClientSession
<1>7. \A sid \in Sids \ good : sess'[sid] = None
  BY <1>1, <1>3, <1>4 DEF Live
<1>8. Live' = good /\ Issued' = good
  <2>1. \A sid \in good : sess'[sid] # None /\ sid \in Sids
    BY <1>3, <1>4, <1>6, Constants
  <2>2. Live' = good
    BY <1>7, <2>1 DEF Live
  <2> QED BY <1>6, <2>2 DEF Issued
<1>9. /\ \A k : SidOf(k)' = SidOf(k)
      /\ \A k, sid : Of(k, sid)' = Of(k, sid)
  BY <1>2, MadeFrame
<1>10. DstsInv'
  <2>1. F \subseteq Live /\ Live' = Live \ F
    BY <1>3, <1>4, <1>8
  <2> QED BY <1>1, <1>2, <1>6, <1>8, <2>1, ClearedDsts DEF UInv
<1>11. ClientInv'
  <2>1. sess' \in [Sids -> ClientSession \cup {None}]
    <3>1. sess' = [sid \in Sids |-> sess'[sid]]
      BY <1>1
    <3>2. \A sid \in Sids : sess'[sid] \in ClientSession \cup {None}
      BY <1>6, <1>7
    <3> QED BY <3>1, <3>2
  <2>2. ClientTypes'
    BY <1>2, <1>10, <2>1 DEF UInv, ClientInv, ClientTypes, DstsInv
  <2>3. ClientLimits'
    <3>1. IsFiniteSet(Live)
      BY SidsAreRests, FS_Subset DEF Live
    <3>2. Cardinality(good) <= Cardinality(Live) /\ Cardinality(Live) \in Nat /\ Cardinality(good) \in Nat
      BY <1>4, <3>1, FS_Subset, FS_CardinalityType
    <3> QED BY <1>8, <1>10, <3>2, Constants DEF UInv, ClientInv, ClientLimits, DstsInv
  <2>4. Numbered'
    <3>1. \A sid \in Live' : Of(sess[sid].k, sid)'
      BY <1>4, <1>5, <1>6, <1>8, <1>9
    <3> QED BY <1>2, <3>1 DEF UInv, ClientInv, Numbered
  <2>5. NoneLeftWaiting'
    BY <1>2, <1>6, <1>8 DEF NoneLeftWaiting
  <2> QED BY <1>10, <2>2, <2>3, <2>4, <2>5 DEF ClientInv, DstsInv
<1>12. ServerInv' /\ Admitted' = Admitted /\ \A k : ServerHolds(k)' = ServerHolds(k)
  BY <1>2, <1>9, ServerFrame DEF UInv
<1>13. Admitted = {} /\ \A k \in Ks : c2s[k] = {}
  BY <1>2 DEF UInv, Quiet
<1>14. \A k \in Ks : s2c[k] = {}
  BY <1>3 DEF UInv, StreamInv, ClientHolds
<1>15. \A k : ClientHolds(k)' <=> \E sid \in good : sess[sid].k = k
  BY <1>6, <1>8 DEF ClientHolds
<1>16. /\ c2s' \in [Ks -> SUBSET {"open", "reset"}]
       /\ \A k \in Ks : c2s'[k] = IF ClientHolds(k)' THEN {"open"} ELSE {}
  <2>1. \A k : k \in {sess[sid].k : sid \in Waiting \ F} <=> ClientHolds(k)'
    BY <1>3, <1>4, <1>15
  <2> QED BY <1>1, <1>13, <2>1
<1>17. NetInv'
  <2>1. \A m \in up' : m \in Sids \X Ks /\ Of(m[2], m[1])
    <3>1. ASSUME NEW sid \in Live PROVE <<sid, sess[sid].k>> \in Sids \X Ks
      BY <1>3, <1>5 DEF ClientSession
    <3>2. \A m \in up' : m \in up \/ \E sid \in Live : m = <<sid, sess[sid].k>>
      BY <1>1, <1>3
    <3>3. \A m \in up : m \in Sids \X Ks /\ Of(m[2], m[1])
      BY DEF UInv, NetInv
    <3> QED BY <1>5, <3>1, <3>2, <3>3
  <2> QED BY <1>2, <1>9, <1>16, <2>1 DEF UInv, NetInv
<1>18. CrossInv'
  BY <1>2, <1>9, CrossFrame DEF UInv
<1>19. Quiet'
  <2>1. \A k : ClientHolds(k)' => k \in 1 .. Len(made)
    BY <1>4, <1>5, <1>15 DEF Of
  <2>2. Len(made) \in Nat /\ Ks \subseteq Int
    BY DEF UInv, ClientInv, ClientTypes, Ks
  <2>3. \A k \in Ks : k > Len(made) => ~ClientHolds(k)'
    BY <2>1, <2>2
  <2> QED BY <1>2, <1>16, <2>3 DEF Quiet
<1>20. ASSUME NEW k \in Ks PROVE StreamInv(k)'
  <2>1. ~ServerHolds(k)' /\ s2c'[k] = {} /\ c2s'[k] = IF ClientHolds(k)' THEN {"open"} ELSE {}
    BY <1>2, <1>12, <1>13, <1>14, <1>16 DEF ServerHolds
  <2>2. ASSUME ClientHolds(k)' PROVE sess'[SidOf(k)].phase = "AwaitResp"
    <3>1. PICK sid \in good : sess[sid].k = k
      BY <1>15, <2>2
    <3>2. SidOf(k) = sid
      BY <1>4, <1>5, <3>1 DEF Of
    <3> QED BY <1>6, <3>1, <3>2
  <2>3. SidOf(k)' = SidOf(k)
    BY <1>9
  <2> QED BY <2>1, <2>2, <2>3 DEF StreamInv
<1> QED
  BY <1>11, <1>12, <1>17, <1>18, <1>19, <1>20 DEF UInv

(* insert_dst: the entry of t is put into a table with room for it; the    *)
(* tables keep to their limit and every other session to its DST.          *)
InsertDst(a, t, d, s) ==
  dsts' = [dsts EXCEPT ![a] = [d EXCEPT ![t] =
             [session |-> s, failed |-> FALSE, present |-> TRUE]]]

DstInserted(a, t, s) ==
  /\ dsts' \in [Assocs -> [Targets -> Entry]]
  /\ \A b \in Assocs : Cardinality(Present(dsts'[b])) <= MAX_DST_PER_ASSOC
  /\ dsts'[a][t].session = s
  /\ \A b \in Assocs, u \in Targets :
       (b # a \/ u # t) => dsts'[b][u].session = dsts[b][u].session

LEMMA RoomForDst ==
  ASSUME DstsInv, NEW a \in Assocs, NEW t \in Targets, NEW d \in WithRoom(dsts[a], t),
         NEW s \in Sids \cup {None}, InsertDst(a, t, d, s)
  PROVE  DstInserted(a, t, s)
<1> DEFINE e == [session |-> s, failed |-> FALSE, present |-> TRUE]
           new == [d EXCEPT ![t] = e]
<1>1. /\ dsts \in [Assocs -> [Targets -> Entry]] /\ dsts[a] \in [Targets -> Entry]
      /\ \A b \in Assocs : Cardinality(Present(dsts[b])) <= MAX_DST_PER_ASSOC
  BY DEF DstsInv
<1>2. Absent \in Entry /\ Absent.session = None /\ ~Absent.present
  BY DEF Absent, Entry
<1>3. e \in Entry /\ e.session = s /\ e.present
  BY DEF Entry
<1> HIDE DEF e
<1>4. \A c : c \in [Targets -> Entry] => IsFiniteSet(Present(c)) /\ Cardinality(Present(c)) \in Nat
  <2>1. ASSUME NEW c PROVE Present(c) \subseteq Targets
    BY DEF Present
  <2> QED BY <2>1, Constants, FS_Subset, FS_CardinalityType
<1>5. /\ d \in [Targets -> Entry] /\ \A u \in Targets : d[u].session = dsts[a][u].session
      /\ Cardinality(Present(d) \cup {t}) <= MAX_DST_PER_ASSOC
  <2>1. CASE d = dsts[a] /\ dsts[a][t].present
    <3>1. Present(d) \cup {t} = Present(d)
      BY <2>1 DEF Present
    <3> QED BY <1>1, <2>1, <3>1
  <2>2. CASE d = dsts[a] /\ ~dsts[a][t].present /\ Cardinality(Present(dsts[a])) < MAX_DST_PER_ASSOC
    <3>1. t \notin Present(d)
      BY <2>2 DEF Present
    <3>2. Cardinality(Present(d) \cup {t}) = Cardinality(Present(d)) + 1 /\ Cardinality(Present(d)) \in Nat
      BY <1>1, <1>4, <2>2, <3>1, FS_AddElement
    <3> QED BY <1>1, <2>2, <3>2, Constants
  <2>3. ASSUME NEW x \in Reclaimable(dsts[a]), ~dsts[a][t].present, d = [dsts[a] EXCEPT ![x] = Absent]
        PROVE  /\ d \in [Targets -> Entry] /\ \A u \in Targets : d[u].session = dsts[a][u].session
               /\ Cardinality(Present(d) \cup {t}) <= MAX_DST_PER_ASSOC
    <3>1. x \in Present(dsts[a]) /\ x \in Targets /\ dsts[a][x].session = None
      BY DEF Reclaimable, Present
    <3>2. /\ d \in [Targets -> Entry] /\ d[x] = Absent /\ \A u \in Targets : u # x => d[u] = dsts[a][u]
      BY <1>1, <1>2, <2>3, <3>1
    <3>3. Present(d) = Present(dsts[a]) \ {x} /\ t \notin Present(d)
      BY <1>2, <2>3, <3>1, <3>2 DEF Present
    <3>4. IsFiniteSet(Present(d)) /\ IsFiniteSet(Present(dsts[a]))
          /\ Cardinality(Present(d)) \in Nat /\ Cardinality(Present(dsts[a])) \in Nat
      BY <1>1, <1>4, <3>2
    <3>5. Cardinality(Present(d)) = Cardinality(Present(dsts[a])) - 1
      BY <3>1, <3>3, <3>4, FS_RemoveElement
    <3>6. Cardinality(Present(d) \cup {t}) = Cardinality(Present(d)) + 1
      BY <3>3, <3>4, FS_AddElement
    <3>7. Cardinality(Present(d) \cup {t}) <= MAX_DST_PER_ASSOC
      BY <1>1, <3>4, <3>5, <3>6
    <3>8. \A u \in Targets : d[u].session = dsts[a][u].session
      BY <1>2, <3>1, <3>2
    <3> QED BY <3>2, <3>7, <3>8
  <2> QED BY <2>1, <2>2, <2>3 DEF WithRoom
<1>6. new \in [Targets -> Entry] /\ new[t] = e /\ \A u \in Targets : u # t => new[u] = d[u]
  BY <1>3, <1>5
<1>7. dsts' = [dsts EXCEPT ![a] = new]
  BY DEF e, InsertDst
<1> HIDE DEF new
<1>8. /\ dsts' \in [Assocs -> [Targets -> Entry]] /\ dsts'[a] = new
      /\ \A b \in Assocs : b # a => dsts'[b] = dsts[b]
  BY <1>1, <1>6, <1>7
<1>9. Present(new) = Present(d) \cup {t}
  BY <1>3, <1>6 DEF Present
<1>10. \A b \in Assocs : Cardinality(Present(dsts'[b])) <= MAX_DST_PER_ASSOC
  BY <1>1, <1>5, <1>8, <1>9
<1>11. /\ dsts'[a][t].session = s
       /\ \A b \in Assocs, u \in Targets :
            (b # a \/ u # t) => dsts'[b][u].session = dsts[b][u].session
  BY <1>3, <1>5, <1>6, <1>8
<1> QED
  BY <1>8, <1>10, <1>11 DEF DstInserted

(* udp_outbound: a session is made; it waits, is issued at once, or fails. *)
LEMMA OutboundKeeps ==
  ASSUME UInv, NEW a \in Assocs, NEW t \in Targets, Outbound(a, t)
  PROVE  UInv'
<1>1. PICK n, sid, k : n = Alloc /\ sid = n % SidMod /\ k = Len(made) + 1
  OBVIOUS
<1>2. /\ a \in assocs /\ k \in Ks /\ dsts[a][t].session = None
      /\ Cardinality(Live) < MAX_SESSIONS_PER_CONN
      /\ count' = n + 1 /\ made' = Append(made, n) /\ UNCHANGED <<udp, closing, assocs, server, crossed>>
  BY <1>1 DEF Outbound
<1>3. n \in Nat /\ n >= count /\ sid \in Sids /\ sid \notin Live /\ sess[sid] = None
  BY <1>1, <1>2, AllocFindsFree DEF UInv, ClientInv, Live
<1>4. /\ ClientTypes /\ made \in Seq(Nat) /\ Len(made) \in Nat /\ count \in Nat /\ Len(made) <= MaxSessions
      /\ sess \in [Sids -> ClientSession \cup {None}] /\ DstsInv
  BY DstsOfClient DEF UInv, ClientInv, ClientTypes
<1>5. /\ made' \in Seq(Nat) /\ Len(made') = k /\ made'[k] = n /\ k \in Nat /\ k <= MaxSessions
      /\ \A j \in 1 .. Len(made) : made'[j] = made[j]
  BY <1>1, <1>2, <1>3, <1>4, Constants DEF Ks
<1>6. /\ SidOf(k)' = sid /\ Of(k, sid)'
      /\ \A j \in 1 .. Len(made) : j \in 1 .. Len(made') /\ j # k /\ SidOf(j)' = SidOf(j)
  BY <1>1, <1>4, <1>5 DEF SidOf, Of
<1>7. \A j, s : Of(j, s) => Of(j, s)'
  BY <1>6 DEF Of
<1>8. /\ \A i, j \in 1 .. Len(made') : i < j => made'[i] < made'[j]
      /\ \A i \in 1 .. Len(made') : made'[i] < count'
  <2>1. /\ \A i, j \in 1 .. Len(made) : i < j => made[i] < made[j]
        /\ \A i \in 1 .. Len(made) : made[i] < count /\ made[i] \in Nat
    BY <1>4 DEF UInv, ClientInv, Numbered
  <2>2. ASSUME NEW i \in 1 .. Len(made') PROVE i \in 1 .. Len(made) \/ i = k
    BY <1>1, <1>4, <1>5
  <2>3. \A i \in 1 .. Len(made') : made'[i] < count'
    BY <1>2, <1>3, <1>4, <1>5, <2>1, <2>2
  <2>4. ASSUME NEW i \in 1 .. Len(made'), NEW j \in 1 .. Len(made'), i < j PROVE made'[i] < made'[j]
    <3>1. i \in 1 .. Len(made)
      BY <1>1, <1>4, <1>5, <2>4
    <3>2. CASE j \in 1 .. Len(made)
      BY <1>5, <2>1, <2>4, <3>1, <3>2
    <3>3. CASE j = k
      <4>1. made'[i] = made[i] /\ made'[j] = n BY <1>5, <3>1, <3>3
      <4>2. made[i] < count /\ made[i] \in Nat BY <2>1, <3>1
      <4> QED BY <1>3, <1>4, <4>1, <4>2
    <3> QED BY <2>2, <3>2, <3>3
  <2> QED BY <2>3, <2>4
<1>9. ServerInv' /\ Admitted' = Admitted /\ \A j : ServerHolds(j)' = ServerHolds(j)
  BY <1>2, <1>7, ServerFrame DEF UInv
<1>10. CrossInv'
  BY <1>2, <1>6, CrossFrame DEF UInv
<1>11. k \notin 1 .. Len(made) /\ ~ClientHolds(k) /\ ~ServerHolds(k) /\ c2s[k] = {} /\ s2c[k] = {}
  <2>1. k \notin 1 .. Len(made) /\ k > Len(made)
    BY <1>1, <1>4
  <2>2. ~ClientHolds(k) /\ ~ServerHolds(k)
    BY <2>1, ClientHoldsIff, ServerHoldsIff DEF UInv, ClientInv
  <2> QED BY <1>2, <2>1, <2>2 DEF UInv, Quiet, StreamInv
<1>12. \A s \in Live : Of(sess[s].k, s) /\ sess[s].k # k
  BY <1>11 DEF UInv, ClientInv, Numbered, Of
<1>13. ASSUME NEW d \in WithRoom(dsts[a], t), UNCHANGED <<sess, net>>,
              dsts' = [dsts EXCEPT ![a] = [d EXCEPT ![t] =
                         [session |-> None, failed |-> FALSE, present |-> TRUE]]]
       PROVE  UInv'
  <2>1. /\ dsts' \in [Assocs -> [Targets -> Entry]]
        /\ \A b \in Assocs : Cardinality(Present(dsts'[b])) <= MAX_DST_PER_ASSOC
        /\ dsts'[a][t].session = None
        /\ \A b \in Assocs, u \in Targets :
              (b # a \/ u # t) => dsts'[b][u].session = dsts[b][u].session
    <3>1. None \in Sids \cup {None}
      OBVIOUS
    <3>2. DstsInv
      BY <1>4
    <3>3. InsertDst(a, t, d, None)
      BY <1>13 DEF InsertDst
    <3>4. DstInserted(a, t, None)
      BY <3>1, <3>2, <3>3, RoomForDst
    <3> QED BY <3>4 DEF DstInserted
  <2>2. Live' = Live /\ Issued' = Issued
    BY <1>13 DEF Live, Issued
  <2>3. \A j : ClientHolds(j)' <=> ClientHolds(j)
    BY <1>13, <2>2 DEF ClientHolds
  <2>4. \A b \in Assocs, u \in Targets : dsts'[b][u].session = dsts[b][u].session
    BY <1>2, <2>1
  <2>5. SessionsMirrorDsts'
    <3>1. \A s \in Live : sess[s].assoc \in Assocs /\ sess[s].target \in Targets
      BY <1>4, LiveSession DEF ClientSession
    <3> QED BY <1>2, <1>4, <1>13, <2>2, <2>4, <3>1 DEF DstsInv, SessionsMirrorDsts
  <2>6. ClientInv'
    <3>1. ClientTypes' /\ ClientLimits'
      <4>1. ClientTypes'
        <5>1. sess' = sess /\ count' \in Nat
          BY <1>2, <1>3, <1>13
        <5> QED BY <1>2, <1>4, <1>5, <2>1, <5>1 DEF ClientTypes
      <4>2. ClientLimits'
        BY <2>1, <2>2 DEF ClientLimits, UInv, ClientInv
      <4> QED BY <4>1, <4>2
    <3>2. Numbered'
      BY <1>7, <1>8, <1>12, <1>13, <2>2 DEF Numbered
    <3>3. NoneLeftWaiting'
      BY <1>2, <1>13, <2>2 DEF UInv, ClientInv, NoneLeftWaiting
    <3> QED BY <2>5, <3>1, <3>2, <3>3 DEF ClientInv
  <2>7. NetInv'
    BY <1>7, <1>13, NetFrame DEF UInv
  <2>8. Quiet'
    <3>1. udp' = udp /\ c2s' = c2s
      BY <1>2, <1>13 DEF net
    <3>2. ASSUME NEW j \in Ks, j > Len(made') PROVE j > Len(made)
      BY <1>1, <1>4, <1>5, <3>2 DEF Ks
    <3> QED BY <1>9, <3>1, <3>2 DEF UInv, Quiet
  <2>9. ASSUME NEW j \in Ks PROVE StreamInv(j)'
    <3>1. StreamInv(j) /\ c2s' = c2s /\ s2c' = s2c /\ srv' = srv
      BY <1>2, <1>13 DEF UInv, net, server
    <3>2. CASE ~ClientHolds(j)
      BY <1>9, <2>3, <3>1, <3>2 DEF StreamInv
    <3>3. CASE ClientHolds(j)
      <4>1. j \in 1 .. Len(made)
        BY <3>3, ClientHoldsIff DEF UInv, ClientInv
      <4> QED BY <1>6, <1>9, <1>13, <2>3, <3>1, <4>1, StreamFrame
    <3> QED BY <3>2, <3>3
  <2> QED BY <1>9, <1>10, <2>6, <2>7, <2>8, <2>9 DEF UInv
<1>14. ASSUME NEW d \in WithRoom(dsts[a], t), NEW ph \in {"PendingAuth", "AwaitResp"},
              sess' = [sess EXCEPT ![sid] = NewSession(a, t, ph)],
              dsts' = [dsts EXCEPT ![a] = [d EXCEPT ![t] =
                         [session |-> sid, failed |-> FALSE, present |-> TRUE]]],
              ph = "PendingAuth" => udp = "Unknown" /\ UNCHANGED net,
              ph = "AwaitResp" => /\ udp = "Available" /\ c2s' = [c2s EXCEPT ![k] = {"open"}]
                                  /\ up' = up \cup {<<sid, k>>} /\ UNCHANGED <<s2c, down>>
       PROVE  UInv'
  <2>1. /\ dsts' \in [Assocs -> [Targets -> Entry]]
        /\ \A b \in Assocs : Cardinality(Present(dsts'[b])) <= MAX_DST_PER_ASSOC
        /\ dsts'[a][t].session = sid
        /\ \A b \in Assocs, u \in Targets :
              (b # a \/ u # t) => dsts'[b][u].session = dsts[b][u].session
    <3>1. sid \in Sids \cup {None}
      BY <1>3
    <3>2. DstsInv
      BY <1>4
    <3>3. InsertDst(a, t, d, sid)
      BY <1>14 DEF InsertDst
    <3>4. DstInserted(a, t, sid)
      BY <3>1, <3>2, <3>3, RoomForDst
    <3> QED BY <3>4 DEF DstInserted
  <2>2. PICK x : x = NewSession(a, t, ph)
    OBVIOUS
  <2>3. /\ x \in ClientSession /\ x.k = k /\ x.assoc = a /\ x.target = t /\ x.phase = ph
    BY <1>1, <1>2, <2>2 DEF NewSession, ClientSession
  <2>4. x # None
    BY <2>3, Constants
  <2>5. /\ sess' \in [Sids -> ClientSession \cup {None}] /\ sess'[sid] = x
        /\ \A s \in Sids : s # sid => sess'[s] = sess[s]
    BY <1>3, <1>4, <1>14, <2>2, <2>3
  <2>6. Live' = Live \cup {sid} /\ \A s \in Live : s # sid /\ sess'[s] = sess[s]
    BY <1>3, <2>4, <2>5 DEF Live
  <2>7. Issued' = IF ph = "AwaitResp" THEN Issued \cup {sid} ELSE Issued
    BY <1>3, <1>14, <2>3, <2>5, <2>6 DEF Issued
  <2>8. \A j : ClientHolds(j)' <=> ClientHolds(j) \/ (j = k /\ ph = "AwaitResp")
    <3>1. \A s \in Issued : sess'[s] = sess[s]
      BY <2>6 DEF Issued
    <3> QED BY <2>3, <2>5, <2>7, <3>1 DEF ClientHolds
  <2>9. SessionsMirrorDsts'
    <3>1. ASSUME NEW s \in Live'
          PROVE  sess'[s].assoc \in assocs' /\ dsts'[sess'[s].assoc][sess'[s].target].session = s
      <4>1. CASE s = sid
        BY <1>2, <2>1, <2>3, <2>5, <4>1
      <4>2. CASE s \in Live
        <5>1. /\ sess[s].assoc \in Assocs /\ sess[s].target \in Targets /\ sess[s].assoc \in assocs
              /\ dsts[sess[s].assoc][sess[s].target].session = s
          BY <1>4, <4>2, LiveSession DEF ClientSession, DstsInv, SessionsMirrorDsts
        <5>2. sess[s].assoc # a \/ sess[s].target # t
          BY <1>2, <4>2, <5>1, Constants DEF Live
        <5> QED BY <1>2, <2>1, <2>6, <4>2, <5>1, <5>2
      <4> QED BY <2>6, <4>1, <4>2
    <3>2. ASSUME NEW b \in Assocs, NEW u \in Targets, dsts'[b][u].session # None
          PROVE  /\ dsts'[b][u].session \in Live'
                 /\ sess'[dsts'[b][u].session].assoc = b /\ sess'[dsts'[b][u].session].target = u
      <4>1. CASE b = a /\ u = t
        BY <2>1, <2>3, <2>5, <2>6, <4>1
      <4>2. CASE b # a \/ u # t
        <5>1. dsts'[b][u].session = dsts[b][u].session
          BY <2>1, <4>2
        <5>2. /\ dsts[b][u].session \in Live /\ sess[dsts[b][u].session].assoc = b
              /\ sess[dsts[b][u].session].target = u
          BY <1>4, <3>2, <5>1 DEF DstsInv, SessionsMirrorDsts
        <5> QED BY <2>6, <5>1, <5>2
      <4> QED BY <4>1, <4>2
    <3> QED BY <3>1, <3>2 DEF SessionsMirrorDsts
  <2>10. ClientInv'
    <3>1. ClientTypes'
      BY <1>2, <1>3, <1>4, <1>5, <2>1, <2>5 DEF ClientTypes
    <3>2. ClientLimits'
      <4>1. IsFiniteSet(Live)
        BY SidsAreRests, FS_Subset DEF Live
      <4>2. Cardinality(Live \cup {sid}) = Cardinality(Live) + 1 /\ Cardinality(Live) \in Nat
        BY <1>3, <4>1, FS_AddElement, FS_CardinalityType
      <4>3. Cardinality(Live)' <= MAX_SESSIONS_PER_CONN
        BY <1>2, <2>6, <4>2, Constants
      <4> QED BY <2>1, <4>3 DEF ClientLimits
    <3>3. Numbered'
      <4>1. \A s \in Live' : Of(sess[s].k, s)'
        BY <1>6, <1>7, <1>12, <2>3, <2>5, <2>6
      <4> QED BY <1>8, <4>1 DEF Numbered
    <3>4. NoneLeftWaiting'
      BY <1>2, <1>14, <2>3, <2>5, <2>6 DEF UInv, ClientInv, NoneLeftWaiting
    <3> QED BY <2>9, <3>1, <3>2, <3>3, <3>4 DEF ClientInv
  <2>11. /\ c2s' \in [Ks -> SUBSET {"open", "reset"}] /\ s2c' = s2c
         /\ c2s'[k] = IF ph = "AwaitResp" THEN {"open"} ELSE {}
         /\ \A j \in Ks : j # k => c2s'[j] = c2s[j]
    BY <1>2, <1>11, <1>14 DEF UInv, NetInv, net
  <2>12. NetInv'
    <3>1. /\ down' = down
          /\ \A m \in up' : m \in up \/ m = <<sid, k>>
      BY <1>14 DEF net
    <3>2. \A m \in up' : m \in Sids \X Ks /\ Of(m[2], m[1])'
      BY <1>2, <1>3, <1>6, <1>7, <3>1 DEF UInv, NetInv
    <3> QED BY <1>7, <2>11, <3>1, <3>2 DEF UInv, NetInv
  <2>13. Quiet'
    <3>1. udp' # "Available" => Admitted' = {} /\ \A j \in Ks : c2s'[j] = {}
      BY <1>2, <1>9, <1>14, <2>11 DEF UInv, Quiet
    <3>2. \A j \in Ks : j > Len(made') => c2s'[j] = {}
      <4>1. ASSUME NEW j \in Ks, j > Len(made') PROVE j # k /\ j > Len(made)
        BY <1>1, <1>4, <1>5, <4>1 DEF Ks
      <4>2. \A j \in Ks : j > Len(made) => c2s[j] = {}
        BY DEF UInv, Quiet
      <4> QED BY <2>11, <4>1, <4>2
    <3> QED BY <3>1, <3>2 DEF Quiet
  <2>14. StreamInv(k)'
    <3>1. ~ServerHolds(k)' /\ s2c'[k] = {} /\ (ClientHolds(k)' <=> ph = "AwaitResp")
      BY <1>9, <1>11, <2>8, <2>11
    <3>2. sess'[SidOf(k)'].phase = ph
      BY <1>6, <2>3, <2>5
    <3> QED BY <2>11, <3>1, <3>2 DEF StreamInv
  <2>15. ASSUME NEW j \in Ks, j # k PROVE StreamInv(j)'
    <3>1. StreamInv(j) /\ c2s'[j] = c2s[j] /\ s2c'[j] = s2c[j] /\ srv' = srv
      BY <1>2, <2>11, <2>15 DEF UInv, server
    <3>2. ClientHolds(j)' <=> ClientHolds(j)
      BY <2>8, <2>15
    <3>3. CASE ~ClientHolds(j)
      BY <1>9, <3>1, <3>2, <3>3 DEF StreamInv
    <3>4. CASE ClientHolds(j)
      <4>1. j \in 1 .. Len(made) /\ SidOf(j) \in Live
        BY <3>4, ClientHoldsIff DEF UInv, ClientInv, Issued
      <4> QED BY <1>6, <1>9, <2>6, <3>1, <3>2, <4>1, StreamFrame
    <3> QED BY <3>3, <3>4
  <2> QED BY <1>9, <1>10, <2>10, <2>12, <2>13, <2>14, <2>15 DEF UInv
<1>15. PICK d \in WithRoom(dsts[a], t) :
         \/ /\ udp = "Unknown" /\ UNCHANGED net
            /\ sess' = [sess EXCEPT ![sid] = NewSession(a, t, "PendingAuth")]
            /\ dsts' = [dsts EXCEPT ![a] = [d EXCEPT ![t] =
                         [session |-> sid, failed |-> FALSE, present |-> TRUE]]]
         \/ /\ udp = "Available"
            /\ sess' = [sess EXCEPT ![sid] = NewSession(a, t, "AwaitResp")]
            /\ dsts' = [dsts EXCEPT ![a] = [d EXCEPT ![t] =
                         [session |-> sid, failed |-> FALSE, present |-> TRUE]]]
            /\ c2s' = [c2s EXCEPT ![k] = {"open"}]
            /\ up' = up \cup {<<sid, k>>} /\ UNCHANGED <<s2c, down>>
         \/ /\ udp = "Available" /\ UNCHANGED <<sess, net>>
            /\ dsts' = [dsts EXCEPT ![a] = [d EXCEPT ![t] =
                         [session |-> None, failed |-> FALSE, present |-> TRUE]]]
  BY <1>1 DEF Outbound
<1> QED
  BY <1>13, <1>14, <1>15

-----------------------------------------------------------------------------
(* The theorems                                                            *)

LEMMA UdpInit ==
  ASSUME Init
  PROVE  UInv
<1>1. Live = {} /\ Issued = {} /\ Admitted = {} /\ \A k : ~ClientHolds(k) /\ ~ServerHolds(k)
  BY DEF Init, Live, Issued, Admitted, ClientHolds, ServerHolds
<1>2. Cardinality({}) = 0
  BY FS_EmptySet
<1>3. \A a \in Assocs, t \in Targets : dsts[a][t] = Absent
  BY DEF Init
<1>4. Absent \in Entry /\ Absent.session = None /\ ~Absent.present
  BY DEF Absent, Entry
<1>5. ClientInv
  <2>1. made = <<>> /\ made \in Seq(Nat) /\ Len(made) = 0
    BY DEF Init
  <2>2. ClientTypes
    <3>1. closing \in BOOLEAN /\ udp \in {"Unknown", "Available", "Unavailable"}
      BY Zenon DEF Init
    <3> QED BY <1>4, <2>1, <3>1, Constants DEF Init, ClientTypes
  <2>3. ClientLimits
    <3>1. \A a \in Assocs : Present(dsts[a]) = {}
      BY <1>3, <1>4 DEF Present
    <3> QED BY <1>1, <1>2, <3>1, Constants DEF ClientLimits
  <2>4. Numbered /\ NoneLeftWaiting
    BY <1>1, <2>1 DEF Numbered, NoneLeftWaiting
  <2>5. SessionsMirrorDsts
    BY <1>1, <1>3, <1>4 DEF SessionsMirrorDsts
  <2> QED BY <2>2, <2>3, <2>4, <2>5 DEF ClientInv
<1>6. NetInv /\ CrossInv
  BY DEF Init, NetInv, CrossInv
<1>7. ServerInv
  <2>1. preopen \in Seq(Parked) /\ Len(preopen) = 0 /\ DOMAIN preopen = {}
    BY DEF Init
  <2> QED BY <1>1, <1>2, <2>1, Constants DEF Init, ServerInv, NothingParkedWhenLive
<1>8. Quiet
  BY <1>1 DEF Init, Quiet
<1>9. ASSUME NEW k \in Ks PROVE StreamInv(k)
  BY <1>1 DEF Init, StreamInv
<1> QED
  BY <1>5, <1>6, <1>7, <1>8, <1>9 DEF UInv

LEMMA UdpStep ==
  ASSUME UInv, [Next]_vars
  PROVE  UInv'
<1>1. CASE UNCHANGED vars
  <2>1. UNCHANGED <<client, net, server, crossed>>
    BY <1>1 DEF vars
  <2>2. preopen \in Seq(Parked) /\ Len(preopen) <= PREOPEN_DGRAMS
    BY DEF UInv, ServerInv
  <2>3. \A i \in 1 .. Len(preopen) :
          /\ Of(preopen[i].k, preopen[i].sid)
          /\ preopen[i].sid \in Admitted => srv[preopen[i].sid].phase # "Live"
    BY <2>2 DEF UInv, ServerInv, NothingParkedWhenLive
  <2> QED BY <2>1, <2>2, <2>3, BufferKeeps DEF server
<1>2. CASE Attempt \/ (udp # "Unknown" /\ ConnGone) \/ CloseConn
  BY <1>2, AvailableKeeps, UnavailableKeeps, ConnGoneKeeps, CloseKeeps DEF Attempt
<1>3. ASSUME NEW a \in Assocs, NewAssoc(a) \/ EndAssoc(a) PROVE UInv'
  BY <1>3, NewAssocKeeps, EndAssocKeeps
<1>4. ASSUME NEW a \in Assocs, NEW t \in Targets,
             SessionSend(a, t) \/ Outbound(a, t) \/ NegCacheExpires(a, t)
      PROVE  UInv'
  BY <1>4, SessionSendKeeps, OutboundKeeps, NegCacheExpiresKeeps
<1>5. ASSUME NEW sid \in Sids, StreamStep(sid) \/ RespTimeout(sid) PROVE UInv'
  BY <1>5, RespOkKeeps, StreamEndsKeep DEF StreamStep
<1>6. ASSUME NEW m \in down, Deliver(m) PROVE UInv'
  BY <1>6, DeliverKeeps
<1>7. ASSUME NEW k \in Ks, UdpOpen(k) \/ ClientReset(k) PROVE UInv'
  BY <1>7, UdpOpenKeeps, ClientResetKeeps
<1>8. ASSUME NEW sid \in Sids,
             UdpResolved(sid) \/ UdpSocket(sid) \/ UdpReply(sid) \/ UdpIdle(sid)
      PROVE  UInv'
  BY <1>8, UdpResolvedKeeps, UdpSocketKeeps, UdpReplyKeeps, UdpIdleKeeps
<1>9. ASSUME NEW m \in up, UdpDeliver(m) PROVE UInv'
  BY <1>9, UdpDeliverKeeps
<1>10. CASE PreopenAges
  BY <1>10, PreopenAgesKeeps
<1> QED
  BY <1>1, <1>2, <1>3, <1>4, <1>5, <1>6, <1>7, <1>8, <1>9, <1>10 DEF Next

(* What the invariant says of the two ends. *)
LEMMA EndsFromStreams ==
  ASSUME UInv
  PROVE  EndsAgree
<1>1. SUFFICES ASSUME NEW k \in DOMAIN made, c2s[k] = {}, s2c[k] = {}
               PROVE  /\ ClientHolds(k) <=> ServerHolds(k)
                      /\ \A sid \in Issued : sess[sid].k = k =>
                           (sess[sid].phase = "Open" <=> srv[sid].phase = "Live")
  BY DEF EndsAgree
<1>2. k \in 1 .. Len(made) /\ k \in Ks
  BY MadeSids DEF UInv, ClientInv, ClientTypes
<1>3. StreamInv(k)
  BY <1>2 DEF UInv
<1>4. ClientHolds(k) <=> ServerHolds(k)
  BY <1>1, <1>3 DEF StreamInv
<1>5. ASSUME NEW sid \in Issued, sess[sid].k = k
      PROVE  sess[sid].phase = "Open" <=> srv[sid].phase = "Live"
  <2>1. ClientHolds(k) /\ SidOf(k) = sid
    BY <1>5 DEF ClientHolds, Issued, UInv, ClientInv, Numbered, Of
  <2> QED BY <1>1, <1>3, <1>4, <2>1 DEF StreamInv
<1> QED
  BY <1>4, <1>5

LEMMA CrossedFromSids ==
  ASSUME UInv
  PROVE  CrossedOnlyAcrossWrap
<1>1. SUFFICES ASSUME NEW x \in crossed
               PROVE  \/ made[x[1]] - made[x[2]] >= SidMod
                      \/ -(made[x[1]] - made[x[2]]) >= SidMod
  BY DEF CrossedOnlyAcrossWrap
<1> DEFINE i == x[1]
           j == x[2]
<1>2. i \in 1 .. Len(made) /\ j \in 1 .. Len(made) /\ i # j /\ SidOf(i) = SidOf(j)
  BY DEF UInv, CrossInv
<1> HIDE DEF i, j
<1>3. made[i] \in Nat /\ made[j] \in Nat /\ made[i] % SidMod = made[j] % SidMod
  BY <1>2, MadeSids DEF UInv, ClientInv, SidOf
<1>4. made[i] < made[j] \/ made[j] < made[i]
  BY <1>2 DEF UInv, ClientInv, Numbered
<1>5. SidMod \in Nat \ {0}
  BY Constants
<1>6. CASE made[i] < made[j]
  <2>1. made[j] - made[i] >= SidMod
    BY <1>3, <1>5, <1>6, RestsApart
  <2> QED BY <1>3, <1>5, <2>1 DEF i, j
<1>7. CASE made[j] < made[i]
  <2>1. made[i] - made[j] >= SidMod
    BY <1>3, <1>5, <1>7, RestsApart
  <2> QED BY <1>3, <1>5, <2>1 DEF i, j
<1> QED
  BY <1>4, <1>6, <1>7

(* The inductive invariant of the UDP relay. *)
THEOREM UdpInvariant == Spec => []UInv
<1>1. Init => UInv
  BY UdpInit
<1>2. UInv /\ [Next]_vars => UInv'
  BY UdpStep
<1> QED
  BY <1>1, <1>2, PTL DEF Spec

(* Through every order of datagrams, resets, refusals and lost connections *)
(* (client/udp_session.rs, server/udp_session.rs, udp/preopen.rs) the      *)
(* tables keep to their limits, a session and its DST name each other, a   *)
(* session waits only while AUTH is unanswered or the connection is being  *)
(* closed (client/mod.rs, a drain that fails), and nothing is parked for a *)
(* session that is Live.                                                   *)
THEOREM UdpMapsSound == Spec => []SessionMaps
<1>1. UInv => SessionMaps
  <2>1. UInv => TypeOK
    BY DEF UInv, ClientInv, ClientTypes, ClientLimits, NetInv, ServerInv, TypeOK, Entry
  <2> QED BY <2>1 DEF UInv, ClientInv, ServerInv, SessionMaps
<1> QED
  BY <1>1, UdpInvariant, PTL

(* Once nothing of a session is on its way the two ends agree on it, and a *)
(* late datagram reaches another session's peer only when the sid counter  *)
(* (alloc_sid) has gone round in between, whatever its modulus.            *)
THEOREM UdpEndsSound == Spec => []SessionEnds
<1>1. UInv => SessionEnds
  BY EndsFromStreams, CrossedFromSids DEF SessionEnds
<1> QED
  BY <1>1, UdpInvariant, PTL
=============================================================================
