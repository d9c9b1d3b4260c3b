-------------------------- MODULE ServerCoreProofs --------------------------
(***************************************************************************)
(* Proofs about ServerCore, for any connections, streams and sessions and  *)
(* any budget and session limit: the budget counts exactly what is held,   *)
(* the app's maps agree with each other and with the shard, nothing        *)
(* outlives its owner, and nothing is held before authentication.          *)
(***************************************************************************)
EXTENDS ServerCore, FiniteSetTheorems, TLAPS

(* ServerSound stream by stream.  A stream never held has no connection,   *)
(* and one handed to a relay is gone for the app.                          *)
StreamInv ==
  \A s \in Streams :
    /\ (s \in dials) <=> (data[s].phase = "Dialling")
    /\ (s \in dial_ops) <=> (data[s].phase = "Dialling")
    /\ (s \in resolves) <=> (sphase[s] = "Resolving")
    /\ (s \in resolve_ops) <=> (sphase[s] = "Resolving")
    /\ (s \in socket_opens) <=> (sphase[s] = "Opening")
    /\ (s \in socket_ops) <=> (sphase[s] = "Opening")
    /\ (s \in udp_socks) <=> (sphase[s] = "Live")
    /\ (s \in usocks) <=> (sphase[s] = "Live")
    /\ (s \in request_timers) <=> (data[s].phase = "Request")
    /\ (data[s].phase = "Udp") <=> (sphase[s] # "none")
    /\ s \in socks => data[s].phase = "Responding"
    /\ s \in relays => data[s].phase = "gone"
    /\ data[s].phase = "new" => data[s].conn = None

(* Session by session. *)
SessionInv ==
  /\ \A c \in Conns, sid \in Sids :
       /\ udp[c][sid] # None =>
            /\ data[udp[c][sid]].phase = "Udp"
            /\ data[udp[c][sid]].conn = c
            /\ data[udp[c][sid]].sid = sid
       /\ (sid \in idle_timers[c]) <=> (udp[c][sid] # None /\ sphase[udp[c][sid]] = "Live")
  /\ \A s \in Streams :
       data[s].phase = "Udp" => data[s].sid \in Sids /\ udp[data[s].conn][data[s].sid] = s

(* Connection by connection. *)
ConnInv ==
  /\ \A s \in Held \cup relays : data[s].conn \in Up /\ Authed(data[s].conn)
  /\ conn_timers \subseteq Up
  /\ \A c \in Up : conns[c].proto = "Raw" /\ ~Authed(c) /\ ~conns[c].closing
                     => c \in conn_timers

SInv == TypeOK /\ StreamInv /\ SessionInv /\ ConnInv /\ BudgetExact

----------------------------------------------------------------------------
LEMMA SoundFromParts == SInv => ServerSound
<1> SUFFICES ASSUME SInv PROVE ServerSound
  OBVIOUS
<1>t. TypeOK
  BY DEF SInv
<1>r. StreamInv
  BY DEF SInv
<1>u. SessionInv
  BY DEF SInv
<1>c. ConnInv
  BY DEF SInv
<1>1. BudgetExact
  BY DEF SInv
<1>2. MapsAgree
  <2>1. /\ dials = {s \in Streams : data[s].phase = "Dialling"} /\ dial_ops = dials
        /\ resolves = {s \in Streams : sphase[s] = "Resolving"} /\ resolve_ops = resolves
        /\ socket_opens = {s \in Streams : sphase[s] = "Opening"} /\ socket_ops = socket_opens
        /\ udp_socks = {s \in Streams : sphase[s] = "Live"}
        /\ request_timers = {s \in Streams : data[s].phase = "Request"}
    BY <1>t, <1>r DEF TypeOK, StreamInv
  <2>3. \A s \in Streams :
          /\ (data[s].phase = "Udp") <=> (sphase[s] # "none")
          /\ data[s].phase = "Udp" => udp[data[s].conn][data[s].sid] = s
    BY <1>r, <1>u DEF StreamInv, SessionInv
  <2>4. ASSUME NEW c \in Conns, NEW sid \in Sids
        PROVE  /\ udp[c][sid] # None =>
                    data[udp[c][sid]] = [phase |-> "Udp", conn |-> c, sid |-> sid]
               /\ (sid \in idle_timers[c]) <=>
                    (udp[c][sid] # None /\ sphase[udp[c][sid]] = "Live")
    <3>1. ASSUME udp[c][sid] # None
          PROVE  data[udp[c][sid]] = [phase |-> "Udp", conn |-> c, sid |-> sid]
      <4>1. data[udp[c][sid]] \in DataRecords
        BY <1>t, <3>1 DEF TypeOK
      <4>2. /\ data[udp[c][sid]].phase = "Udp" /\ data[udp[c][sid]].conn = c
            /\ data[udp[c][sid]].sid = sid
        BY <1>u, <3>1 DEF SessionInv
      <4> QED
        BY <4>1, <4>2 DEF DataRecords
    <3> QED
      BY <1>u, <3>1 DEF SessionInv
  <2>6. (\A s \in Held : data[s].conn \in Up) /\ conn_timers \subseteq Up
    BY <1>c DEF ConnInv
  <2> QED
    BY <2>1, <2>3, <2>4, <2>6 DEF MapsAgree
<1>3. NoLeak
  BY <1>t, <1>r, <1>c DEF NoLeak, TypeOK, StreamInv, ConnInv, Held
<1>4. AuthGate
  <2>1. ASSUME NEW c \in Up,
               HeldOf(c) # {} \/ SessionsOf(c) # {} \/ \E s \in relays : data[s].conn = c
        PROVE  Authed(c)
    <3>1. CASE SessionsOf(c) # {}
      <4>1. PICK sid \in Sids : udp[c][sid] # None
        BY <3>1 DEF SessionsOf
      <4>2. udp[c][sid] \in Streams /\ data[udp[c][sid]].phase = "Udp" /\ data[udp[c][sid]].conn = c
        BY <1>t, <1>u, <4>1 DEF SessionInv, TypeOK, Up
      <4> QED
        BY <1>c, <4>2 DEF ConnInv, Held
    <3>2. CASE HeldOf(c) # {} \/ \E s \in relays : data[s].conn = c
      BY <1>c, <3>2 DEF HeldOf, ConnInv
    <3> QED
      BY <2>1, <3>1, <3>2
  <2> QED
    BY <1>c, <2>1 DEF AuthGate, ConnInv
<1> QED
  BY <1>1, <1>2, <1>3, <1>4 DEF ServerSound

LEMMA InitServer == Init => SInv
<1> SUFFICES ASSUME Init PROVE SInv
  OBVIOUS
<1> USE DEF Init, NewConn, NewData
<1>1. Up = {} /\ Held = {}
  BY DEF Up, Held
<1>2. TypeOK
  <2>1. NewConn \in ConnRecords
    BY ServerAssumption DEF ConnRecords
  <2>2. NewData \in DataRecords
    BY DEF DataRecords
  <2>3. conns \in [Conns -> ConnRecords] /\ data \in [Streams -> DataRecords]
    BY <2>1, <2>2
  <2> QED
    BY <2>3 DEF TypeOK
<1>3. StreamInv
  BY DEF StreamInv
<1>4. SessionInv
  BY DEF SessionInv
<1>5. ConnInv /\ BudgetExact
  BY <1>1 DEF ConnInv, BudgetExact
<1> QED
  BY <1>2, <1>3, <1>4, <1>5 DEF SInv

----------------------------------------------------------------------------
(* The end of streams: drop_data, respond_error and on_conn_closed.        *)

Dropped(D, ph) ==
  /\ data' = [s \in Streams |-> IF s \in D THEN [data[s] EXCEPT !.phase = ph] ELSE data[s]]
  /\ EndTimers(D) /\ EndOps(D) /\ EndSessions(D)
  /\ dials' = dials \ D /\ socks' = socks \ D

StreamTypes ==
  /\ data \in [Streams -> DataRecords]
  /\ request_timers \subseteq Streams
  /\ idle_timers \in [Conns -> SUBSET Sids]
  /\ dials \subseteq Streams
  /\ udp \in [Conns -> [Sids -> Streams \cup {None}]]
  /\ sphase \in [Streams -> {"none", "Resolving", "Opening", "Live"}]
  /\ resolves \subseteq Streams /\ socket_opens \subseteq Streams
  /\ udp_socks \subseteq Streams
  /\ dial_ops \subseteq Streams /\ resolve_ops \subseteq Streams /\ socket_ops \subseteq Streams
  /\ socks \subseteq Streams /\ relays \subseteq Streams /\ usocks \subseteq Streams

LEMMA DroppedStreams ==
  ASSUME SInv, NEW D \in SUBSET Held, NEW ph \in {"gone", "Retiring"}, Dropped(D, ph),
         relays' \subseteq relays
  PROVE  /\ StreamTypes' /\ StreamInv' /\ SessionInv'
         /\ \A s \in Streams :
              /\ data'[s].conn = data[s].conn
              /\ data'[s].phase = IF s \in D THEN ph ELSE data[s].phase
         /\ \A c \in Conns : SessionsOf(c)' \subseteq SessionsOf(c)
<1>t. TypeOK /\ D \subseteq Streams
  BY DEF SInv, Held
<1>r. StreamInv
  BY DEF SInv
<1>u. SessionInv
  BY DEF SInv
<1>n. None \notin Streams
  BY ServerAssumption
<1>1. /\ data' \in [Streams -> DataRecords]
      /\ \A s \in Streams :
              /\ data'[s].conn = data[s].conn /\ data'[s].sid = data[s].sid
              /\ data'[s].phase = IF s \in D THEN ph ELSE data[s].phase
  BY <1>t DEF Dropped, TypeOK, DataRecords
<1>2. StreamTypes'
  BY <1>1, <1>t DEF StreamTypes, TypeOK, Dropped, EndTimers, EndOps, EndSessions
<1>3. StreamInv'
  BY <1>1, <1>t, <1>r DEF StreamInv, TypeOK, Dropped, EndTimers, EndOps, EndSessions, Held
<1>4. \A c \in Conns, sid \in Sids :
        /\ udp'[c][sid] = IF udp[c][sid] \in D THEN None ELSE udp[c][sid]
        /\ (sid \in idle_timers'[c]) <=> (sid \in idle_timers[c] /\ udp[c][sid] \notin D)
  BY <1>t DEF Dropped, EndTimers, EndSessions, TypeOK
<1>5. \A s \in Streams : sphase'[s] = IF s \in D THEN "none" ELSE sphase[s]
  BY <1>t DEF Dropped, EndSessions, TypeOK
<1>6. SessionInv'
  <2>1. ASSUME NEW c \in Conns, NEW sid \in Sids
        PROVE  /\ udp'[c][sid] # None =>
                    /\ data'[udp'[c][sid]].phase = "Udp"
                    /\ data'[udp'[c][sid]].conn = c
                    /\ data'[udp'[c][sid]].sid = sid
               /\ (sid \in idle_timers'[c]) <=>
                    (udp'[c][sid] # None /\ sphase'[udp'[c][sid]] = "Live")
    <3>0. /\ udp[c][sid] \in Streams \cup {None}
          /\ udp[c][sid] # None =>
               /\ data[udp[c][sid]].phase = "Udp"
               /\ data[udp[c][sid]].conn = c
               /\ data[udp[c][sid]].sid = sid
          /\ (sid \in idle_timers[c]) <=> (udp[c][sid] # None /\ sphase[udp[c][sid]] = "Live")
      BY <1>t, <1>u DEF TypeOK, SessionInv
    <3>1. CASE udp[c][sid] \in D
      BY <3>0, <3>1, <1>4
    <3>2. CASE udp[c][sid] \notin D
      <4>1. /\ udp'[c][sid] = udp[c][sid]
            /\ (sid \in idle_timers'[c]) <=> (sid \in idle_timers[c])
        BY <3>2, <1>4
      <4>2. udp[c][sid] # None => /\ data'[udp[c][sid]].phase = data[udp[c][sid]].phase
                                  /\ data'[udp[c][sid]].conn = data[udp[c][sid]].conn
                                  /\ data'[udp[c][sid]].sid = data[udp[c][sid]].sid
                                  /\ sphase'[udp[c][sid]] = sphase[udp[c][sid]]
        BY <3>0, <3>2, <1>1, <1>5
      <4> QED
        BY <3>0, <4>1, <4>2
    <3> QED
      BY <3>1, <3>2
  <2>2. ASSUME NEW s \in Streams, data'[s].phase = "Udp"
        PROVE  data'[s].sid \in Sids /\ udp'[data'[s].conn][data'[s].sid] = s
    <3>1. s \notin D /\ data[s].phase = "Udp"
      BY <2>2, <1>1
    <3>2. data[s].sid \in Sids /\ udp[data[s].conn][data[s].sid] = s
      BY <3>1, <1>u DEF SessionInv
    <3>3. data[s].conn \in Conns
      BY <3>1 DEF SInv, ConnInv, Held, Up
    <3> QED
      BY <3>1, <3>2, <3>3, <1>1, <1>4
  <2> QED
    BY <2>1, <2>2 DEF SessionInv
<1>7. ASSUME NEW c \in Conns PROVE SessionsOf(c)' \subseteq SessionsOf(c)
  BY <1>4, <1>n DEF SessionsOf
<1> QED
  BY <1>1, <1>2, <1>3, <1>6, <1>7

----------------------------------------------------------------------------
(* What is counted. *)

LEMMA StreamSets ==
  ASSUME NEW S \in SUBSET Streams, NEW s
  PROVE  /\ Cardinality(S) \in Nat
         /\ Cardinality(S \cup {s}) = IF s \in S THEN Cardinality(S) ELSE Cardinality(S) + 1
         /\ Cardinality(S \ {s}) = IF s \in S THEN Cardinality(S) - 1 ELSE Cardinality(S)
<1>1. IsFiniteSet(S)
  BY ServerAssumption, FS_Subset
<1>2. Cardinality(S) \in Nat
  BY <1>1, FS_CardinalityType
<1> QED
  BY <1>1, <1>2, FS_AddElement, FS_RemoveElement

LEMMA SidSets ==
  ASSUME NEW S \in SUBSET Sids
  PROVE  /\ Cardinality(S) \in Nat
         /\ \A T \in SUBSET S : Cardinality(T) \in Nat /\ Cardinality(T) <= Cardinality(S)
         /\ \A x : Cardinality(S \cup {x}) = IF x \in S THEN Cardinality(S) ELSE Cardinality(S) + 1
<1>1. IsFiniteSet(S)
  BY ServerAssumption, FS_Subset
<1>2. Cardinality(S) \in Nat
  BY <1>1, FS_CardinalityType
<1>3. ASSUME NEW T \in SUBSET S PROVE Cardinality(T) \in Nat /\ Cardinality(T) <= Cardinality(S)
  BY <1>1, <1>3, FS_Subset, FS_CardinalityType
<1> QED
  BY <1>1, <1>2, <1>3, FS_AddElement

(* One held stream leaves the app: its entry of the budget is released. *)
LEMMA OneReleased ==
  ASSUME SInv, NEW s \in Held,
         conns' = [conns EXCEPT ![data[s].conn] = Released(data[s].conn, {s})],
         \A t \in Streams : data'[t].conn = data[t].conn,
         Held' = Held \ {s}, relays' \subseteq relays \cup {s}, conn_timers' = conn_timers,
         \A c \in Conns : SessionsOf(c)' \subseteq SessionsOf(c)
  PROVE  conns' \in [Conns -> ConnRecords] /\ ConnInv' /\ BudgetExact'
<1> DEFINE h == data[s].conn
<1>t. TypeOK
  BY DEF SInv
<1>c. ConnInv
  BY DEF SInv
<1>b. BudgetExact
  BY DEF SInv
<1>1. h \in Conns /\ h \in Up /\ s \in Streams
  BY <1>c DEF ConnInv, Up, Held
<1>2. s \in HeldOf(h) /\ {s} \cap HeldOf(h) = {s} /\ HeldOf(h) \in SUBSET Streams
  BY DEF HeldOf, Held
<1>3. Cardinality({s} \cap HeldOf(h)) = 1
  BY <1>2, FS_Singleton
<1>4. Cardinality(HeldOf(h) \ {s}) = Cardinality(HeldOf(h)) - 1 /\ Cardinality(HeldOf(h)) \in Nat
  BY <1>2, StreamSets
<1>5. Cardinality(HeldOf(h)) # 0
  <2>1. HeldOf(h) \ {s} \in SUBSET Streams
    BY <1>2
  <2>2. Cardinality(HeldOf(h) \ {s}) \in Nat
    BY <2>1, StreamSets
  <2> QED
    BY <2>2, <1>4
<1>6. conns'[h] = [conns[h] EXCEPT !.held = conns[h].held - 1] /\ conns[h] \in ConnRecords
  BY <1>1, <1>3, <1>t DEF Released, TypeOK
<1>7. conns[h].held - 1 \in 0 .. STREAM_BUDGET
  <2>1. conns[h].held \in 0 .. STREAM_BUDGET
    BY <1>6 DEF ConnRecords
  <2>2. conns[h].held # 0
    BY <1>1, <1>4, <1>5, <1>b DEF BudgetExact
  <2> QED
    BY <2>1, <2>2, ServerAssumption
<1>8. conns' \in [Conns -> ConnRecords]
  BY <1>1, <1>6, <1>7, <1>t DEF TypeOK, ConnRecords
<1>9. \A c \in Conns : /\ conns'[c].st = conns[c].st /\ conns'[c].proto = conns[c].proto
                       /\ conns'[c].ctrl = conns[c].ctrl
                       /\ conns'[c].closing <=> conns[c].closing
                       /\ conns'[c].held = IF c = h THEN conns[c].held - 1 ELSE conns[c].held
  BY <1>1, <1>6, <1>t DEF TypeOK, ConnRecords
<1>10. Up' = Up /\ \A c \in Conns : Authed(c)' <=> Authed(c)
  BY <1>9 DEF Up, Authed
<1>11. ConnInv'
  <2>1. ASSUME NEW t \in Held' \cup relays'
        PROVE  data'[t].conn \in Up' /\ conns'[data'[t].conn].ctrl = "Settled"
    <3>1. t \in Held \cup relays /\ t \in Streams
      BY <1>t DEF TypeOK, Held
    <3>2. data[t].conn \in Up /\ Authed(data[t].conn)
      BY <3>1, <1>c DEF ConnInv
    <3> QED
      BY ZenonT(60), <3>1, <3>2, <1>9 DEF Up, Authed
  <2>2. conn_timers' \subseteq Up'
    BY <1>c, <1>10 DEF ConnInv
  <2>3. ASSUME NEW c \in Up', conns'[c].proto = "Raw", ~Authed(c)', ~conns'[c].closing
        PROVE  c \in conn_timers'
    BY <2>3, <1>c, <1>9, <1>10 DEF ConnInv, Up
  <2> QED
    BY <2>1, <2>2, <2>3 DEF ConnInv, Authed
<1>12. BudgetExact'
  <2> SUFFICES ASSUME NEW c \in Up
               PROVE  /\ conns'[c].held =
                           Cardinality(HeldOf(c)') + (IF conns'[c].ctrl = "none" THEN 0 ELSE 1)
                      /\ conns'[c].held <= STREAM_BUDGET
                      /\ Cardinality(SessionsOf(c)') <= MAX_SESSIONS_PER_CONN
    BY <1>10 DEF BudgetExact
  <2>0. c \in Conns
    BY DEF Up
  <2>1. /\ conns[c].held = Cardinality(HeldOf(c)) + (IF conns[c].ctrl = "none" THEN 0 ELSE 1)
        /\ conns[c].held <= STREAM_BUDGET /\ Cardinality(SessionsOf(c)) <= MAX_SESSIONS_PER_CONN
    BY <1>b DEF BudgetExact
  <2>2. HeldOf(c)' = IF c = h THEN HeldOf(c) \ {s} ELSE HeldOf(c)
    BY <1>1 DEF HeldOf, Held
  <2>3. conns'[c].held = Cardinality(HeldOf(c)') + (IF conns'[c].ctrl = "none" THEN 0 ELSE 1)
    <3>1. CASE c = h
      <4>1. Cardinality(HeldOf(c)') = Cardinality(HeldOf(c)) - 1
        BY <3>1, <2>2, <1>4
      <4>2. conns'[c].held = conns[c].held - 1 /\ conns'[c].ctrl = conns[c].ctrl
        BY <3>1, <2>0, <1>9
      <4> QED
        BY <3>1, <4>1, <4>2, <2>1, <1>4
    <3>2. CASE c # h
      BY <3>2, <2>0, <2>1, <2>2, <1>9
    <3> QED
      BY <3>1, <3>2
  <2>4. conns'[c].held <= STREAM_BUDGET
    <3>1. conns'[c] \in ConnRecords
      BY <2>0, <1>8
    <3> QED
      BY <3>1, ServerAssumption DEF ConnRecords
  <2>5. Cardinality(SessionsOf(c)') <= MAX_SESSIONS_PER_CONN
    <3>1. SessionsOf(c) \in SUBSET Sids /\ SessionsOf(c)' \in SUBSET SessionsOf(c)
      BY <2>0 DEF SessionsOf
    <3>2. /\ Cardinality(SessionsOf(c)) \in Nat /\ Cardinality(SessionsOf(c)') \in Nat
          /\ Cardinality(SessionsOf(c)') <= Cardinality(SessionsOf(c))
      BY <3>1, SidSets
    <3> QED
      BY <3>2, <2>1, ServerAssumption
  <2> QED
    BY <2>3, <2>4, <2>5
<1> QED
  BY <1>8, <1>11, <1>12

(* Steps in which connections and the held streams stay as they are. *)
LEMMA ConnsStay ==
  ASSUME SInv, UNCHANGED <<conns, conn_timers>>,
         \A t \in Streams : data'[t].conn = data[t].conn,
         Held' = Held, relays' \subseteq relays,
         \A c \in Conns : SessionsOf(c)' \subseteq SessionsOf(c)
  PROVE  ConnInv' /\ BudgetExact'
<1>1. Up' = Up /\ relays \subseteq Streams /\ Held \subseteq Streams
  BY DEF Up, Held, SInv, TypeOK
<1>2. ConnInv'
  <2>1. ASSUME NEW t \in Held' \cup relays'
        PROVE  data'[t].conn \in Up' /\ conns'[data'[t].conn].ctrl = "Settled"
    BY <1>1 DEF SInv, ConnInv, Authed
  <2> QED
    BY <1>1, <2>1 DEF SInv, ConnInv, Authed
<1>3. \A c : HeldOf(c)' = HeldOf(c)
  BY <1>1 DEF HeldOf
<1>4. ASSUME NEW c \in Up PROVE Cardinality(SessionsOf(c)') <= MAX_SESSIONS_PER_CONN
  <2>1. c \in Conns /\ SessionsOf(c) \in SUBSET Sids
    BY DEF Up, SessionsOf
  <2>2. /\ Cardinality(SessionsOf(c)) \in Nat /\ Cardinality(SessionsOf(c)') \in Nat
        /\ Cardinality(SessionsOf(c)') <= Cardinality(SessionsOf(c))
    BY <2>1, SidSets
  <2>3. Cardinality(SessionsOf(c)) <= MAX_SESSIONS_PER_CONN
    BY DEF SInv, BudgetExact
  <2> QED
    BY <2>2, <2>3, ServerAssumption
<1>5. BudgetExact'
  BY <1>1, <1>3, <1>4 DEF SInv, BudgetExact
<1> QED
  BY <1>2, <1>5

LEMMA AllTypes ==
  ASSUME StreamTypes', conns' \in [Conns -> ConnRecords], conn_timers' \subseteq Conns,
         shutting_down' \in BOOLEAN, exit' \in BOOLEAN
  PROVE  TypeOK'
BY DEF TypeOK, StreamTypes

LEMMA KeepDropData ==
  ASSUME SInv, NEW s \in Held, DropData(s), UNCHANGED <<life, relays>>
  PROVE  SInv'
<1>1. Dropped({s}, "gone") /\ {s} \in SUBSET Held
  BY DEF DropData, DropStreams, Dropped, GoneData
<1>2. /\ StreamTypes' /\ StreamInv' /\ SessionInv'
      /\ \A t \in Streams :
              /\ data'[t].conn = data[t].conn
              /\ data'[t].phase = IF t \in {s} THEN "gone" ELSE data[t].phase
      /\ \A c \in Conns : SessionsOf(c)' \subseteq SessionsOf(c)
  BY <1>1, DroppedStreams
<1>3. Held' = Held \ {s}
  BY <1>2 DEF Held
<1>4. conns' \in [Conns -> ConnRecords] /\ ConnInv' /\ BudgetExact'
  BY <1>2, <1>3, OneReleased DEF DropData
<1>5. TypeOK'
  BY <1>2, <1>4, AllTypes DEF DropData, life, SInv, TypeOK
<1> QED
  BY <1>2, <1>4, <1>5 DEF SInv

LEMMA KeepRespondError ==
  ASSUME SInv, NEW s \in Held, s \notin socks, RespondError(s), UNCHANGED <<life, relays>>
  PROVE  SInv'
<1>1. CASE DropData(s)
  BY <1>1, KeepDropData
<1>2. CASE /\ data' = [data EXCEPT ![s].phase = "Retiring"]
           /\ EndTimers({s}) /\ dials' = dials \ {s} /\ EndOps({s}) /\ EndSessions({s})
           /\ UNCHANGED <<conns, conn_timers, socks>>
  <2>1. Dropped({s}, "Retiring") /\ {s} \in SUBSET Held
    BY <1>2 DEF Dropped, SInv, TypeOK, Held
  <2>2. /\ StreamTypes' /\ StreamInv' /\ SessionInv'
        /\ \A t \in Streams :
                /\ data'[t].conn = data[t].conn
                /\ data'[t].phase = IF t \in {s} THEN "Retiring" ELSE data[t].phase
        /\ \A c \in Conns : SessionsOf(c)' \subseteq SessionsOf(c)
    BY <2>1, DroppedStreams
  <2>3. Held' = Held
    BY <2>2 DEF Held
  <2>4. ConnInv' /\ BudgetExact'
    BY <1>2, <2>2, <2>3, ConnsStay
  <2>5. TypeOK'
    BY <1>2, <2>2, AllTypes DEF life, SInv, TypeOK
  <2> QED
    BY <2>2, <2>4, <2>5 DEF SInv
<1> QED
  BY <1>1, <1>2 DEF RespondError

LEMMA KeepOnConnClosed ==
  ASSUME SInv, NEW c \in Conns, OnConnClosed(c)
  PROVE  SInv'
<1> DEFINE D == HeldOf(c)
           gone == [NewConn EXCEPT !.st = "gone"]
<1>1. Dropped(D, "gone") /\ D \in SUBSET Held /\ relays' \subseteq relays
  BY DEF OnConnClosed, DropStreams, Dropped, GoneData, HeldOf
<1>2. /\ StreamTypes' /\ StreamInv' /\ SessionInv'
      /\ \A t \in Streams :
              /\ data'[t].conn = data[t].conn
              /\ data'[t].phase = IF t \in D THEN "gone" ELSE data[t].phase
      /\ \A d \in Conns : SessionsOf(d)' \subseteq SessionsOf(d)
  BY <1>1, DroppedStreams
<1>3. Held' = Held \ D
  BY <1>2 DEF Held
<1>4. gone \in ConnRecords /\ gone.st = "gone"
  <2>1. NewConn \in ConnRecords
    BY ServerAssumption DEF NewConn, ConnRecords
  <2> QED
    BY <2>1 DEF ConnRecords
<1>5. conns' = [conns EXCEPT ![c] = gone] /\ conn_timers' = conn_timers \ {c}
  BY DEF OnConnClosed
<1> HIDE DEF gone
<1>6. conns' \in [Conns -> ConnRecords]
  BY <1>4, <1>5 DEF SInv, TypeOK
<1>7. Up' = Up \ {c} /\ \A d \in Conns \ {c} : conns'[d] = conns[d]
  BY <1>4, <1>5 DEF Up, SInv, TypeOK
<1>8. ConnInv'
  <2>1. ASSUME NEW t \in Held' \cup relays'
        PROVE  data'[t].conn \in Up' /\ conns'[data'[t].conn].ctrl = "Settled"
    <3>1. t \in Held \cup relays /\ t \in Streams /\ data[t].conn # c
      BY <1>3 DEF OnConnClosed, HeldOf, Held, SInv, TypeOK
    <3>2. data[t].conn \in Up /\ conns[data[t].conn].ctrl = "Settled"
      BY <3>1 DEF SInv, ConnInv, Authed
    <3> QED
      BY <3>1, <3>2, <1>2, <1>7 DEF Up
  <2>2. conn_timers' \subseteq Up'
    BY <1>5, <1>7 DEF SInv, ConnInv
  <2>3. ASSUME NEW d \in Up', conns'[d].proto = "Raw", conns'[d].ctrl # "Settled",
               ~conns'[d].closing
        PROVE  d \in conn_timers'
    BY <2>3, <1>5, <1>7 DEF SInv, ConnInv, Up, Authed
  <2> QED
    BY <2>1, <2>2, <2>3 DEF ConnInv, Authed
<1>9. BudgetExact'
  <2> SUFFICES ASSUME NEW d \in Up \ {c}
               PROVE  /\ conns'[d].held =
                           Cardinality(HeldOf(d)') + (IF conns'[d].ctrl = "none" THEN 0 ELSE 1)
                      /\ conns'[d].held <= STREAM_BUDGET
                      /\ Cardinality(SessionsOf(d)') <= MAX_SESSIONS_PER_CONN
    BY <1>7 DEF BudgetExact
  <2>1. d \in Conns /\ conns'[d] = conns[d]
    BY <1>7 DEF Up
  <2>2. HeldOf(d)' = HeldOf(d)
    BY <1>2, <1>3 DEF HeldOf, Held
  <2>3. SessionsOf(d) \in SUBSET Sids /\ SessionsOf(d)' \in SUBSET SessionsOf(d)
    BY <2>1, <1>2 DEF SessionsOf
  <2>4. /\ Cardinality(SessionsOf(d)) \in Nat /\ Cardinality(SessionsOf(d)') \in Nat
        /\ Cardinality(SessionsOf(d)') <= Cardinality(SessionsOf(d))
    BY <2>3, SidSets
  <2>5. /\ conns[d].held = Cardinality(HeldOf(d)) + (IF conns[d].ctrl = "none" THEN 0 ELSE 1)
        /\ conns[d].held <= STREAM_BUDGET /\ Cardinality(SessionsOf(d)) <= MAX_SESSIONS_PER_CONN
    BY DEF SInv, BudgetExact
  <2> QED
    BY <2>1, <2>2, <2>4, <2>5, ServerAssumption
<1>10. TypeOK'
  BY <1>2, <1>5, <1>6, AllTypes DEF OnConnClosed, SInv, TypeOK
<1> QED
  BY <1>2, <1>8, <1>9, <1>10 DEF SInv

----------------------------------------------------------------------------
(* Connections. *)

(* What a step keeps that touches no stream. *)
LEMMA StreamsStay ==
  ASSUME SInv,
         UNCHANGED <<data, request_timers, idle_timers, dials, sessions, ops, socks, relays>>
  PROVE  /\ StreamTypes' /\ StreamInv' /\ SessionInv'
         /\ Held' = Held /\ \A c : HeldOf(c)' = HeldOf(c) /\ SessionsOf(c)' = SessionsOf(c)
<1> USE DEF sessions, ops
<1>1. StreamTypes'
  BY DEF SInv, TypeOK, StreamTypes
<1>2. StreamInv' /\ SessionInv'
  BY DEF SInv, StreamInv, SessionInv
<1>3. Held' = Held /\ \A c : HeldOf(c)' = HeldOf(c) /\ SessionsOf(c)' = SessionsOf(c)
  BY DEF Held, HeldOf, SessionsOf
<1> QED
  BY <1>1, <1>2, <1>3

(* Only connections that are not authenticated hold nothing. *)
LEMMA UnauthedHoldsNothing ==
  ASSUME SInv, NEW c \in Conns, c \notin Up \/ ~Authed(c)
  PROVE  HeldOf(c) = {} /\ SessionsOf(c) = {} /\ \A s \in relays : data[s].conn # c
<1>1. HeldOf(c) = {} /\ \A s \in relays : data[s].conn # c
  BY DEF SInv, ConnInv, HeldOf
<1>2. ASSUME NEW sid \in Sids, udp[c][sid] # None PROVE FALSE
  <2>1. /\ udp[c][sid] \in Streams /\ data[udp[c][sid]].phase = "Udp"
        /\ data[udp[c][sid]].conn = c
    BY <1>2 DEF SInv, SessionInv, TypeOK
  <2> QED
    BY <2>1, <1>1 DEF HeldOf, Held
<1> QED
  BY <1>1, <1>2 DEF SessionsOf

(* A step of one connection: it stays up and authenticated if it was, its  *)
(* count follows its control stream, and a raw one that must leave has its *)
(* timer.                                                                  *)
LEMMA KeepConn ==
  ASSUME SInv, NEW c \in Conns, NEW r \in ConnRecords,
         conns' = [conns EXCEPT ![c] = r], r.st = "up",
         UNCHANGED <<data, request_timers, idle_timers, dials, sessions, ops, socks, relays>>,
         shutting_down' \in BOOLEAN, exit' \in BOOLEAN,
         conn_timers' \subseteq conn_timers \cup {c},
         \A d \in Conns \ {c} : d \in conn_timers => d \in conn_timers',
         r.proto = "Raw" /\ r.ctrl # "Settled" /\ ~r.closing => c \in conn_timers',
         c \in Up /\ Authed(c) => r.ctrl = "Settled",
         r.held = Cardinality(HeldOf(c)) + (IF r.ctrl = "none" THEN 0 ELSE 1)
  PROVE  SInv'
<1>1. /\ StreamTypes' /\ StreamInv' /\ SessionInv'
      /\ Held' = Held /\ \A d : HeldOf(d)' = HeldOf(d) /\ SessionsOf(d)' = SessionsOf(d)
  BY StreamsStay
<1>2. /\ conns' \in [Conns -> ConnRecords] /\ conns'[c] = r
      /\ \A d \in Conns \ {c} : conns'[d] = conns[d]
  BY DEF SInv, TypeOK
<1>3. Up' = Up \cup {c}
  BY <1>2 DEF Up
<1>4. ConnInv'
  <2>1. ASSUME NEW t \in Held' \cup relays'
        PROVE  data'[t].conn \in Up' /\ conns'[data'[t].conn].ctrl = "Settled"
    <3>1. /\ t \in Held \cup relays /\ data[t].conn \in Up /\ conns[data[t].conn].ctrl = "Settled"
          /\ data' = data
      BY <1>1 DEF SInv, ConnInv, Authed
    <3> QED
      BY <3>1, <1>2, <1>3 DEF Authed, Up
  <2>2. conn_timers' \subseteq Up'
    BY <1>3 DEF SInv, ConnInv
  <2>3. ASSUME NEW d \in Up', conns'[d].proto = "Raw", conns'[d].ctrl # "Settled",
               ~conns'[d].closing
        PROVE  d \in conn_timers'
    <3>1. CASE d = c
      BY <2>3, <3>1, <1>2
    <3>2. CASE d # c
      BY <2>3, <3>2, <1>2, <1>3 DEF SInv, ConnInv, Up, Authed
    <3> QED
      BY <3>1, <3>2
  <2> QED
    BY <2>1, <2>2, <2>3 DEF ConnInv, Authed
<1>5. BudgetExact'
  <2> SUFFICES ASSUME NEW d \in Up \cup {c}
               PROVE  /\ conns'[d].held =
                           Cardinality(HeldOf(d)') + (IF conns'[d].ctrl = "none" THEN 0 ELSE 1)
                      /\ conns'[d].held <= STREAM_BUDGET
                      /\ Cardinality(SessionsOf(d)') <= MAX_SESSIONS_PER_CONN
    BY <1>3 DEF BudgetExact
  <2>1. HeldOf(d)' = HeldOf(d) /\ SessionsOf(d)' = SessionsOf(d)
    BY <1>1
  <2>2. CASE d = c
    <3>1. r.held <= STREAM_BUDGET
      BY ServerAssumption DEF ConnRecords
    <3>2. Cardinality(SessionsOf(c)) <= MAX_SESSIONS_PER_CONN
      <4>1. CASE c \in Up
        BY <4>1 DEF SInv, BudgetExact
      <4>2. CASE c \notin Up
        <5>1. SessionsOf(c) = {}
          BY <4>2, UnauthedHoldsNothing
        <5> QED
          BY <5>1, FS_EmptySet, ServerAssumption
      <4> QED
        BY <4>1, <4>2
    <3> QED
      BY <2>1, <2>2, <3>1, <3>2, <1>2
  <2>3. CASE d # c
    <3>1. d \in Up /\ d \in Conns /\ conns'[d] = conns[d]
      BY <2>3, <1>2 DEF Up
    <3> QED
      BY <2>1, <3>1 DEF SInv, BudgetExact
  <2> QED
    BY <2>2, <2>3
<1>6. TypeOK'
  <2>1. conn_timers' \subseteq Conns
    BY DEF SInv, TypeOK
  <2> QED
    BY <2>1, <1>1, <1>2, AllTypes
<1> QED
  BY <1>1, <1>4, <1>5, <1>6 DEF SInv

LEMMA KeepOnNewConn ==
  ASSUME SInv, NEW c \in Conns, NEW proto \in {"Raw", "H3"}, OnNewConn(c, proto)
  PROVE  SInv'
<1> DEFINE r == Accepted(proto)
<1>1. /\ r \in ConnRecords /\ r.st = "up" /\ r.proto = proto /\ r.ctrl = "none" /\ r.held = 0
      /\ r.closing <=> shutting_down
  <2>1. NewConn \in ConnRecords /\ NewConn.ctrl = "none" /\ NewConn.held = 0
    BY ServerAssumption DEF NewConn, ConnRecords
  <2>2. shutting_down \in BOOLEAN
    BY DEF SInv, TypeOK
  <2> QED
    BY <2>1, <2>2 DEF Accepted, ConnRecords
<1>2. conns' = [conns EXCEPT ![c] = r] /\ conns[c].st = "new"
  BY DEF OnNewConn
<1> HIDE DEF r
<1>3. c \notin Up
  BY <1>2 DEF Up
<1>4. HeldOf(c) = {}
  BY <1>3, UnauthedHoldsNothing
<1>5. r.held = Cardinality(HeldOf(c)) + (IF r.ctrl = "none" THEN 0 ELSE 1)
  BY <1>1, <1>4, FS_EmptySet
<1>6. /\ UNCHANGED <<data, request_timers, idle_timers, dials, sessions, ops, socks, relays>>
      /\ shutting_down' \in BOOLEAN /\ exit' \in BOOLEAN
      /\ conn_timers' = conn_timers \cup IF proto = "Raw" /\ ~shutting_down THEN {c} ELSE {}
  BY DEF OnNewConn, life, SInv, TypeOK
<1> QED
  BY <1>1, <1>2, <1>3, <1>5, <1>6, KeepConn

LEMMA KeepControlStream ==
  ASSUME SInv, NEW c \in Conns, ControlStream(c)
  PROVE  SInv'
<1> DEFINE r == [conns[c] EXCEPT !.ctrl = "Authing", !.held = conns[c].held + 1]
<1>0. /\ c \in Up /\ conns[c].ctrl = "none" /\ conns[c] \in ConnRecords /\ ~conns[c].closing
      /\ conns[c].proto = "Raw"
  BY DEF ControlStream, SInv, TypeOK
<1>1. HeldOf(c) = {} /\ c \in conn_timers
  BY <1>0, UnauthedHoldsNothing DEF Authed, SInv, ConnInv
<1>2. conns[c].held = 0
  BY SMTT(30), <1>0, <1>1, FS_EmptySet DEF SInv, BudgetExact
<1>3. conns' = [conns EXCEPT ![c] = r]
  BY DEF ControlStream, SInv, TypeOK
<1>4. r \in ConnRecords /\ r.st = "up" /\ r.ctrl = "Authing" /\ r.held = 1
  <2>1. conns[c].held + 1 \in 0 .. STREAM_BUDGET /\ conns[c].held + 1 = 1
    BY <1>2, ServerAssumption
  <2> QED
    BY <1>0, <2>1 DEF ConnRecords, Up
<1> HIDE DEF r
<1>5. r.held = Cardinality(HeldOf(c)) + (IF r.ctrl = "none" THEN 0 ELSE 1)
  BY <1>1, <1>4, FS_EmptySet
<1>6. /\ UNCHANGED <<data, request_timers, idle_timers, dials, sessions, ops, socks, relays>>
      /\ shutting_down' \in BOOLEAN /\ exit' \in BOOLEAN /\ conn_timers' = conn_timers
  BY DEF ControlStream, life, timers, SInv, TypeOK
<1>7. ~Authed(c)
  BY <1>0 DEF Authed
<1> QED
  BY <1>1, <1>3, <1>4, <1>5, <1>6, <1>7, KeepConn

LEMMA KeepAuthRequest ==
  ASSUME SInv, NEW c \in Conns, NEW ok \in BOOLEAN, NEW flushed \in BOOLEAN,
         AuthRequest(c, ok, flushed)
  PROVE  SInv'
<1> DEFINE r == [conns[c] EXCEPT !.ctrl = IF ok THEN "Settled" ELSE "Refused",
                                 !.closing = conns[c].closing \/ ~flushed]
<1>0. c \in Up /\ conns[c].ctrl = "Authing" /\ conns[c] \in ConnRecords
  BY DEF AuthRequest, SInv, TypeOK
<1>1. conns' = [conns EXCEPT ![c] = r]
  BY DEF AuthRequest, SInv, TypeOK
<1>2. /\ r \in ConnRecords /\ r.st = "up" /\ r.ctrl = (IF ok THEN "Settled" ELSE "Refused")
      /\ r.held = conns[c].held /\ (r.closing <=> conns[c].closing \/ ~flushed)
  BY <1>0 DEF ConnRecords, Up
<1> HIDE DEF r
<1>3. r.held = Cardinality(HeldOf(c)) + (IF r.ctrl = "none" THEN 0 ELSE 1)
  BY <1>0, <1>2 DEF SInv, BudgetExact
<1>4. /\ UNCHANGED <<data, request_timers, idle_timers, dials, sessions, ops, socks, relays>>
      /\ shutting_down' \in BOOLEAN /\ exit' \in BOOLEAN
      /\ conn_timers' = (conn_timers \ {c}) \cup RefusedTimer(c, ok, flushed)
  BY DEF AuthRequest, life, SInv, TypeOK
<1>5. ~Authed(c)
  BY <1>0 DEF Authed
<1>6. /\ conn_timers' \subseteq conn_timers \cup {c}
      /\ \A d \in Conns \ {c} : d \in conn_timers => d \in conn_timers'
      /\ r.ctrl # "Settled" /\ ~r.closing => c \in conn_timers'
  BY <1>2, <1>4 DEF RefusedTimer
<1> QED
  BY <1>1, <1>2, <1>3, <1>4, <1>5, <1>6, KeepConn

(* close: the connection is marked and its timer goes. *)
LEMMA KeepClosed ==
  ASSUME SInv, NEW c \in Up, conns' = [conns EXCEPT ![c] = Closed(c)],
         conn_timers' = conn_timers \ {c},
         UNCHANGED <<data, request_timers, idle_timers, dials, sessions, ops, socks, relays, life>>
  PROVE  SInv'
<1>0. c \in Conns /\ conns[c] \in ConnRecords
  BY DEF SInv, TypeOK, Up
<1>1. /\ Closed(c) \in ConnRecords /\ Closed(c).st = "up" /\ Closed(c).ctrl = conns[c].ctrl
      /\ Closed(c).held = conns[c].held /\ Closed(c).closing
  BY <1>0 DEF ConnRecords, Closed, Up
<1>2. Closed(c).held = Cardinality(HeldOf(c)) + (IF Closed(c).ctrl = "none" THEN 0 ELSE 1)
  BY <1>1 DEF SInv, BudgetExact
<1>3. shutting_down' \in BOOLEAN /\ exit' \in BOOLEAN
  BY DEF life, SInv, TypeOK
<1>4. Authed(c) => Closed(c).ctrl = "Settled"
  BY <1>1 DEF Authed
<1> QED
  BY <1>0, <1>1, <1>2, <1>3, <1>4, KeepConn

LEMMA KeepCtrlFails ==
  ASSUME SInv, NEW c \in Conns, CtrlFails(c)
  PROVE  SInv'
BY KeepClosed DEF CtrlFails

LEMMA KeepConnTimer ==
  ASSUME SInv, NEW c \in Conns, ConnTimer(c)
  PROVE  SInv'
<1>1. c \in Up
  BY DEF ConnTimer, SInv, ConnInv
<1> QED
  BY <1>1, KeepClosed DEF ConnTimer

LEMMA KeepOnShutdown ==
  ASSUME SInv, OnShutdown
  PROVE  SInv'
<1>1. /\ StreamTypes' /\ StreamInv' /\ SessionInv'
      /\ Held' = Held /\ \A d : HeldOf(d)' = HeldOf(d) /\ SessionsOf(d)' = SessionsOf(d)
  BY StreamsStay DEF OnShutdown
<1>2. \A c \in Conns : /\ conns[c] \in ConnRecords
                       /\ Closed(c) \in ConnRecords /\ Closed(c).st = conns[c].st
                       /\ Closed(c).proto = conns[c].proto /\ Closed(c).ctrl = conns[c].ctrl
                       /\ Closed(c).held = conns[c].held /\ Closed(c).closing
  BY ZenonT(60) DEF SInv, TypeOK, ConnRecords, Closed
<1>3. /\ conns' \in [Conns -> ConnRecords]
      /\ \A c \in Conns : /\ conns'[c].st = conns[c].st /\ conns'[c].proto = conns[c].proto
                          /\ conns'[c].ctrl = conns[c].ctrl /\ conns'[c].held = conns[c].held
                          /\ c \in Up => conns'[c].closing
  BY <1>2 DEF OnShutdown
<1>4. Up' = Up
  BY <1>3 DEF Up
<1>5. ConnInv'
  <2>1. ASSUME NEW t \in Held' \cup relays'
        PROVE  data'[t].conn \in Up' /\ conns'[data'[t].conn].ctrl = "Settled"
    <3>1. /\ t \in Held \cup relays /\ data[t].conn \in Up /\ conns[data[t].conn].ctrl = "Settled"
          /\ data' = data
      BY <1>1 DEF SInv, ConnInv, Authed, OnShutdown
    <3> QED
      BY <3>1, <1>3, <1>4 DEF Up
  <2>2. conn_timers' \subseteq Up'
    BY <1>4 DEF SInv, ConnInv, OnShutdown
  <2>3. \A c \in Up' : conns'[c].closing
    BY <1>3, <1>4 DEF Up
  <2> QED
    BY <2>1, <2>2, <2>3 DEF ConnInv, Authed
<1>6. BudgetExact'
  BY <1>1, <1>3, <1>4 DEF SInv, BudgetExact, Up
<1>7. TypeOK'
  <2>1. conn_timers' \subseteq Conns /\ shutting_down' \in BOOLEAN /\ exit' \in BOOLEAN
    BY DEF OnShutdown, SInv, TypeOK
  <2> QED
    BY <2>1, <1>1, <1>3, AllTypes
<1> QED
  BY <1>1, <1>5, <1>6, <1>7 DEF SInv

----------------------------------------------------------------------------
(* Streams. *)

LEMMA KeepOnNewStream ==
  ASSUME SInv, NEW c \in Conns, NEW s \in Streams, OnNewStream(c, s)
  PROVE  SInv'
<1> DEFINE d == [NewData EXCEPT !.phase = "Request", !.conn = c]
           r == [conns[c] EXCEPT !.held = conns[c].held + 1]
<1>t. TypeOK /\ c \in Up /\ Authed(c) /\ conns[c].held < STREAM_BUDGET /\ data[s].phase = "new"
  BY DEF SInv, OnNewStream, Admits
<1>r. StreamInv
  BY DEF SInv
<1>u. SessionInv
  BY DEF SInv
<1>1. d \in DataRecords /\ d.phase = "Request" /\ d.conn = c
  <2>1. NewData \in DataRecords
    BY DEF NewData, DataRecords
  <2> QED
    BY <2>1 DEF DataRecords
<1>2. data' = [data EXCEPT ![s] = d] /\ conns' = [conns EXCEPT ![c] = r]
  BY <1>t DEF OnNewStream, TypeOK
<1>3. /\ r \in ConnRecords /\ r.st = conns[c].st /\ r.proto = conns[c].proto
      /\ r.ctrl = conns[c].ctrl /\ (r.closing <=> conns[c].closing) /\ r.held = conns[c].held + 1
  <2>1. conns[c] \in ConnRecords
    BY <1>t DEF TypeOK
  <2>2. conns[c].held + 1 \in 0 .. STREAM_BUDGET
    BY <1>t, <2>1, ServerAssumption DEF ConnRecords
  <2> QED
    BY <2>1, <2>2 DEF ConnRecords
<1> HIDE DEF d, r
<1>4. /\ data' \in [Streams -> DataRecords] /\ data'[s] = d
      /\ \A t \in Streams \ {s} : data'[t] = data[t]
  BY <1>1, <1>2, <1>t DEF TypeOK
<1>5. /\ conns' \in [Conns -> ConnRecords] /\ conns'[c] = r
      /\ \A e \in Conns \ {c} : conns'[e] = conns[e]
  BY <1>2, <1>3, <1>t DEF TypeOK
<1>6. /\ UNCHANGED <<conn_timers, idle_timers, dials, sessions, life, ops, socks, relays>>
      /\ request_timers' = request_timers \cup {s}
  BY DEF OnNewStream
<1>7. Held' = Held \cup {s} /\ s \notin Held /\ Up' = Up
  <2>1. \A e \in Conns : conns'[e].st = conns[e].st
    BY <1>3, <1>5
  <2> QED
    BY <2>1, <1>1, <1>4, <1>t DEF Held, Up
<1>8. StreamTypes'
  BY <1>4, <1>6, <1>t DEF StreamTypes, TypeOK, sessions, ops
<1>9. StreamInv'
  <2>1. sphase[s] = "none" /\ s \notin relays /\ s \notin socks
    BY <1>r, <1>t DEF StreamInv, TypeOK
  <2> QED
    BY <2>1, <1>1, <1>4, <1>6, <1>r, <1>t DEF StreamInv, sessions, ops
<1>10. SessionInv'
  <2>1. \A e \in Conns, sid \in Sids : udp[e][sid] # s
    BY <1>t, <1>u, ServerAssumption DEF SessionInv
  <2>2. \A e \in Conns, sid \in Sids : udp[e][sid] \in Streams \cup {None}
    BY <1>t DEF TypeOK
  <2> QED
    BY <2>1, <2>2, <1>1, <1>4, <1>6, <1>u DEF SessionInv, sessions
<1>11. ConnInv'
  <2>1. ASSUME NEW t \in Held' \cup relays'
        PROVE  data'[t].conn \in Up' /\ conns'[data'[t].conn].ctrl = "Settled"
    <3>1. CASE t = s
      BY <3>1, <1>1, <1>3, <1>4, <1>5, <1>7, <1>t DEF Authed
    <3>2. CASE t # s
      <4>1. t \in Held \cup relays /\ t \in Streams /\ data'[t] = data[t]
        BY <3>2, <1>4, <1>6, <1>7, <1>t DEF Held, TypeOK
      <4>2. data[t].conn \in Up /\ conns[data[t].conn].ctrl = "Settled"
        BY <4>1 DEF SInv, ConnInv, Authed
      <4> QED
        BY <4>1, <4>2, <1>3, <1>5, <1>7 DEF Up
    <3> QED
      BY <3>1, <3>2
  <2>2. conn_timers' \subseteq Up'
    BY <1>6, <1>7 DEF SInv, ConnInv
  <2>3. ASSUME NEW e \in Up', conns'[e].proto = "Raw", conns'[e].ctrl # "Settled",
               ~conns'[e].closing
        PROVE  e \in conn_timers'
    BY <2>3, <1>3, <1>5, <1>6, <1>7 DEF SInv, ConnInv, Up, Authed
  <2> QED
    BY <2>1, <2>2, <2>3 DEF ConnInv, Authed
<1>12. BudgetExact'
  <2> SUFFICES ASSUME NEW e \in Up
               PROVE  /\ conns'[e].held =
                           Cardinality(HeldOf(e)') + (IF conns'[e].ctrl = "none" THEN 0 ELSE 1)
                      /\ conns'[e].held <= STREAM_BUDGET
                      /\ Cardinality(SessionsOf(e)') <= MAX_SESSIONS_PER_CONN
    BY <1>7 DEF BudgetExact
  <2>1. /\ conns[e].held = Cardinality(HeldOf(e)) + (IF conns[e].ctrl = "none" THEN 0 ELSE 1)
        /\ conns[e].held <= STREAM_BUDGET /\ Cardinality(SessionsOf(e)) <= MAX_SESSIONS_PER_CONN
    BY DEF SInv, BudgetExact
  <2>2. SessionsOf(e)' = SessionsOf(e)
    BY <1>6 DEF SessionsOf, sessions
  <2>3. HeldOf(e)' = IF e = c THEN HeldOf(e) \cup {s} ELSE HeldOf(e)
    <3>1. \A t \in Held : t \in Streams /\ t # s
      BY <1>7 DEF Held
    <3> QED
      BY <3>1, <1>1, <1>4, <1>7 DEF HeldOf
  <2>4. CASE e = c
    <3>1. s \notin HeldOf(c) /\ HeldOf(c) \in SUBSET Streams
      BY <1>7 DEF HeldOf, Held
    <3>2. Cardinality(HeldOf(c) \cup {s}) = Cardinality(HeldOf(c)) + 1 /\ Cardinality(HeldOf(c)) \in Nat
      BY <3>1, StreamSets
    <3>3. conns'[e].held = conns[e].held + 1 /\ conns'[e].ctrl = conns[e].ctrl
      BY <2>4, <1>3, <1>5
    <3>4. conns'[e].held = Cardinality(HeldOf(e)') + (IF conns'[e].ctrl = "none" THEN 0 ELSE 1)
      BY <2>1, <2>3, <2>4, <3>2, <3>3
    <3>5. conns'[e].held <= STREAM_BUDGET
      BY <1>5, <2>4, <1>3, ServerAssumption DEF ConnRecords
    <3> QED
      BY <2>1, <2>2, <3>4, <3>5
  <2>5. CASE e # c
    <3>1. conns'[e] = conns[e]
      BY <2>5, <1>5 DEF Up
    <3> QED
      BY <2>1, <2>2, <2>3, <2>5, <3>1
  <2> QED
    BY <2>4, <2>5
<1>13. TypeOK'
  BY <1>5, <1>6, <1>8, <1>t, AllTypes DEF TypeOK, life
<1> QED
  BY <1>9, <1>10, <1>11, <1>12, <1>13 DEF SInv

(* A held stream moves to another phase, still held. *)
LEMMA KeepDial ==
  ASSUME SInv, NEW s \in Streams, Dial(s)
  PROVE  SInv'
<1>t. TypeOK /\ data[s].phase = "Request"
  BY DEF SInv, Dial
<1>r. StreamInv
  BY DEF SInv
<1>u. SessionInv
  BY DEF SInv
<1>1. /\ data' \in [Streams -> DataRecords]
      /\ \A t \in Streams :
           /\ data'[t].conn = data[t].conn /\ data'[t].sid = data[t].sid
           /\ data'[t].phase = IF t = s THEN "Dialling" ELSE data[t].phase
  BY <1>t DEF Dial, TypeOK, DataRecords
<1>2. Held' = Held
  BY <1>1, <1>t DEF Held
<1>3. StreamTypes' /\ TypeOK'
  BY <1>1, <1>t DEF StreamTypes, TypeOK, Dial, sessions, life
<1>4. StreamInv'
  BY <1>1, <1>t, <1>r DEF StreamInv, TypeOK, Dial, sessions
<1>5. SessionInv'
  <2>1. \A e \in Conns, sid \in Sids : udp[e][sid] # s /\ udp[e][sid] \in Streams \cup {None}
    BY <1>t, <1>u, ServerAssumption DEF SessionInv, TypeOK
  <2> QED
    BY <2>1, <1>1, <1>u DEF SessionInv, Dial, sessions
<1>6. \A c \in Conns : SessionsOf(c)' \subseteq SessionsOf(c)
  BY DEF SessionsOf, Dial, sessions
<1>7. ConnInv' /\ BudgetExact'
  BY <1>1, <1>2, <1>6, ConnsStay DEF Dial
<1> QED
  BY <1>3, <1>4, <1>5, <1>7 DEF SInv

(* A stream with no session leaves the app, for a relay or for good. *)
Leaves(s) ==
  /\ data[s].phase \in {"Dialling", "Responding"}
  /\ data' = GoneData({s})
  /\ conns' = [conns EXCEPT ![data[s].conn] = Released(data[s].conn, {s})]
  /\ dials' = dials \ {s} /\ dial_ops' = dial_ops \ {s} /\ socks' = socks \ {s}
  /\ relays' = relays \/ relays' = relays \cup {s}
  /\ UNCHANGED <<timers, sessions, life, resolve_ops, socket_ops>>

LEMMA KeepLeaves ==
  ASSUME SInv, NEW s \in Streams, Leaves(s)
  PROVE  SInv'
<1>t. TypeOK /\ data[s].phase \in {"Dialling", "Responding"}
  BY DEF SInv, Leaves
<1>r. StreamInv
  BY DEF SInv
<1>u. SessionInv
  BY DEF SInv
<1>0. UNCHANGED <<timers, sessions, life, resolve_ops, socket_ops>>
  BY DEF Leaves
<1>1. /\ data' \in [Streams -> DataRecords]
      /\ \A t \in Streams :
           /\ data'[t].conn = data[t].conn /\ data'[t].sid = data[t].sid
           /\ data'[t].phase = IF t = s THEN "gone" ELSE data[t].phase
  BY <1>t DEF Leaves, GoneData, TypeOK, DataRecords
<1>2. Held' = Held \ {s} /\ s \in Held
  BY <1>1, <1>t DEF Held
<1>3. StreamTypes'
  BY <1>1, <1>t DEF Leaves, StreamTypes, TypeOK, sessions, timers
<1>4. StreamInv'
  <2>1. /\ dials' = dials \ {s} /\ dial_ops' = dial_ops \ {s} /\ socks' = socks \ {s}
        /\ relays' \subseteq relays \cup {s}
    BY DEF Leaves
  <2> QED
    BY <1>0, <1>1, <1>t, <1>r, <2>1 DEF StreamInv, TypeOK, sessions, timers
<1>5. SessionInv'
  <2>1. \A e \in Conns, sid \in Sids : udp[e][sid] # s /\ udp[e][sid] \in Streams \cup {None}
    BY <1>t, <1>u, ServerAssumption DEF SessionInv, TypeOK
  <2> QED
    BY <1>0, <2>1, <1>1, <1>u DEF SessionInv, sessions, timers
<1>6. \A c \in Conns : SessionsOf(c)' \subseteq SessionsOf(c)
  BY <1>0 DEF SessionsOf, sessions
<1>7. conns' \in [Conns -> ConnRecords] /\ ConnInv' /\ BudgetExact'
  BY <1>1, <1>2, <1>6, OneReleased DEF Leaves, timers
<1>8. TypeOK'
  BY <1>0, <1>3, <1>7, <1>t, AllTypes DEF life, TypeOK, timers
<1> QED
  BY <1>4, <1>5, <1>7, <1>8 DEF SInv

LEMMA KeepDialOk ==
  ASSUME SInv, NEW s \in Streams, DialOk(s)
  PROVE  SInv'
<1>t. TypeOK /\ data[s].phase = "Dialling" /\ s \notin socks
  BY DEF SInv, StreamInv, DialOk
<1>r. StreamInv
  BY DEF SInv
<1>u. SessionInv
  BY DEF SInv
<1>1. CASE SendOk(s, socks \cup {s})
  <2>1. socks' = socks \ {s} /\ relays' = relays \cup {s}
    BY <1>1 DEF SendOk
  <2> QED
    BY <1>1, <1>t, <2>1, KeepLeaves DEF SendOk, DialOk, Leaves
<1>2. CASE /\ data' = GoneData({s}) /\ UNCHANGED <<socks, relays>>
           /\ conns' = [conns EXCEPT ![data[s].conn] = Released(data[s].conn, {s})]
  <2>1. socks' = socks \ {s}
    BY <1>2, <1>t
  <2> QED
    BY <1>2, <1>t, <2>1, KeepLeaves DEF DialOk, Leaves
<1>3. CASE /\ data' = [data EXCEPT ![s].phase = "Responding"] /\ socks' = socks \cup {s}
           /\ UNCHANGED <<conns, relays>>
  <2>1. /\ data' \in [Streams -> DataRecords]
        /\ \A t \in Streams :
             /\ data'[t].conn = data[t].conn /\ data'[t].sid = data[t].sid
             /\ data'[t].phase = IF t = s THEN "Responding" ELSE data[t].phase
    BY <1>t, <1>3 DEF TypeOK, DataRecords
  <2>2. Held' = Held
    BY <2>1, <1>t DEF Held
  <2>3. TypeOK'
    BY <2>1, <1>3, <1>t DEF TypeOK, DialOk, sessions, timers, life
  <2>4. StreamInv'
    BY <2>1, <1>3, <1>t, <1>r DEF StreamInv, TypeOK, DialOk, sessions, timers
  <2>5. SessionInv'
    <3>1. \A e \in Conns, sid \in Sids : udp[e][sid] # s /\ udp[e][sid] \in Streams \cup {None}
      BY <1>t, <1>u, ServerAssumption DEF SessionInv, TypeOK
    <3> QED
      BY <3>1, <2>1, <1>u DEF SessionInv, DialOk, sessions, timers
  <2>6. \A c \in Conns : SessionsOf(c)' \subseteq SessionsOf(c)
    BY DEF SessionsOf, DialOk, sessions
  <2>7. ConnInv' /\ BudgetExact'
    BY <2>1, <2>2, <2>6, <1>3, ConnsStay DEF DialOk, timers
  <2> QED
    BY <2>3, <2>4, <2>5, <2>7 DEF SInv
<1> QED
  BY <1>1, <1>2, <1>3 DEF DialOk

LEMMA KeepRespond ==
  ASSUME SInv, NEW s \in Streams, Respond(s)
  PROVE  SInv'
<1>1. /\ data[s].phase = "Responding" /\ dials' = dials \ {s} /\ dial_ops' = dial_ops \ {s}
      /\ socks' = socks \ {s} /\ (relays' = relays \/ relays' = relays \cup {s})
  BY DEF SInv, StreamInv, TypeOK, Respond, SendOk, ops
<1> QED
  BY <1>1, KeepLeaves DEF Respond, SendOk, ops, Leaves

LEMMA KeepSocketOrRelayEnds ==
  ASSUME SInv, NEW s \in Streams, SocketDies(s) \/ RelayEnds(s)
  PROVE  SInv'
<1>1. /\ UNCHANGED <<conns, data, timers, dials, sessions, life, ops>>
      /\ socks' \subseteq socks /\ relays' \subseteq relays
  BY DEF SocketDies, RelayEnds
<1>2. TypeOK'
  BY <1>1 DEF SInv, TypeOK, timers, sessions, life, ops
<1>3. StreamInv' /\ SessionInv'
  BY <1>1 DEF SInv, StreamInv, SessionInv, timers, sessions, ops
<1>4. Held' = Held /\ \A c \in Conns : SessionsOf(c)' \subseteq SessionsOf(c)
  BY <1>1 DEF Held, SessionsOf, sessions
<1>5. ConnInv' /\ BudgetExact'
  BY <1>1, <1>4, ConnsStay DEF timers
<1> QED
  BY <1>2, <1>3, <1>5 DEF SInv

----------------------------------------------------------------------------
(* UDP sessions. *)

LEMMA KeepUdpOpen ==
  ASSUME SInv, NEW s \in Streams, NEW sid \in Sids, UdpOpen(s, sid)
  PROVE  SInv'
<1> DEFINE c == data[s].conn
<1>t. TypeOK /\ data[s].phase = "Request" /\ UdpAdmits(c, sid)
  BY DEF SInv, UdpOpen
<1>r. StreamInv
  BY DEF SInv
<1>u. SessionInv
  BY DEF SInv
<1>0. c \in Conns /\ c \in Up
  BY <1>t DEF SInv, ConnInv, Held, Up
<1>1. /\ data' \in [Streams -> DataRecords]
      /\ \A t \in Streams :
           /\ data'[t].conn = data[t].conn
           /\ data'[t].sid = IF t = s THEN sid ELSE data[t].sid
           /\ data'[t].phase = IF t = s THEN "Udp" ELSE data[t].phase
  BY <1>t DEF UdpOpen, TypeOK, DataRecords
<1>2. /\ udp' \in [Conns -> [Sids -> Streams \cup {None}]]
      /\ \A e \in Conns, x \in Sids :
           udp'[e][x] = IF e = c /\ x = sid THEN s ELSE udp[e][x]
  BY <1>0, <1>t DEF UdpOpen, TypeOK
<1>3. \A t \in Streams : sphase'[t] = IF t = s THEN "Resolving" ELSE sphase[t]
  BY <1>t DEF UdpOpen, TypeOK
<1>4. Held' = Held
  BY <1>1, <1>t DEF Held
<1>5. TypeOK'
  BY <1>1, <1>2, <1>t DEF UdpOpen, TypeOK, life
<1>6. StreamInv'
  BY <1>1, <1>3, <1>t, <1>r DEF StreamInv, TypeOK, UdpOpen
<1>7. SessionInv'
  <2>1. \A e \in Conns, x \in Sids : udp[e][x] # s /\ udp[e][x] \in Streams \cup {None}
    BY <1>t, <1>u, ServerAssumption DEF SessionInv, TypeOK
  <2>2. idle_timers' = idle_timers /\ udp[c][sid] = None /\ s # None
    BY <1>t, ServerAssumption DEF UdpOpen, UdpAdmits
  <2>3. ASSUME NEW e \in Conns, NEW x \in Sids
        PROVE  /\ udp'[e][x] # None =>
                    /\ data'[udp'[e][x]].phase = "Udp"
                    /\ data'[udp'[e][x]].conn = e
                    /\ data'[udp'[e][x]].sid = x
               /\ (x \in idle_timers'[e]) <=>
                    (udp'[e][x] # None /\ sphase'[udp'[e][x]] = "Live")
    <3>0. /\ udp[e][x] # None =>
               /\ data[udp[e][x]].phase = "Udp"
               /\ data[udp[e][x]].conn = e
               /\ data[udp[e][x]].sid = x
          /\ (x \in idle_timers[e]) <=> (udp[e][x] # None /\ sphase[udp[e][x]] = "Live")
      BY <1>u DEF SessionInv
    <3>1. CASE e = c /\ x = sid
      <4>1. udp'[e][x] = s
        BY <3>1, <1>2
      <4> QED
        BY <3>0, <3>1, <4>1, <2>2, <1>1, <1>3
    <3>2. CASE ~ (e = c /\ x = sid)
      <4>1. udp'[e][x] = udp[e][x]
        BY <3>2, <1>2
      <4> QED
        BY <3>0, <4>1, <2>1, <2>2, <1>1, <1>3
    <3> QED
      BY <3>1, <3>2
  <2>4. ASSUME NEW t \in Streams, data'[t].phase = "Udp"
        PROVE  data'[t].sid \in Sids /\ udp'[data'[t].conn][data'[t].sid] = t
    <3>1. CASE t = s
      BY <3>1, <1>0, <1>1, <1>2
    <3>2. CASE t # s
      <4>1. /\ data[t].phase = "Udp" /\ data'[t].conn = data[t].conn /\ data'[t].sid = data[t].sid
        BY <3>2, <2>4, <1>1
      <4>2. data[t].sid \in Sids /\ udp[data[t].conn][data[t].sid] = t
        BY <4>1, <1>u DEF SessionInv
      <4>3. data[t].conn \in Conns
        BY <4>1 DEF SInv, ConnInv, Held, Up
      <4>4. udp[c][sid] # t
        BY <2>2, ServerAssumption
      <4>5. udp'[data[t].conn][data[t].sid] = udp[data[t].conn][data[t].sid]
        BY <4>2, <4>3, <4>4, <1>2
      <4> QED
        BY <4>1, <4>2, <4>5
    <3> QED
      BY <3>1, <3>2
  <2> QED
    BY <2>3, <2>4 DEF SessionInv
<1>8. Up' = Up /\ UNCHANGED <<conns, conn_timers, relays>>
  BY DEF UdpOpen, Up
<1>9. ConnInv'
  <2>1. ASSUME NEW t \in Held' \cup relays'
        PROVE  data'[t].conn \in Up' /\ conns'[data'[t].conn].ctrl = "Settled"
    <3>1. t \in Held \cup relays /\ t \in Streams
      BY <1>4, <1>8, <1>t DEF Held, TypeOK
    <3> QED
      BY <3>1, <1>1, <1>8 DEF SInv, ConnInv, Authed
  <2> QED
    BY <2>1, <1>8 DEF SInv, ConnInv, Authed
<1>10. BudgetExact'
  <2> SUFFICES ASSUME NEW e \in Up
               PROVE  /\ conns'[e].held =
                           Cardinality(HeldOf(e)') + (IF conns'[e].ctrl = "none" THEN 0 ELSE 1)
                      /\ conns'[e].held <= STREAM_BUDGET
                      /\ Cardinality(SessionsOf(e)') <= MAX_SESSIONS_PER_CONN
    BY <1>8 DEF BudgetExact
  <2>0. e \in Conns
    BY DEF Up
  <2>1. /\ conns[e].held = Cardinality(HeldOf(e)) + (IF conns[e].ctrl = "none" THEN 0 ELSE 1)
        /\ conns[e].held <= STREAM_BUDGET /\ Cardinality(SessionsOf(e)) <= MAX_SESSIONS_PER_CONN
    BY DEF SInv, BudgetExact
  <2>2. HeldOf(e)' = HeldOf(e)
    BY <1>1, <1>4 DEF HeldOf, Held
  <2>3. Cardinality(SessionsOf(e)') <= MAX_SESSIONS_PER_CONN
    <3>1. CASE e = c
      <4>1. SessionsOf(e)' = SessionsOf(e) \cup {sid} /\ SessionsOf(e) \in SUBSET Sids
        BY <3>1, <2>0, <1>2, ServerAssumption DEF SessionsOf
      <4>2. sid \notin SessionsOf(e) /\ Cardinality(SessionsOf(e)) < MAX_SESSIONS_PER_CONN
        BY <3>1, <1>t DEF UdpAdmits, SessionsOf
      <4>3. /\ Cardinality(SessionsOf(e) \cup {sid}) = Cardinality(SessionsOf(e)) + 1
            /\ Cardinality(SessionsOf(e)) \in Nat
        BY <4>1, <4>2, SidSets
      <4> QED
        BY <4>1, <4>2, <4>3, ServerAssumption
    <3>2. CASE e # c
      <4>1. SessionsOf(e)' = SessionsOf(e)
        BY <3>2, <2>0, <1>2 DEF SessionsOf
      <4> QED
        BY <4>1, <2>1
    <3> QED
      BY <3>1, <3>2
  <2> QED
    BY <2>1, <2>2, <2>3, <1>8
<1> QED
  BY <1>5, <1>6, <1>7, <1>9, <1>10 DEF SInv

LEMMA KeepUdpResolved ==
  ASSUME SInv, NEW s \in Streams, UdpResolved(s)
  PROVE  SInv'
<1>t. TypeOK /\ sphase[s] = "Resolving" /\ data[s].phase = "Udp" /\ s \notin socks
  BY DEF SInv, StreamInv, UdpResolved
<1>r. StreamInv
  BY DEF SInv
<1>u. SessionInv
  BY DEF SInv
<1>1. CASE RespondError(s)
  <2>1. s \in Held
    BY <1>t DEF Held
  <2> QED
    BY <1>1, <1>t, <2>1, KeepRespondError DEF UdpResolved
<1>2. CASE /\ resolve_ops' = resolve_ops \ {s} /\ socket_ops' = socket_ops \cup {s}
           /\ resolves' = resolves \ {s} /\ socket_opens' = socket_opens \cup {s}
           /\ sphase' = [sphase EXCEPT ![s] = "Opening"]
           /\ UNCHANGED <<conns, data, timers, dials, dial_ops, udp, udp_socks, usocks, socks>>
  <2>1. \A t \in Streams : sphase'[t] = IF t = s THEN "Opening" ELSE sphase[t]
    BY <1>2, <1>t DEF TypeOK
  <2>2. TypeOK'
    BY <1>2, <1>t DEF UdpResolved, TypeOK, timers, life
  <2>3. StreamInv'
    BY <1>2, <2>1, <1>t, <1>r DEF StreamInv, UdpResolved, timers
  <2>4. SessionInv'
    <3>1. \A e \in Conns, x \in Sids : udp[e][x] \in Streams \cup {None}
      BY <1>t DEF TypeOK
    <3> QED
      BY <3>1, <1>2, <2>1, <1>t, <1>u DEF SessionInv, timers
  <2>5. Held' = Held /\ \A c \in Conns : SessionsOf(c)' \subseteq SessionsOf(c)
    BY <1>2 DEF Held, SessionsOf
  <2>6. ConnInv' /\ BudgetExact'
    BY <1>2, <2>5, ConnsStay DEF UdpResolved, timers
  <2> QED
    BY <2>2, <2>3, <2>4, <2>6 DEF SInv
<1> QED
  BY <1>1, <1>2 DEF UdpResolved

LEMMA KeepUdpSocket ==
  ASSUME SInv, NEW s \in Streams, UdpSocket(s)
  PROVE  SInv'
<1> DEFINE c == data[s].conn
           sid == data[s].sid
<1>t. TypeOK /\ sphase[s] = "Opening" /\ data[s].phase = "Udp" /\ s \notin socks
  BY DEF SInv, StreamInv, UdpSocket
<1>r. StreamInv
  BY DEF SInv
<1>u. SessionInv
  BY DEF SInv
<1>h. s \in Held
  BY <1>t DEF Held
<1>1. CASE RespondError(s)
  BY <1>1, <1>t, <1>h, KeepRespondError DEF UdpSocket
<1>2. CASE DropData(s)
  BY <1>2, <1>t, <1>h, KeepDropData DEF UdpSocket
<1>3. CASE /\ socket_ops' = socket_ops \ {s} /\ socket_opens' = socket_opens \ {s}
           /\ udp_socks' = udp_socks \cup {s} /\ usocks' = usocks \cup {s}
           /\ sphase' = [sphase EXCEPT ![s] = "Live"]
           /\ idle_timers' = [idle_timers EXCEPT ![c] = @ \cup {sid}]
           /\ UNCHANGED <<conns, data, conn_timers, request_timers, dials, dial_ops, resolve_ops,
                          udp, resolves, socks>>
  <2>0. c \in Conns /\ sid \in Sids /\ udp[c][sid] = s
    BY <1>h, <1>t, <1>u DEF SInv, ConnInv, Up, SessionInv
  <2>1. \A t \in Streams : sphase'[t] = IF t = s THEN "Live" ELSE sphase[t]
    BY <1>3, <1>t DEF TypeOK
  <2>2. /\ idle_timers' \in [Conns -> SUBSET Sids]
        /\ \A e \in Conns : idle_timers'[e] = IF e = c THEN idle_timers[e] \cup {sid}
                                                       ELSE idle_timers[e]
    BY <1>3, <2>0, <1>t DEF TypeOK
  <2>3. TypeOK'
    BY <1>3, <2>2, <1>t DEF UdpSocket, TypeOK, life
  <2>4. StreamInv'
    BY <1>3, <2>1, <1>t, <1>r DEF StreamInv, UdpSocket
  <2>5. SessionInv'
    <3>1. ASSUME NEW e \in Conns, NEW x \in Sids
          PROVE  (x \in idle_timers'[e]) <=> (udp'[e][x] # None /\ sphase'[udp'[e][x]] = "Live")
      <4>1. /\ udp[e][x] \in Streams \cup {None} /\ udp'[e][x] = udp[e][x]
            /\ (x \in idle_timers[e]) <=> (udp[e][x] # None /\ sphase[udp[e][x]] = "Live")
            /\ udp[e][x] # None => data[udp[e][x]].conn = e /\ data[udp[e][x]].sid = x
        BY <1>3, <1>t, <1>u DEF TypeOK, SessionInv
      <4>2. CASE udp[e][x] = s
        <5>1. e = c /\ x = sid /\ s # None
          BY <4>1, <4>2, ServerAssumption
        <5> QED
          BY <4>1, <4>2, <5>1, <2>1, <2>2
      <4>3. CASE udp[e][x] # s
        <5>1. ~ (e = c /\ x = sid)
          BY <4>3, <2>0
        <5>2. (x \in idle_timers'[e]) <=> (x \in idle_timers[e])
          BY <5>1, <2>2
        <5> QED
          BY <4>1, <4>3, <5>2, <2>1
      <4> QED
        BY <4>2, <4>3
    <3> QED
      BY <3>1, <1>3, <1>u DEF SessionInv
  <2>6. Held' = Held /\ \A e \in Conns : SessionsOf(e)' \subseteq SessionsOf(e)
    BY <1>3 DEF Held, SessionsOf
  <2>7. ConnInv' /\ BudgetExact'
    BY <1>3, <2>6, ConnsStay DEF UdpSocket
  <2> QED
    BY <2>3, <2>4, <2>5, <2>7 DEF SInv
<1> QED
  BY <1>1, <1>2, <1>3 DEF UdpSocket

LEMMA KeepStutter == SInv /\ UNCHANGED vars => SInv'
<1> SUFFICES ASSUME SInv, UNCHANGED vars PROVE SInv'
  OBVIOUS
<1>1. /\ UNCHANGED <<conns, data, conn_timers, request_timers, idle_timers, dials, udp, sphase>>
      /\ UNCHANGED <<resolves, socket_opens, udp_socks, usocks, shutting_down, exit>>
      /\ UNCHANGED <<dial_ops, resolve_ops, socket_ops, socks, relays>>
  BY DEF vars, sessions, life, timers, ops
<1>2. TypeOK'
  BY <1>1 DEF SInv, TypeOK
<1>3. StreamInv' /\ SessionInv'
  BY <1>1 DEF SInv, StreamInv, SessionInv
<1>4. Held' = Held /\ \A e \in Conns : SessionsOf(e)' \subseteq SessionsOf(e)
  BY <1>1 DEF Held, SessionsOf
<1>5. ConnInv' /\ BudgetExact'
  BY <1>1, <1>4, ConnsStay
<1> QED
  BY <1>2, <1>3, <1>5 DEF SInv

LEMMA KeepUdpIdle ==
  ASSUME SInv, NEW c \in Conns, NEW sid \in Sids, UdpIdle(c, sid)
  PROVE  SInv'
<1>1. CASE UNCHANGED <<conns, data, timers, dials, sessions, ops, socks>>
  <2>1. UNCHANGED vars
    BY <1>1 DEF UdpIdle, vars
  <2> QED
    BY <2>1, KeepStutter
<1>2. CASE DropData(udp[c][sid])
  <2>1. udp[c][sid] \in Held
    BY DEF UdpIdle, SInv, SessionInv, TypeOK, Held
  <2> QED
    BY <1>2, <2>1, KeepDropData DEF UdpIdle
<1> QED
  BY <1>1, <1>2 DEF UdpIdle

(* The streams that end while a request is read or its dial is under way.  *)
LEMMA KeepEnds ==
  ASSUME SInv, NEW s \in Streams, RequestRefused(s) \/ StreamEnds(s) \/ DialFails(s)
  PROVE  SInv'
<1>1. CASE RequestRefused(s)
  <2>1. s \in Held /\ s \notin socks
    BY <1>1 DEF RequestRefused, SInv, StreamInv, Held
  <2> QED
    BY <1>1, <2>1, KeepRespondError DEF RequestRefused
<1>2. CASE StreamEnds(s)
  BY <1>2, KeepDropData DEF StreamEnds
<1>3. CASE DialFails(s)
  <2>1. s \in Held /\ s \notin socks
    BY <1>3 DEF DialFails, SInv, StreamInv, Held
  <2> QED
    BY <1>3, <2>1, KeepRespondError DEF DialFails
<1> QED
  BY <1>1, <1>2, <1>3

LEMMA KeepServerNext == SInv /\ [Next]_vars => SInv'
<1> SUFFICES ASSUME SInv, [Next]_vars PROVE SInv'
  OBVIOUS
<1>1. CASE UNCHANGED vars
  BY <1>1, KeepStutter
<1>2. CASE OnShutdown
  BY <1>2, KeepOnShutdown
<1>3. ASSUME NEW c \in Conns, Connection(c) PROVE SInv'
  <2>1. ASSUME NEW proto \in {"Raw", "H3"}, OnNewConn(c, proto) PROVE SInv'
    BY <2>1, KeepOnNewConn
  <2>2. ASSUME NEW ok \in BOOLEAN, NEW flushed \in BOOLEAN, AuthRequest(c, ok, flushed)
        PROVE  SInv'
    BY <2>2, KeepAuthRequest
  <2>3. ASSUME NEW s \in Streams, OnNewStream(c, s) PROVE SInv'
    BY <2>3, KeepOnNewStream
  <2> QED
    BY <1>3, <2>1, <2>2, <2>3, KeepOnConnClosed, KeepControlStream, KeepCtrlFails, KeepConnTimer
       DEF Connection
<1>4. ASSUME NEW s \in Streams, Stream(s) PROVE SInv'
  <2>1. ASSUME NEW sid \in Sids, UdpOpen(s, sid) PROVE SInv'
    BY <2>1, KeepUdpOpen
  <2> QED
    BY <1>4, <2>1, KeepDial, KeepEnds, KeepDialOk, KeepRespond, KeepSocketOrRelayEnds,
       KeepUdpResolved, KeepUdpSocket DEF Stream
<1>5. ASSUME NEW c \in Conns, NEW sid \in Sids, UdpIdle(c, sid) PROVE SInv'
  BY <1>5, KeepUdpIdle
<1> QED
  BY <1>1, <1>2, <1>3, <1>4, <1>5 DEF Next

----------------------------------------------------------------------------
(* The server's invariant: maps, phases, timers, operations, sockets and   *)
(* the budget of every connection agree, for any number of connections,    *)
(* streams and sessions.                                                   *)
THEOREM ServerInvariant == Spec => []SInv
<1> QED
  BY InitServer, KeepServerNext, PTL DEF Spec

(* Every variable of the server app keeps its type; in particular          *)
(* Conn::held stays within the stream budget and never underflows.         *)
THEOREM ServerTypes == Spec => []TypeOK
<1>1. SInv => TypeOK
  BY DEF SInv
<1> QED
  BY <1>1, ServerInvariant, PTL

(* ServerSound of the fronts run: the budget of a connection is exactly    *)
(* its streams, no map names what another forgot, no expect() of the       *)
(* server app can fail, nothing outlives its owner and nothing is held     *)
(* before AUTH.                                                            *)
THEOREM ServerIsSound == Spec => []ServerSound
<1> QED
  BY SoundFromParts, ServerInvariant, PTL
=============================================================================
