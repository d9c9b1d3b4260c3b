--------------------------- MODULE ShardOpsProofs ---------------------------
(***************************************************************************)
(* Proofs about ShardOps, for any set of operations and any socket cap:    *)
(* the cap holds, and an operation completes at most once and stays in     *)
(* exactly one place until it does.                                        *)
(***************************************************************************)
EXTENDS ShardOps, ListLemmas, FiniteSetTheorems

Queued == ToSet(limited) \cup ToSet(limited_udp) \cup ToSet(resolved) \cup ToSet(taken)

Handed == dials \cup resolves \cup socket_ops

(* No operation is in two places, nor twice in a list. *)
Separate ==
  /\ dials \cap (resolves \cup socket_ops \cup Queued) = {}
  /\ resolves \cap (socket_ops \cup Queued) = {}
  /\ socket_ops \cap Queued = {}
  /\ ToSet(limited) \cap (ToSet(limited_udp) \cup ToSet(resolved) \cup ToSet(taken)) = {}
  /\ ToSet(limited_udp) \cap (ToSet(resolved) \cup ToSet(taken)) = {}
  /\ ToSet(resolved) \cap ToSet(taken) = {}
  /\ Nodup(limited) /\ Nodup(limited_udp) /\ Nodup(resolved) /\ Nodup(taken)

(* Only what was started is anywhere; what is somewhere has not completed, *)
(* and what is nowhere has completed once or was cancelled.                *)
Tracked ==
  /\ Handed \cup Queued \cup inflight \subseteq started
  /\ Handed \subseteq inflight
  /\ \A op \in Ops :
       /\ delivered[op] \in {0, 1}
       /\ op \notin started => delivered[op] = 0
       /\ op \in Handed \cup Queued => delivered[op] = 0
       /\ op \in started \ cancelled /\ delivered[op] = 0 => op \in Handed \cup Queued

OpsInv == TypeOK /\ CapHolds /\ Separate /\ Tracked

----------------------------------------------------------------------------
(* The lists. *)

(* A cancel takes an operation out of a list (retain). *)
LEMMA WithoutList ==
  ASSUME NEW s \in Seq(Ops), NEW op \in Ops, Nodup(s)
  PROVE  /\ Without(s, op) \in Seq(Ops) /\ Nodup(Without(s, op))
         /\ ToSet(Without(s, op)) = ToSet(s) \ {op}
<1>1. CASE ~\E i \in 1 .. Len(s) : s[i] = op
  BY <1>1 DEF Without, ToSet
<1>2. CASE \E i \in 1 .. Len(s) : s[i] = op
  <2> DEFINE n == CHOOSE i \in 1 .. Len(s) : s[i] = op
  <2>1. n \in 1 .. Len(s) /\ s[n] = op
    BY <1>2
  <2>2. Without(s, op) = RemoveAt(s, n)
    BY <1>2 DEF Without
  <2> HIDE DEF n
  <2> QED
    BY <2>1, <2>2, RemoveList
<1> QED
  BY <1>1, <1>2

----------------------------------------------------------------------------
(* The places counted by the cap. *)

LEMMA Places ==
  ASSUME NEW S \in SUBSET Ops, NEW op
  PROVE  /\ Cardinality(S) \in Nat
         /\ Cardinality(S \cup {op}) = IF op \in S THEN Cardinality(S) ELSE Cardinality(S) + 1
         /\ Cardinality(S \ {op}) = IF op \in S THEN Cardinality(S) - 1 ELSE Cardinality(S)
<1>1. IsFiniteSet(S)
  BY OpsAssumption, FS_Subset
<1>2. Cardinality(S) \in Nat
  BY <1>1, FS_CardinalityType
<1> QED
  BY <1>1, <1>2, FS_AddElement, FS_RemoveElement

LEMMA InitOps == Init => OpsInv
<1> SUFFICES ASSUME Init PROVE OpsInv
  OBVIOUS
<1>1. Cardinality({}) = 0
  BY FS_EmptySet
<1>2. TypeOK
  BY OpsAssumption DEF Init, TypeOK
<1>3. CapHolds
  BY <1>1, OpsAssumption DEF Init, CapHolds, Used
<1>4. Separate
  BY EmptyList DEF Init, Separate, Queued
<1>5. Tracked
  BY EmptyList DEF Init, Tracked, Handed, Queued
<1> QED
  BY <1>2, <1>3, <1>4, <1>5 DEF OpsInv

(* The lists hold operations only. *)
LEMMA ListTypes ==
  ASSUME TypeOK
  PROVE  /\ ToSet(limited) \subseteq Ops /\ ToSet(limited_udp) \subseteq Ops
         /\ ToSet(resolved) \subseteq Ops /\ ToSet(taken) \subseteq Ops
BY ListElements DEF TypeOK

(* A newly started operation is nowhere yet. *)
LEMMA Fresh ==
  ASSUME OpsInv, NEW op \in Ops, op \notin started
  PROVE  /\ op \notin Handed /\ op \notin Queued /\ op \notin inflight
         /\ delivered[op] = 0 /\ op \notin cancelled
BY DEF OpsInv, Tracked, TypeOK

LEMMA KeepDial ==
  ASSUME OpsInv, NEW op \in Ops, Dial(op)
  PROVE  OpsInv'
<1>1. op \notin Handed /\ op \notin Queued /\ op \notin inflight
      /\ delivered[op] = 0 /\ op \notin cancelled /\ op \notin started
  BY Fresh DEF Dial, MayStart
<1>2. CASE at_cap /\ limited' = Append(limited, op) /\ UNCHANGED <<dials, inflight>>
  <2>1. limited' \in Seq(Ops) /\ Nodup(limited') /\ ToSet(limited') = ToSet(limited) \cup {op}
    BY <1>1, <1>2, AppendList DEF OpsInv, TypeOK, Separate, Queued
  <2>2. TypeOK'
    BY <1>2, <2>1 DEF OpsInv, TypeOK, Dial, drive
  <2>3. CapHolds'
    BY <1>2 DEF OpsInv, CapHolds, Used, Dial
  <2>4. Separate'
    BY <1>1, <1>2, <2>1 DEF OpsInv, Separate, Queued, Handed, Dial, drive
  <2>5. Tracked'
    BY <1>1, <1>2, <2>1 DEF OpsInv, Tracked, Queued, Handed, Dial, drive
  <2> QED
    BY <2>2, <2>3, <2>4, <2>5 DEF OpsInv
<1>3. CASE /\ ~at_cap /\ dials' = dials \cup {op} /\ inflight' = inflight \cup {op}
           /\ UNCHANGED limited
  <2>2. TypeOK'
    BY <1>3 DEF OpsInv, TypeOK, Dial, drive
  <2>3. CapHolds'
    <3>1. Cardinality(dials') = Cardinality(dials) + 1 /\ Cardinality(dials) \in Nat
      BY <1>1, <1>3, Places DEF OpsInv, TypeOK, Handed
    <3>2. Cardinality(app_udp_ops) \in Nat
      BY Places DEF OpsInv, TypeOK
    <3> QED
      BY SMTT(30), <1>3, <3>1, <3>2, OpsAssumption DEF OpsInv, TypeOK, CapHolds, Used, Dial, at_cap
  <2>4. Separate'
    BY <1>1, <1>3 DEF OpsInv, Separate, Queued, Handed, Dial, drive
  <2>5. Tracked'
    BY <1>1, <1>3 DEF OpsInv, Tracked, Queued, Handed, Dial, drive
  <2> QED
    BY <2>2, <2>3, <2>4, <2>5 DEF OpsInv
<1> QED
  BY <1>2, <1>3 DEF Dial

LEMMA KeepResolve ==
  ASSUME OpsInv, NEW op \in Ops, Resolve(op)
  PROVE  OpsInv'
<1>1. op \notin Handed /\ op \notin Queued /\ op \notin inflight
      /\ delivered[op] = 0 /\ op \notin cancelled /\ op \notin started
  BY Fresh DEF Resolve, MayStart
<1>c. CapHolds'
  BY DEF OpsInv, CapHolds, Used, Resolve
<1>2. CASE resolved' = Append(resolved, op) /\ UNCHANGED <<resolves, inflight>>
  <2>1. resolved' \in Seq(Ops) /\ Nodup(resolved')
        /\ ToSet(resolved') = ToSet(resolved) \cup {op}
    BY <1>1, <1>2, AppendList DEF OpsInv, TypeOK, Separate, Queued
  <2>2. TypeOK'
    BY <1>2, <2>1 DEF OpsInv, TypeOK, Resolve, drive
  <2>4. Separate'
    BY <1>1, <1>2, <2>1 DEF OpsInv, Separate, Queued, Handed, Resolve, drive
  <2>5. Tracked'
    BY <1>1, <1>2, <2>1 DEF OpsInv, Tracked, Queued, Handed, Resolve, drive
  <2> QED
    BY <1>c, <2>2, <2>4, <2>5 DEF OpsInv
<1>3. CASE resolves' = resolves \cup {op} /\ inflight' = inflight \cup {op} /\ UNCHANGED resolved
  <2>2. TypeOK'
    BY <1>3 DEF OpsInv, TypeOK, Resolve, drive
  <2>4. Separate'
    BY <1>1, <1>3 DEF OpsInv, Separate, Queued, Handed, Resolve, drive
  <2>5. Tracked'
    BY <1>1, <1>3 DEF OpsInv, Tracked, Queued, Handed, Resolve, drive
  <2> QED
    BY <1>c, <2>2, <2>4, <2>5 DEF OpsInv
<1> QED
  BY <1>2, <1>3 DEF Resolve

LEMMA KeepOpenUdpSocket ==
  ASSUME OpsInv, NEW op \in Ops, OpenUdpSocket(op)
  PROVE  OpsInv'
<1>1. op \notin Handed /\ op \notin Queued /\ op \notin inflight
      /\ delivered[op] = 0 /\ op \notin cancelled /\ op \notin started
  BY Fresh DEF OpenUdpSocket, MayStart
<1>2. TypeOK'
  BY DEF OpsInv, TypeOK, OpenUdpSocket, drive, lists
<1>3. CapHolds'
  BY DEF OpsInv, CapHolds, Used, OpenUdpSocket
<1>4. Separate'
  BY <1>1 DEF OpsInv, Separate, Queued, Handed, OpenUdpSocket, drive, lists
<1>5. Tracked'
  BY <1>1 DEF OpsInv, Tracked, Queued, Handed, OpenUdpSocket, drive, lists
<1> QED
  BY <1>2, <1>3, <1>4, <1>5 DEF OpsInv

LEMMA KeepOpenAppUdpSocket ==
  ASSUME OpsInv, NEW op \in Ops, OpenAppUdpSocket(op)
  PROVE  OpsInv'
<1>1. op \notin Handed /\ op \notin Queued /\ op \notin inflight
      /\ delivered[op] = 0 /\ op \notin cancelled /\ op \notin started
  BY Fresh DEF OpenAppUdpSocket, MayStart
<1>2. CASE /\ at_cap /\ limited_udp' = Append(limited_udp, op)
           /\ UNCHANGED <<socket_ops, app_udp_ops, inflight>>
  <2>1. limited_udp' \in Seq(Ops) /\ Nodup(limited_udp')
        /\ ToSet(limited_udp') = ToSet(limited_udp) \cup {op}
    BY <1>1, <1>2, AppendList DEF OpsInv, TypeOK, Separate, Queued
  <2>2. TypeOK'
    BY <1>2, <2>1 DEF OpsInv, TypeOK, OpenAppUdpSocket, drive
  <2>3. CapHolds'
    BY <1>2 DEF OpsInv, CapHolds, Used, OpenAppUdpSocket
  <2>4. Separate'
    BY <1>1, <1>2, <2>1 DEF OpsInv, Separate, Queued, Handed, OpenAppUdpSocket, drive
  <2>5. Tracked'
    BY <1>1, <1>2, <2>1 DEF OpsInv, Tracked, Queued, Handed, OpenAppUdpSocket, drive
  <2> QED
    BY <2>2, <2>3, <2>4, <2>5 DEF OpsInv
<1>3. CASE /\ ~at_cap /\ socket_ops' = socket_ops \cup {op}
           /\ app_udp_ops' = app_udp_ops \cup {op} /\ inflight' = inflight \cup {op}
           /\ UNCHANGED limited_udp
  <2>2. TypeOK'
    BY <1>3 DEF OpsInv, TypeOK, OpenAppUdpSocket, drive
  <2>3. CapHolds'
    <3>1. Cardinality(app_udp_ops') = Cardinality(app_udp_ops) + 1
          /\ Cardinality(app_udp_ops) \in Nat
      BY <1>1, <1>3, Places DEF OpsInv, TypeOK, Handed
    <3>2. Cardinality(dials) \in Nat
      BY Places DEF OpsInv, TypeOK
    <3> QED
      BY <1>3, <3>1, <3>2, OpsAssumption
      DEF OpsInv, TypeOK, CapHolds, Used, OpenAppUdpSocket, at_cap
  <2>4. Separate'
    BY <1>1, <1>3 DEF OpsInv, Separate, Queued, Handed, OpenAppUdpSocket, drive
  <2>5. Tracked'
    BY <1>1, <1>3 DEF OpsInv, Tracked, Queued, Handed, OpenAppUdpSocket, drive
  <2> QED
    BY <2>2, <2>3, <2>4, <2>5 DEF OpsInv
<1> QED
  BY <1>2, <1>3 DEF OpenAppUdpSocket

(* A cancel takes the operation out of every table and list but the one    *)
(* drive has taken out of the shard.                                       *)
LEMMA KeepCancel ==
  ASSUME OpsInv, NEW op \in Ops, Cancel(op)
  PROVE  OpsInv'
<1>1. /\ limited' \in Seq(Ops) /\ Nodup(limited') /\ ToSet(limited') = ToSet(limited) \ {op}
      /\ resolved' \in Seq(Ops) /\ Nodup(resolved') /\ ToSet(resolved') = ToSet(resolved) \ {op}
      /\ limited_udp' \in Seq(Ops) /\ Nodup(limited_udp')
      /\ ToSet(limited_udp') = ToSet(limited_udp) \ {op}
  BY WithoutList DEF OpsInv, TypeOK, Separate, Cancel
<1>2. TypeOK'
  BY <1>1 DEF OpsInv, TypeOK, Cancel, ReservationReleased, drive
<1>3. CapHolds'
  <2>1. /\ Cardinality(dials) \in Nat
        /\ Cardinality(dials') = IF op \in dials THEN Cardinality(dials) - 1 ELSE Cardinality(dials)
    BY Places DEF OpsInv, TypeOK, Cancel
  <2>2. /\ Cardinality(app_udp_ops) \in Nat
        /\ Cardinality(app_udp_ops') =
             IF op \in app_udp_ops THEN Cardinality(app_udp_ops) - 1 ELSE Cardinality(app_udp_ops)
    BY Places DEF OpsInv, TypeOK, Cancel, ReservationReleased
  <2>3. tcp' = tcp /\ udp' = udp
    BY DEF Cancel
  <2>4. Cardinality(dials') \in Int /\ Cardinality(dials') <= Cardinality(dials)
    BY <2>1
  <2>5. /\ Cardinality(app_udp_ops') \in Int
        /\ Cardinality(app_udp_ops') <= Cardinality(app_udp_ops)
    BY <2>2
  <2>6. tcp \in Nat /\ udp \in Nat /\ SOCKET_CAP \in Nat /\ CapHolds
    BY OpsAssumption DEF OpsInv, TypeOK
  <2> QED
    BY <2>1, <2>2, <2>3, <2>4, <2>5, <2>6 DEF CapHolds, Used
<1>4. Separate'
  BY <1>1 DEF OpsInv, Separate, Queued, Cancel, drive
<1>5. Tracked'
  BY <1>1 DEF OpsInv, TypeOK, Tracked, Queued, Handed, Cancel, drive
<1> QED
  BY <1>2, <1>3, <1>4, <1>5 DEF OpsInv

LEMMA KeepCloseSocket ==
  ASSUME OpsInv, CloseSocket
  PROVE  OpsInv'
<1>0. Cardinality(dials) \in Nat /\ Cardinality(app_udp_ops) \in Nat
  BY Places DEF OpsInv, TypeOK
<1>1. TypeOK'
  BY DEF OpsInv, TypeOK, CloseSocket, tables, lists, drive, app
<1>2. CapHolds'
  BY <1>0, OpsAssumption DEF OpsInv, TypeOK, CapHolds, Used, CloseSocket, tables
<1>3. Separate' /\ Tracked'
  BY DEF OpsInv, Separate, Tracked, Queued, Handed, CloseSocket, tables, lists, drive, app
<1> QED
  BY <1>1, <1>2, <1>3 DEF OpsInv

LEMMA KeepOnAccepted ==
  ASSUME OpsInv, OnAccepted
  PROVE  OpsInv'
<1>0. Cardinality(dials) \in Nat /\ Cardinality(app_udp_ops) \in Nat
  BY Places DEF OpsInv, TypeOK
<1>1. TypeOK'
  BY DEF OpsInv, TypeOK, OnAccepted, tables, lists, drive, app
<1>2. CapHolds'
  BY <1>0, OpsAssumption DEF OpsInv, TypeOK, CapHolds, Used, OnAccepted, at_cap, tables
<1>3. Separate' /\ Tracked'
  BY DEF OpsInv, Separate, Tracked, Queued, Handed, OnAccepted, tables, lists, drive, app
<1> QED
  BY <1>1, <1>2, <1>3 DEF OpsInv

----------------------------------------------------------------------------
(* The driver's results. *)

(* A result counts once, and only for an operation its table still has. *)
LEMMA Counted ==
  ASSUME OpsInv, NEW op \in Ops, NEW table, table \subseteq Handed, Completed(op, table)
  PROVE  /\ delivered' \in [Ops -> Nat]
         /\ \A o \in Ops : delivered'[o] = IF o = op /\ op \in table THEN 1 ELSE delivered[o]
<1>1. op \in table => delivered[op] = 0
  BY DEF OpsInv, Tracked
<1> QED
  BY <1>1 DEF OpsInv, TypeOK, Tracked, Completed, Wanted

LEMMA KeepOnDialResult ==
  ASSUME OpsInv, NEW op \in Ops, OnDialResult(op)
  PROVE  OpsInv'
<1>1. /\ delivered' \in [Ops -> Nat]
      /\ \A o \in Ops : delivered'[o] = IF o = op /\ op \in dials THEN 1 ELSE delivered[o]
  BY Counted DEF OnDialResult, Handed
<1>2. TypeOK'
  BY <1>1 DEF OpsInv, TypeOK, OnDialResult, lists, drive, app
<1>3. CapHolds'
  <2>1. /\ Cardinality(dials) \in Nat
        /\ Cardinality(dials') = IF op \in dials THEN Cardinality(dials) - 1 ELSE Cardinality(dials)
    BY Places DEF OpsInv, TypeOK, OnDialResult
  <2>2. Cardinality(app_udp_ops) \in Nat
    BY Places DEF OpsInv, TypeOK
  <2> QED
    BY <2>1, <2>2, OpsAssumption DEF OpsInv, TypeOK, CapHolds, Used, OnDialResult
<1>4. Separate'
  BY DEF OpsInv, Separate, Queued, OnDialResult, lists, drive
<1>5. Tracked'
  BY <1>1, ListTypes
  DEF OpsInv, TypeOK, Tracked, Separate, Queued, Handed, OnDialResult, lists, drive, app
<1> QED
  BY <1>2, <1>3, <1>4, <1>5 DEF OpsInv

LEMMA KeepOnResolveResult ==
  ASSUME OpsInv, NEW op \in Ops, OnResolveResult(op)
  PROVE  OpsInv'
<1>1. /\ delivered' \in [Ops -> Nat]
      /\ \A o \in Ops : delivered'[o] = IF o = op /\ op \in resolves THEN 1 ELSE delivered[o]
  BY Counted DEF OnResolveResult, Handed
<1>2. TypeOK'
  BY <1>1 DEF OpsInv, TypeOK, OnResolveResult, lists, drive, app
<1>3. CapHolds'
  BY DEF OpsInv, CapHolds, Used, OnResolveResult
<1>4. Separate'
  BY DEF OpsInv, Separate, Queued, OnResolveResult, lists, drive
<1>5. Tracked'
  BY <1>1, ListTypes
  DEF OpsInv, TypeOK, Tracked, Separate, Queued, Handed, OnResolveResult, lists, drive, app
<1> QED
  BY <1>2, <1>3, <1>4, <1>5 DEF OpsInv

LEMMA KeepOnUdpSocket ==
  ASSUME OpsInv, NEW op \in Ops, OnUdpSocket(op)
  PROVE  OpsInv'
<1>1. /\ delivered' \in [Ops -> Nat]
      /\ \A o \in Ops : delivered'[o] = IF o = op /\ op \in socket_ops THEN 1 ELSE delivered[o]
  BY Counted DEF OnUdpSocket, Handed
<1>2. TypeOK'
  BY SMTT(30), <1>1 DEF OpsInv, TypeOK, OnUdpSocket, ReservationReleased, lists, drive, app
<1>3. CapHolds'
  <2>1. /\ Cardinality(app_udp_ops) \in Nat
        /\ Cardinality(app_udp_ops') =
             IF op \in app_udp_ops THEN Cardinality(app_udp_ops) - 1 ELSE Cardinality(app_udp_ops)
    BY Places DEF OpsInv, TypeOK, OnUdpSocket, ReservationReleased
  <2>2. Cardinality(dials) \in Nat
    BY Places DEF OpsInv, TypeOK
  <2> QED
    BY SMTT(30), <2>1, <2>2, OpsAssumption DEF OpsInv, TypeOK, CapHolds, Used, OnUdpSocket
<1>4. Separate'
  BY DEF OpsInv, Separate, Queued, OnUdpSocket, lists, drive
<1>5. Tracked'
  BY <1>1, ListTypes
  DEF OpsInv, TypeOK, Tracked, Separate, Queued, Handed, OnUdpSocket, lists, drive, app
<1> QED
  BY <1>2, <1>3, <1>4, <1>5 DEF OpsInv

----------------------------------------------------------------------------
(* drive. *)

LEMMA KeepDriveBegin ==
  ASSUME OpsInv, taken = <<>>, DriveBegin
  PROVE  OpsInv'
<1>1. ToSet(taken') = ToSet(limited) /\ ToSet(limited') = {} /\ ToSet(taken) = {}
      /\ Nodup(limited')
  BY EmptyList DEF DriveBegin
<1>2. TypeOK'
  BY EmptyList DEF OpsInv, TypeOK, DriveBegin, tables, app
<1>3. CapHolds'
  BY DEF OpsInv, CapHolds, Used, DriveBegin, tables
<1>4. Separate'
  BY <1>1 DEF OpsInv, Separate, Queued, DriveBegin, tables
<1>5. Tracked'
  BY <1>1 DEF OpsInv, Tracked, Queued, Handed, DriveBegin, tables, app
<1> QED
  BY <1>2, <1>3, <1>4, <1>5 DEF OpsInv

LEMMA KeepDeliverTaken ==
  ASSUME OpsInv, DeliverTaken
  PROVE  OpsInv'
<1> DEFINE op == Head(taken)
<1>1. /\ taken' \in Seq(Ops) /\ Nodup(taken') /\ op \in ToSet(taken)
      /\ ToSet(taken') = ToSet(taken) \ {op}
  BY TailList DEF OpsInv, TypeOK, Separate, DeliverTaken
<1>2. op \in Ops
  BY <1>1, ListTypes DEF OpsInv
<1>3. delivered' = [delivered EXCEPT ![op] = @ + 1]
  BY DEF DeliverTaken, Deliver
<1> HIDE DEF op
<1>4. /\ delivered' \in [Ops -> Nat]
      /\ \A o \in Ops : delivered'[o] = IF o = op THEN 1 ELSE delivered[o]
  BY <1>1, <1>2, <1>3 DEF OpsInv, TypeOK, Tracked, Queued
<1>5. TypeOK'
  BY <1>1, <1>4 DEF OpsInv, TypeOK, DeliverTaken, Deliver, tables, lists, app
<1>6. CapHolds'
  BY DEF OpsInv, CapHolds, Used, DeliverTaken, tables
<1>7. Separate'
  BY <1>1 DEF OpsInv, Separate, Queued, DeliverTaken, tables, lists
<1>8. Tracked'
  BY <1>1, <1>2, <1>4
  DEF OpsInv, Tracked, Separate, Queued, Handed, DeliverTaken, tables, lists, app
<1> QED
  BY <1>5, <1>6, <1>7, <1>8 DEF OpsInv

LEMMA KeepBeginResolved ==
  ASSUME OpsInv, BeginResolved
  PROVE  OpsInv'
<1>1. Len(resolved) \in Nat
  BY LenProperties DEF OpsInv, TypeOK
<1>2. TypeOK'
  BY <1>1 DEF OpsInv, TypeOK, BeginResolved, tables, lists, app
<1> QED
  BY <1>2
  DEF OpsInv, CapHolds, Used, Separate, Tracked, Queued, Handed, BeginResolved, tables, lists, app

LEMMA KeepDeliverResolved ==
  ASSUME OpsInv, DeliverResolved
  PROVE  OpsInv'
<1> DEFINE op == Head(resolved)
<1>1. /\ resolved' \in Seq(Ops) /\ Nodup(resolved') /\ op \in ToSet(resolved)
      /\ ToSet(resolved') = ToSet(resolved) \ {op}
  BY TailList DEF OpsInv, TypeOK, Separate, DeliverResolved
<1>2. op \in Ops
  BY <1>1, ListTypes DEF OpsInv
<1>3. delivered' = [delivered EXCEPT ![op] = @ + 1]
  BY DEF DeliverResolved, Deliver
<1> HIDE DEF op
<1>4. /\ delivered' \in [Ops -> Nat]
      /\ \A o \in Ops : delivered'[o] = IF o = op THEN 1 ELSE delivered[o]
  BY <1>1, <1>2, <1>3 DEF OpsInv, TypeOK, Tracked, Queued
<1>5. TypeOK'
  BY <1>1, <1>4 DEF OpsInv, TypeOK, DeliverResolved, Deliver, tables, app
<1>6. CapHolds'
  BY DEF OpsInv, CapHolds, Used, DeliverResolved, tables
<1>7. Separate'
  BY <1>1 DEF OpsInv, Separate, Queued, DeliverResolved, tables
<1>8. Tracked'
  BY <1>1, <1>2, <1>4 DEF OpsInv, Tracked, Separate, Queued, Handed, DeliverResolved, tables, app
<1> QED
  BY <1>5, <1>6, <1>7, <1>8 DEF OpsInv

LEMMA KeepBeginLimitedUdp ==
  ASSUME OpsInv, taken = <<>>, BeginLimitedUdp
  PROVE  OpsInv'
<1>1. ToSet(taken') = ToSet(limited_udp) /\ ToSet(limited_udp') = {} /\ ToSet(taken) = {}
      /\ Nodup(limited_udp')
  BY EmptyList DEF BeginLimitedUdp
<1>2. TypeOK'
  BY EmptyList DEF OpsInv, TypeOK, BeginLimitedUdp, LimitedLeft, tables, app
<1>3. CapHolds'
  BY DEF OpsInv, CapHolds, Used, BeginLimitedUdp, tables
<1>4. Separate'
  BY <1>1 DEF OpsInv, Separate, Queued, BeginLimitedUdp, LimitedLeft, tables
<1>5. Tracked'
  BY <1>1 DEF OpsInv, Tracked, Queued, Handed, BeginLimitedUdp, LimitedLeft, tables, app
<1> QED
  BY <1>2, <1>3, <1>4, <1>5 DEF OpsInv

LEMMA KeepDriveEnd ==
  ASSUME OpsInv, DriveEnd
  PROVE  OpsInv'
<1>1. TypeOK'
  BY DEF OpsInv, TypeOK, DriveEnd, tables, lists, app
<1> QED
  BY <1>1
  DEF OpsInv, CapHolds, Used, Separate, Tracked, Queued, Handed, DriveEnd, tables, lists, app

----------------------------------------------------------------------------
(* Drive holds a list of its own only while it delivers it. *)
TakenOut == step \in {"idle", "resolved"} => taken = <<>>

LEMMA KeepNext ==
  ASSUME OpsInv, TakenOut, [Next]_vars
  PROVE  OpsInv' /\ TakenOut'
<1>1. CASE UNCHANGED vars
  <2>1. TypeOK'
    BY <1>1 DEF OpsInv, TypeOK, vars, tables, lists, drive, app
  <2> QED
    BY <1>1, <2>1
    DEF OpsInv, TakenOut, CapHolds, Used, Separate, Tracked, Queued, Handed, vars, tables, lists,
        drive, app
<1>2. CASE OnAccepted
  BY <1>2, KeepOnAccepted DEF TakenOut, OnAccepted, drive
<1>3. CASE CloseSocket
  BY <1>3, KeepCloseSocket DEF TakenOut, CloseSocket, drive
<1>4. CASE Drive
  <2>1. CASE DriveBegin
    BY <2>1, KeepDriveBegin DEF TakenOut, DriveBegin
  <2>2. CASE DeliverTaken
    BY <2>2, KeepDeliverTaken DEF TakenOut, DeliverTaken
  <2>3. CASE BeginResolved
    BY <2>3, KeepBeginResolved DEF TakenOut, BeginResolved
  <2>4. CASE DeliverResolved
    BY <2>4, KeepDeliverResolved DEF TakenOut, DeliverResolved
  <2>5. CASE BeginLimitedUdp
    BY <2>5, KeepBeginLimitedUdp DEF TakenOut, BeginLimitedUdp
  <2>6. CASE DriveEnd
    BY <2>6, KeepDriveEnd DEF TakenOut, DriveEnd
  <2> QED
    BY <1>4, <2>1, <2>2, <2>3, <2>4, <2>5, <2>6 DEF Drive
<1>5. ASSUME NEW op \in Ops, App(op) PROVE OpsInv' /\ TakenOut'
  <2>1. CASE Dial(op)
    BY <2>1, KeepDial DEF TakenOut, Dial, drive
  <2>2. CASE Resolve(op)
    BY <2>2, KeepResolve DEF TakenOut, Resolve, drive
  <2>3. CASE OpenUdpSocket(op)
    BY <2>3, KeepOpenUdpSocket DEF TakenOut, OpenUdpSocket, drive
  <2>4. CASE OpenAppUdpSocket(op)
    BY <2>4, KeepOpenAppUdpSocket DEF TakenOut, OpenAppUdpSocket, drive
  <2>5. CASE Cancel(op)
    BY <2>5, KeepCancel DEF TakenOut, Cancel, drive
  <2> QED
    BY <1>5, <2>1, <2>2, <2>3, <2>4, <2>5 DEF App
<1>6. ASSUME NEW op \in Ops, Driver(op) PROVE OpsInv' /\ TakenOut'
  <2>1. CASE OnDialResult(op)
    BY <2>1, KeepOnDialResult DEF TakenOut, OnDialResult, drive
  <2>2. CASE OnResolveResult(op)
    BY <2>2, KeepOnResolveResult DEF TakenOut, OnResolveResult, drive
  <2>3. CASE OnUdpSocket(op)
    BY <2>3, KeepOnUdpSocket DEF TakenOut, OnUdpSocket, drive
  <2> QED
    BY <1>6, <2>1, <2>2, <2>3 DEF Driver
<1> QED
  BY <1>1, <1>2, <1>3, <1>4, <1>5, <1>6 DEF Next

THEOREM OpsInvariant == Spec => [](OpsInv /\ TakenOut)
<1>1. Init => OpsInv /\ TakenOut
  BY InitOps DEF Init, TakenOut
<1>2. OpsInv /\ TakenOut /\ [Next]_vars => (OpsInv /\ TakenOut)'
  BY KeepNext
<1> QED
  BY <1>1, <1>2, PTL DEF Spec

(* An operation that is on its way is in exactly one table or list. *)
LEMMA OnePlace ==
  ASSUME OpsInv
  PROVE  OpsSound
<1>1. CapHolds /\ app_udp_ops \subseteq socket_ops
  BY DEF OpsInv, TypeOK
<1>2. ASSUME NEW op \in Ops
      PROVE  LET ways == {dials, resolves, socket_ops} \cup
                         {ToSet(limited), ToSet(limited_udp), ToSet(resolved), ToSet(taken)} IN
             /\ delivered[op] <= 1
             /\ op \in started \ cancelled =>
                  (delivered[op] = 0) <=> (Cardinality({w \in ways : op \in w}) = 1)
             /\ op \in dials \cup resolves \cup socket_ops => op \in inflight
  <2> DEFINE ways == {dials, resolves, socket_ops} \cup
                     {ToSet(limited), ToSet(limited_udp), ToSet(resolved), ToSet(taken)}
             mine == {w \in ways : op \in w}
  <2>1. delivered[op] \in {0, 1}
    BY DEF OpsInv, Tracked
  <2>2. op \in dials \cup resolves \cup socket_ops => op \in inflight
    BY DEF OpsInv, Tracked, Handed
  <2>3. op \notin Handed \cup Queued => mine = {}
    BY DEF Handed, Queued
  <2>4. op \in Handed \cup Queued => \E w : mine = {w}
    <3> SUFFICES ASSUME op \in Handed \cup Queued PROVE \E w : mine = {w}
      OBVIOUS
    <3>1. PICK w \in ways : op \in w
      BY DEF Handed, Queued
    <3>2. \A v \in ways : op \in v => v = w
      BY <3>1 DEF OpsInv, Separate, Queued
    <3>3. mine = {w}
      BY <3>1, <3>2
    <3> QED
      BY <3>3
  <2>5. op \in started \ cancelled => (delivered[op] = 0 <=> op \in Handed \cup Queued)
    BY DEF OpsInv, Tracked
  <2>6. (op \in Handed \cup Queued) <=> (Cardinality(mine) = 1)
    BY <2>3, <2>4, FS_EmptySet, FS_Singleton
  <2>7. op \in started \ cancelled => ((delivered[op] = 0) <=> (Cardinality(mine) = 1))
    BY <2>5, <2>6
  <2>8. delivered[op] <= 1
    BY <2>1
  <2> QED
    BY <2>2, <2>7, <2>8
<1> QED
  BY <1>1, <1>2 DEF OpsSound, OnceAndTracked

(* The variables have their types, whatever the app starts and cancels. *)
THEOREM OpsTypes == Spec => []TypeOK
<1>1. OpsInv => TypeOK
  BY DEF OpsInv
<1> QED
  BY <1>1, OpsInvariant, PTL

(* For any number of operations and any cap: the sockets and the opens     *)
(* that hold a place never exceed the cap, an operation completes at most  *)
(* once, and one that neither completed nor was cancelled is in exactly    *)
(* one of the shard's tables and lists.                                    *)
THEOREM OpsAreSound == Spec => []OpsSound
<1>1. OpsInv => OpsSound
  BY OnePlace
<1> QED
  BY <1>1, OpsInvariant, PTL

(* Where cancelled operations still are: in the list drive took out, if    *)
(* anywhere.                                                               *)
CancelledGone ==
  /\ cancelled \cap (dials \cup resolves \cup socket_ops) = {}
  /\ cancelled \cap (ToSet(limited) \cup ToSet(limited_udp) \cup ToSet(resolved)) = {}

LEMMA CancelledStayGone ==
  ASSUME OpsInv, CancelledGone, TakenOut, [Next]_vars
  PROVE  CancelledGone'
<1> USE DEF CancelledGone
<1>0. cancelled \subseteq started /\ OpsInv' /\ TypeOK
  BY KeepNext DEF OpsInv, TypeOK
<1>1. CASE UNCHANGED vars
  BY <1>1 DEF vars, tables, lists, app
<1>2. CASE OnAccepted \/ CloseSocket
  BY <1>2 DEF OnAccepted, CloseSocket, tables, lists, app
<1>3. CASE DriveBegin
  BY <1>3, EmptyList DEF DriveBegin, tables, app
<1>4. CASE DeliverTaken \/ BeginResolved \/ DriveEnd
  BY <1>4 DEF DeliverTaken, BeginResolved, DriveEnd, tables, lists, app
<1>5. CASE DeliverResolved
  <2>1. ToSet(resolved') \subseteq ToSet(resolved)
    BY <1>5, TailList DEF DeliverResolved, OpsInv, TypeOK, Separate
  <2> QED
    BY <1>5, <2>1 DEF DeliverResolved, tables, app
<1>6. CASE BeginLimitedUdp
  BY <1>6, EmptyList DEF BeginLimitedUdp, LimitedLeft, tables, app
<1>7. ASSUME NEW op \in Ops, App(op) PROVE CancelledGone'
  <2>1. CASE Dial(op)
    <3>1. ToSet(limited') \subseteq ToSet(limited) \cup {op}
      BY <2>1, Fresh, AppendList
      DEF Dial, MayStart, OpsInv, TypeOK, Separate, Queued
    <3> QED
      BY <2>1, <3>1, <1>0 DEF Dial, MayStart
  <2>2. CASE Resolve(op)
    <3>1. ToSet(resolved') \subseteq ToSet(resolved) \cup {op}
      BY <2>2, Fresh, AppendList
      DEF Resolve, MayStart, OpsInv, TypeOK, Separate, Queued
    <3> QED
      BY <2>2, <3>1, <1>0 DEF Resolve, MayStart
  <2>3. CASE OpenUdpSocket(op)
    BY <2>3, <1>0 DEF OpenUdpSocket, MayStart, lists
  <2>4. CASE OpenAppUdpSocket(op)
    <3>1. ToSet(limited_udp') \subseteq ToSet(limited_udp) \cup {op}
      BY <2>4, Fresh, AppendList
      DEF OpenAppUdpSocket, MayStart, OpsInv, TypeOK, Separate, Queued
    <3> QED
      BY <2>4, <3>1, <1>0 DEF OpenAppUdpSocket, MayStart
  <2>5. CASE Cancel(op)
    <3>1. /\ ToSet(limited') = ToSet(limited) \ {op}
          /\ ToSet(limited_udp') = ToSet(limited_udp) \ {op}
          /\ ToSet(resolved') = ToSet(resolved) \ {op}
      BY <2>5, WithoutList DEF Cancel, OpsInv, TypeOK, Separate
    <3> QED
      BY <2>5, <3>1 DEF Cancel
  <2> QED
    BY <1>7, <2>1, <2>2, <2>3, <2>4, <2>5 DEF App
<1>8. ASSUME NEW op \in Ops, Driver(op) PROVE CancelledGone'
  BY <1>8 DEF Driver, OnDialResult, OnResolveResult, OnUdpSocket, lists, app
<1> QED
  BY <1>1, <1>2, <1>3, <1>4, <1>5, <1>6, <1>7, <1>8 DEF Next, Drive

(* A result that arrives for a cancelled operation, and an IP resolve that *)
(* was cancelled, is dropped: only a list drive has already taken out      *)
(* (refused dials and opens) still delivers one.                           *)
THEOREM CancelDropsResult == Spec => CancelledResultDropped
<1> DEFINE Kept == \A op \in cancelled :
                     delivered'[op] # delivered[op] => step \in {"limited", "limited_udp"}
<1>1. Init => CancelledGone
  BY DEF Init, CancelledGone
<1>2. OpsInv /\ TakenOut /\ CancelledGone /\ [Next]_vars => CancelledGone'
  BY CancelledStayGone
<1>3. ASSUME OpsInv, CancelledGone, Next
      PROVE  Kept
  <2> SUFFICES ASSUME NEW o \in cancelled, delivered'[o] # delivered[o],
                      step \notin {"limited", "limited_udp"}
               PROVE  FALSE
    OBVIOUS
  <2>0. o \in Ops /\ TypeOK
    BY <1>3 DEF OpsInv, TypeOK
  <2>1. CASE \E op \in Ops : Driver(op)
    <3>1. PICK op \in Ops : Driver(op)
      BY <2>1
    <3>2. PICK table \in {dials, resolves, socket_ops} : Completed(op, table)
      BY <3>1 DEF Driver, OnDialResult, OnResolveResult, OnUdpSocket
    <3>3. \A p \in Ops : delivered'[p] = IF p = op /\ op \in table THEN 1 ELSE delivered[p]
      <4>1. table \subseteq Handed
        BY <3>2 DEF Handed
      <4> QED
        BY <1>3, <3>2, <4>1, Counted
    <3>4. o \in table
      BY <2>0, <3>3
    <3> QED
      BY <1>3, <3>4, <3>2 DEF CancelledGone
  <2>2. CASE DeliverResolved
    <3> DEFINE h == Head(resolved)
    <3>1. h \in ToSet(resolved)
      BY <1>3, <2>2, TailList DEF DeliverResolved, OpsInv, TypeOK, Separate
    <3>2. delivered' = [delivered EXCEPT ![h] = @ + 1]
      BY <2>2 DEF DeliverResolved, Deliver
    <3> HIDE DEF h
    <3>3. o = h
      BY <2>0, <3>2 DEF TypeOK
    <3> QED
      BY <1>3, <3>1, <3>3 DEF CancelledGone
  <2>3. CASE DeliverTaken
    BY <2>3 DEF DeliverTaken
  <2>4. CASE OnAccepted \/ CloseSocket
    BY <2>4 DEF OnAccepted, CloseSocket
  <2>5. CASE DriveBegin \/ BeginResolved \/ BeginLimitedUdp \/ DriveEnd
    BY <2>5 DEF DriveBegin, BeginResolved, BeginLimitedUdp, DriveEnd
  <2>6. CASE \E op \in Ops : App(op)
    BY <2>6 DEF App, Dial, Resolve, OpenUdpSocket, OpenAppUdpSocket, Cancel
  <2> QED
    BY <1>3, <2>1, <2>2, <2>3, <2>4, <2>5, <2>6 DEF Next, Drive
<1>4. OpsInv /\ CancelledGone /\ [Next]_vars => [Kept]_vars
  BY <1>3
<1> QED
  BY <1>1, <1>2, <1>4, OpsInvariant, PTL DEF Spec, CancelledResultDropped
=============================================================================
