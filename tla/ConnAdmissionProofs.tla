------------------------ MODULE ConnAdmissionProofs ------------------------
(***************************************************************************)
(* Proofs about ConnAdmission, for any set of connections, any max_conns   *)
(* and any backlog: the counters are the sizes of what they count, the cap *)
(* and the backlogs hold, and an authenticated connection is never picked  *)
(* for eviction.                                                           *)
(***************************************************************************)
EXTENDS ConnAdmission, FiniteSetTheorems, TLAPS

(* AdmissionSound is inductive with the types and this: an eviction's      *)
(* close waits only on a connection being evicted.                         *)
EvictMarked == \A c \in Conns : slot[c].pending_close = "evict" => slot[c].evicting

AInv == ATypeOK /\ AdmissionSound /\ EvictMarked

----------------------------------------------------------------------------
LEMMA BacklogNat == backlog_cap \in Nat
<1> DEFINE m == BACKLOG_MUL * max_conns
<1>1. m \in Nat /\ BACKLOG_MIN \in Nat
  BY AdmissionAssumption
<1> HIDE DEF m
<1>2. \E x \in {BACKLOG_MIN, m} : \A y \in {BACKLOG_MIN, m} : x >= y
  BY <1>1
<1>3. Max({BACKLOG_MIN, m}) \in {BACKLOG_MIN, m}
  BY <1>2 DEF Max
<1> QED
  BY <1>1, <1>3 DEF backlog_cap, m

(* Sets of connections grow and shrink by one. *)
LEMMA Size ==
  ASSUME NEW S \in SUBSET Conns, NEW c
  PROVE  /\ Cardinality(S) \in Nat
         /\ Cardinality(S \cup {c}) = IF c \in S THEN Cardinality(S) ELSE Cardinality(S) + 1
         /\ Cardinality(S \ {c}) = IF c \in S THEN Cardinality(S) - 1 ELSE Cardinality(S)
<1>1. IsFiniteSet(S)
  BY AdmissionAssumption, FS_Subset
<1>2. Cardinality(S) \in Nat
  BY <1>1, FS_CardinalityType
<1> QED
  BY <1>1, <1>2, FS_AddElement, FS_RemoveElement

(* What is left of the counted ones is their number less the evicting. *)
LEMMA NotEvicting ==
  ASSUME NEW C \in SUBSET Conns, NEW E \in SUBSET C
  PROVE  Cardinality(C \ E) = Cardinality(C) - Cardinality(E)
<1>1. IsFiniteSet(C)
  BY AdmissionAssumption, FS_Subset
<1>2. C \cap E = E
  OBVIOUS
<1> QED
  BY <1>1, <1>2, FS_Difference

(* The caps follow from the counters, which are easier to follow. *)
Numbers ==
  /\ n_counted = Cardinality(Counted) /\ n_provisional = Cardinality(Provisional)
  /\ known = Counted /\ Evicting \subseteq Counted
  /\ max_conns # 0 => /\ n_counted - Cardinality(Evicting) <= max_conns
                      /\ Cardinality(Evicting) <= backlog_cap
  /\ n_provisional <= backlog_cap

LEMMA SoundIsNumbers == AdmissionSound <=> Numbers
<1>1. Evicting \subseteq Counted =>
        Cardinality(Counted \ Evicting) = Cardinality(Counted) - Cardinality(Evicting)
  BY NotEvicting DEF Counted
<1> QED
  BY <1>1 DEF AdmissionSound, BooksBalance, AdmissionCapHolds, Numbers

LEMMA SoundIsNumbersNext == Numbers' => AdmissionSound'
BY SoundIsNumbers, PTL

LEMMA FreeTyped == FreeSlot \in SlotRecords
BY DEF FreeSlot, SlotRecords

----------------------------------------------------------------------------
LEMMA InitAdmission == AInit => AInv
<1> SUFFICES ASSUME AInit PROVE AInv
  OBVIOUS
<1>1. Counted = {} /\ Provisional = {} /\ Evicting = {}
  BY DEF AInit, FreeSlot, Counted, Provisional, Evicting
<1>2. Numbers
  BY <1>1, FS_EmptySet, BacklogNat, AdmissionAssumption DEF AInit, Numbers
<1>3. ATypeOK /\ EvictMarked
  BY FreeTyped DEF AInit, ATypeOK, EvictMarked, FreeSlot
<1> QED
  BY <1>2, <1>3, SoundIsNumbers DEF AInv

(* A slot is released. *)
LEMMA KeepRelease ==
  ASSUME AInv, NEW c \in Conns, Refuse(c) \/ Close(c)
  PROVE  AInv'
<1>1. /\ slot' = [slot EXCEPT ![c] = FreeSlot]
      /\ n_provisional' = n_provisional - (IF slot[c].st = "provisional" THEN 1 ELSE 0)
      /\ n_counted' = n_counted - (IF slot[c].st = "counted" THEN 1 ELSE 0)
      /\ known' = known \ {c} /\ n_admitted' = n_admitted
  BY DEF Refuse, Close, AInv, ATypeOK
<1>2. /\ Counted' = Counted \ {c} /\ Provisional' = Provisional \ {c}
      /\ Evicting' = Evicting \ {c}
  BY <1>1 DEF Counted, Provisional, Evicting, FreeSlot, AInv, ATypeOK
<1>3. /\ Counted \in SUBSET Conns /\ Provisional \in SUBSET Conns /\ Evicting \in SUBSET Conns
      /\ Numbers
      /\ (c \in Counted) <=> (slot[c].st = "counted")
      /\ (c \in Provisional) <=> (slot[c].st = "provisional")
  BY SoundIsNumbers DEF Counted, Provisional, Evicting, AInv
<1>4. /\ Cardinality(Counted \ {c}) =
           IF c \in Counted THEN Cardinality(Counted) - 1 ELSE Cardinality(Counted)
      /\ Cardinality(Provisional \ {c}) =
           IF c \in Provisional THEN Cardinality(Provisional) - 1 ELSE Cardinality(Provisional)
      /\ Cardinality(Evicting \ {c}) =
           IF c \in Evicting THEN Cardinality(Evicting) - 1 ELSE Cardinality(Evicting)
      /\ Cardinality(Evicting) \in Nat /\ Cardinality(Counted) \in Nat
      /\ Cardinality(Counted \ {c}) \in Nat /\ Cardinality(Provisional \ {c}) \in Nat
  BY <1>3, Size
<1>5. Numbers'
  <2>1. /\ n_counted' = Cardinality(Counted') /\ n_provisional' = Cardinality(Provisional')
        /\ known' = Counted' /\ Evicting' \subseteq Counted'
    BY <1>1, <1>2, <1>3, <1>4 DEF Numbers
  <2>2. Cardinality(Evicting') \in Int /\ Cardinality(Evicting') <= Cardinality(Evicting)
    BY <1>2, <1>4
  <2>3. n_provisional \in Nat /\ n_provisional' <= n_provisional /\ n_provisional' \in Int
    BY <1>1 DEF AInv, ATypeOK
  <2>4. n_counted' - Cardinality(Evicting') <= n_counted - Cardinality(Evicting)
    BY <1>1, <1>2, <1>3, <1>4 DEF Numbers
  <2>5. n_counted \in Nat /\ n_counted' \in Int
    BY <1>1 DEF AInv, ATypeOK
  <2> QED
    BY <2>1, <2>2, <2>3, <2>4, <2>5, <1>3, <1>4, BacklogNat, AdmissionAssumption DEF Numbers
<1>6. ATypeOK'
  BY <1>1, <1>2, <1>4, <1>5, FreeTyped DEF AInv, ATypeOK, Numbers
<1>7. EvictMarked'
  BY <1>1 DEF AInv, ATypeOK, EvictMarked, FreeSlot
<1> QED
  BY <1>5, <1>6, <1>7, SoundIsNumbersNext DEF AInv

LEMMA KeepAccept ==
  ASSUME AInv, NEW c \in Conns, Accept(c)
  PROVE  AInv'
<1> DEFINE new == [FreeSlot EXCEPT !.st = "provisional", !.deadline = "armed"]
<1>1. /\ new \in SlotRecords /\ new.st = "provisional" /\ ~new.evicting
      /\ new.pending_close # "evict"
  BY DEF FreeSlot, SlotRecords
<1>2. /\ slot' = [slot EXCEPT ![c] = new] /\ slot[c].st = "free"
      /\ n_provisional < backlog_cap /\ n_provisional' = n_provisional + 1
      /\ UNCHANGED <<n_counted, n_admitted, known>>
  BY DEF Accept
<1> HIDE DEF new
<1>3. Numbers
  BY SoundIsNumbers DEF AInv
<1>4. c \notin Evicting /\ c \notin Counted /\ c \notin Provisional
  BY <1>2, <1>3 DEF Numbers, Counted, Provisional
<1>5. Counted' = Counted /\ Evicting' = Evicting /\ Provisional' = Provisional \cup {c}
  BY <1>1, <1>2, <1>4 DEF Counted, Provisional, Evicting, AInv, ATypeOK
<1>6. Cardinality(Provisional \cup {c}) = Cardinality(Provisional) + 1
  BY <1>4, Size DEF Provisional
<1>7. Numbers'
  BY <1>2, <1>3, <1>5, <1>6, BacklogNat DEF Numbers, AInv, ATypeOK
<1>8. ATypeOK' /\ EvictMarked'
  BY <1>1, <1>2 DEF AInv, ATypeOK, EvictMarked
<1> QED
  BY <1>7, <1>8, SoundIsNumbersNext DEF AInv

(* What Admit does to the books, given what becomes of the evicting ones. *)
LEMMA AdmitNumbers ==
  ASSUME AInv, NEW c \in Provisional, Admit(c),
         Counted' = Counted \cup {c}, Provisional' = Provisional \ {c}
  PROVE  /\ n_counted' = Cardinality(Counted') /\ n_provisional' = Cardinality(Provisional')
         /\ known' = Counted' /\ n_provisional' \in Nat /\ n_provisional' <= backlog_cap
         /\ n_counted' = n_counted + 1
<1>1. Numbers /\ c \notin Counted
  BY SoundIsNumbers DEF AInv, Counted, Provisional
<1>2. /\ Cardinality(Counted \cup {c}) = Cardinality(Counted) + 1
      /\ Cardinality(Provisional \ {c}) = Cardinality(Provisional) - 1
      /\ Cardinality(Provisional) \in Nat
  BY <1>1, Size DEF Counted, Provisional
<1>3. Provisional \ {c} \in SUBSET Conns
  BY DEF Provisional
<1>4. Cardinality(Provisional \ {c}) \in Nat
  BY <1>3, Size
<1> QED
  BY <1>1, <1>2, <1>4, BacklogNat DEF Numbers, Admit

LEMMA AdmittedSlot ==
  ASSUME ATypeOK, NEW c \in Conns
  PROVE  /\ Admitted(c) \in SlotRecords /\ Admitted(c).st = "counted"
         /\ Admitted(c).evicting <=> slot[c].evicting
         /\ Admitted(c).pending_close = slot[c].pending_close
<1>1. slot[c] \in SlotRecords /\ n_admitted + 1 \in Nat
  BY DEF ATypeOK
<1>2. Admitted(c) \in SlotRecords
  BY <1>1 DEF SlotRecords, Admitted
<1>3. Admitted(c).st = "counted" /\ Admitted(c).pending_close = slot[c].pending_close
  BY <1>1 DEF SlotRecords, Admitted
<1>4. Admitted(c).evicting <=> slot[c].evicting
  BY <1>1 DEF SlotRecords, Admitted
<1> QED
  BY <1>2, <1>3, <1>4

LEMMA KeepCreate ==
  ASSUME AInv, NEW c \in Conns, Create(c)
  PROVE  AInv'
<1>1. /\ Admitted(c) \in SlotRecords /\ Admitted(c).st = "counted"
      /\ Admitted(c).evicting <=> slot[c].evicting
      /\ Admitted(c).pending_close = slot[c].pending_close
  BY AdmittedSlot DEF AInv
<1>2. slot' = [slot EXCEPT ![c] = Admitted(c)] /\ slot[c].st = "provisional" /\ HasRoom
  BY DEF Create
<1>3. Numbers /\ c \in Provisional
  BY <1>2, SoundIsNumbers DEF AInv, Provisional
<1>4. /\ Counted' = Counted \cup {c} /\ Provisional' = Provisional \ {c} /\ Evicting' = Evicting
  BY <1>1, <1>2 DEF Counted, Provisional, Evicting, AInv, ATypeOK
<1>5. /\ n_counted' = Cardinality(Counted') /\ n_provisional' = Cardinality(Provisional')
      /\ known' = Counted' /\ n_provisional' \in Nat /\ n_provisional' <= backlog_cap
      /\ n_counted' = n_counted + 1
  BY <1>3, <1>4, AdmitNumbers DEF Create
<1>6. Cardinality(Evicting) \in Nat /\ n_counted \in Nat
  BY Size DEF Evicting, AInv, ATypeOK
<1>7. max_conns # 0 => n_counted' - Cardinality(Evicting) <= max_conns
  BY <1>2, <1>3, <1>5, <1>6, AdmissionAssumption DEF HasRoom
<1>8. Numbers'
  BY <1>3, <1>4, <1>5, <1>7 DEF Numbers
<1>9. ATypeOK' /\ EvictMarked'
  BY <1>1, <1>2, <1>4, <1>5, <1>6 DEF AInv, ATypeOK, EvictMarked, Create, Admit, Counted
<1> QED
  BY <1>8, <1>9, SoundIsNumbersNext DEF AInv

(* The admission that evicts takes no place: one more is admitted, one     *)
(* more is evicting.                                                       *)
LEMMA KeepCreateEvicting ==
  ASSUME AInv, NEW c \in Conns, NEW v \in Conns, CreateEvicting(c, v)
  PROVE  AInv'
<1> DEFINE victim == [slot[v] EXCEPT !.evicting = TRUE,
                                     !.pending_close = IF @ = "none" THEN "evict" ELSE @]
<1>1. /\ Admitted(c) \in SlotRecords /\ Admitted(c).st = "counted"
      /\ Admitted(c).evicting <=> slot[c].evicting
      /\ Admitted(c).pending_close = slot[c].pending_close
  BY AdmittedSlot DEF AInv
<1>2. /\ victim \in SlotRecords /\ victim.st = slot[v].st /\ victim.evicting
  BY DEF AInv, ATypeOK, SlotRecords
<1>3. /\ slot[c].st = "provisional" /\ slot[v].st = "counted" /\ ~slot[v].evicting
      /\ ~ (Cardinality(Evicting) >= backlog_cap) /\ ~HasRoom /\ Admit(c)
  BY DEF CreateEvicting, IsVictim, Victims, Counted
<1>4. c # v /\ slot' = [slot EXCEPT ![c] = Admitted(c), ![v] = victim]
  BY <1>3 DEF CreateEvicting
<1> HIDE DEF victim
<1>5. Numbers /\ c \in Provisional /\ v \notin Evicting
  BY <1>3, SoundIsNumbers DEF AInv, Provisional, Evicting
<1>6. /\ Counted' = Counted \cup {c} /\ Provisional' = Provisional \ {c}
      /\ Evicting' = Evicting \cup {v} /\ v \in Counted
  BY <1>1, <1>2, <1>3, <1>4 DEF Counted, Provisional, Evicting, AInv, ATypeOK
<1>7. /\ n_counted' = Cardinality(Counted') /\ n_provisional' = Cardinality(Provisional')
      /\ known' = Counted' /\ n_provisional' \in Nat /\ n_provisional' <= backlog_cap
      /\ n_counted' = n_counted + 1
  BY <1>3, <1>5, <1>6, AdmitNumbers
<1>8. /\ Cardinality(Evicting) \in Nat /\ n_counted \in Nat
      /\ Cardinality(Evicting') = Cardinality(Evicting) + 1
  BY <1>5, <1>6, Size DEF Evicting, AInv, ATypeOK
<1>9. Numbers'
  BY <1>3, <1>5, <1>6, <1>7, <1>8, BacklogNat, AdmissionAssumption DEF Numbers
<1>10. ATypeOK' /\ EvictMarked'
  BY <1>1, <1>2, <1>3, <1>4, <1>6, <1>7, <1>8 DEF AInv, ATypeOK, EvictMarked, Admit, Counted
<1> QED
  BY <1>9, <1>10, SoundIsNumbersNext DEF AInv

(* Steps that admit, release and evict nobody. *)
LEMMA KeepOthers ==
  ASSUME AInv, NEW c \in Conns,
         DriveConns \/ CreateRefused(c) \/ MarkAuthed(c) \/ CeilingHit(c) \/ Due(c)
  PROVE  AInv'
<1>1. /\ slot' \in [Conns -> SlotRecords]
      /\ \A d \in Conns :
           /\ slot'[d].st = slot[d].st
           /\ slot'[d].evicting <=> slot[d].evicting
           /\ slot'[d].pending_close = "evict" => slot[d].pending_close = "evict"
  <2>1. CASE DriveConns
    <3>1. \A d \in Conns :
            /\ Driven(slot[d]) \in SlotRecords /\ Driven(slot[d]).st = slot[d].st
            /\ Driven(slot[d]).evicting <=> slot[d].evicting
            /\ Driven(slot[d]).pending_close # "evict"
      BY ZenonT(60) DEF AInv, ATypeOK, SlotRecords, Driven
    <3> QED
      BY <2>1, <3>1 DEF DriveConns
  <2>2. CASE CreateRefused(c)
    BY <2>2 DEF CreateRefused, AInv, ATypeOK, SlotRecords
  <2>3. CASE MarkAuthed(c)
    BY ZenonT(60), <2>3 DEF MarkAuthed, AInv, ATypeOK, SlotRecords
  <2>4. CASE CeilingHit(c)
    BY <2>4 DEF CeilingHit, AInv, ATypeOK, SlotRecords
  <2>5. CASE Due(c)
    BY <2>5 DEF Due, AInv, ATypeOK, SlotRecords
  <2> QED
    BY <2>1, <2>2, <2>3, <2>4, <2>5
<1>2. UNCHANGED <<n_counted, n_provisional, n_admitted, known>>
  BY DEF DriveConns, CreateRefused, MarkAuthed, CeilingHit, Due
<1>3. Counted' = Counted /\ Provisional' = Provisional /\ Evicting' = Evicting
  BY <1>1 DEF Counted, Provisional, Evicting
<1>4. Numbers
  BY SoundIsNumbers DEF AInv
<1>5. Numbers'
  BY <1>2, <1>3, <1>4 DEF Numbers
<1>6. ATypeOK' /\ EvictMarked'
  BY <1>1, <1>2 DEF AInv, ATypeOK, EvictMarked
<1> QED
  BY <1>5, <1>6, SoundIsNumbersNext DEF AInv

----------------------------------------------------------------------------
LEMMA KeepAdmission ==
  ASSUME AInv, [ANext]_avars
  PROVE  AInv'
<1>1. CASE UNCHANGED avars
  BY <1>1 DEF AInv, ATypeOK, AdmissionSound, BooksBalance, AdmissionCapHolds, EvictMarked, avars,
              Counted, Provisional, Evicting
<1>2. CASE ANext
  <2>1. CASE Conns = {}
    BY <2>1, <1>2 DEF ANext, DriveConns, AInv, ATypeOK, AdmissionSound, BooksBalance,
                      AdmissionCapHolds, EvictMarked, Counted, Provisional, Evicting
  <2>2. CASE DriveConns /\ Conns # {}
    BY <2>2, KeepOthers
  <2>3. ASSUME NEW c \in Conns,
               \/ Accept(c) \/ Refuse(c) \/ Create(c) \/ CreateRefused(c) \/ Close(c)
               \/ MarkAuthed(c) \/ CeilingHit(c) \/ Due(c)
               \/ \E v \in Conns : CreateEvicting(c, v)
        PROVE  AInv'
    BY <2>3, KeepAccept, KeepRelease, KeepCreate, KeepCreateEvicting, KeepOthers
  <2> QED
    BY <1>2, <2>1, <2>2, <2>3 DEF ANext
<1> QED
  BY <1>1, <1>2

THEOREM AdmissionInvariant == ASpec => []AInv
<1>1. AInv /\ [ANext]_avars => AInv'
  BY KeepAdmission
<1> QED
  BY InitAdmission, <1>1, PTL DEF ASpec

(* For any max_conns and any backlogs: the counters of Inner are the sizes *)
(* of what they count, the app knows exactly the admitted connections, and *)
(* the cap and both backlogs hold though the check at accept is stale when *)
(* the connection is created.                                              *)
THEOREM AdmissionIsSound == ASpec => []AdmissionSound
<1>1. AInv => AdmissionSound
  BY DEF AInv
<1> QED
  BY <1>1, AdmissionInvariant, PTL

(* An authenticated connection that is not already being evicted is not    *)
(* picked, whichever notification comes next.                              *)
THEOREM AuthedStays == ASpec => AuthedNotEvicted
<1> DEFINE Stays == \A c \in Conns : slot[c].authed /\ ~slot[c].evicting =>
                       ~slot'[c].evicting /\ slot'[c].pending_close # "evict"
<1>1. ASSUME AInv, ANext PROVE Stays
  <2> SUFFICES ASSUME NEW d \in Conns, slot[d].authed, ~slot[d].evicting
               PROVE  ~slot'[d].evicting /\ slot'[d].pending_close # "evict"
    OBVIOUS
  <2>0. /\ slot \in [Conns -> SlotRecords] /\ slot[d].pending_close # "evict"
    BY <1>1 DEF AInv, ATypeOK, EvictMarked
  <2>1. CASE DriveConns
    BY <2>0, <2>1 DEF DriveConns, Driven, SlotRecords
  <2>2. CASE \E c \in Conns : Accept(c) \/ Refuse(c) \/ Close(c)
    <3>1. PICK c \in Conns : Accept(c) \/ Refuse(c) \/ Close(c)
      BY <2>2
    <3>2. PICK s : slot' = [slot EXCEPT ![c] = s] /\ ~s.evicting /\ s.pending_close = "none"
      <4>1. CASE Accept(c)
        <5> DEFINE s == [FreeSlot EXCEPT !.st = "provisional", !.deadline = "armed"]
        <5>1. ~s.evicting /\ s.pending_close = "none"
          BY DEF FreeSlot
        <5> QED
          BY <4>1, <5>1 DEF Accept
      <4>2. CASE Refuse(c) \/ Close(c)
        <5>1. slot' = [slot EXCEPT ![c] = FreeSlot]
          BY <4>2 DEF Refuse, Close
        <5>2. ~FreeSlot.evicting /\ FreeSlot.pending_close = "none"
          BY DEF FreeSlot
        <5> QED
          BY <5>1, <5>2
      <4> QED
        BY <3>1, <4>1, <4>2
    <3> QED
      BY <2>0, <3>2
  <2>3. CASE \E c \in Conns : Create(c) \/ CreateRefused(c) \/ MarkAuthed(c) \/ Due(c)
    <3>1. PICK c \in Conns : Create(c) \/ CreateRefused(c) \/ MarkAuthed(c) \/ Due(c)
      BY <2>3
    <3>2. CASE Create(c)
      BY <1>1, <2>0, <3>2, AdmittedSlot DEF Create, AInv
    <3>3. CASE CreateRefused(c) \/ MarkAuthed(c) \/ Due(c)
      BY <2>0, <3>3 DEF CreateRefused, MarkAuthed, Due, SlotRecords
    <3> QED
      BY <3>1, <3>2, <3>3
  <2>4. CASE \E c \in Conns : CeilingHit(c)
    BY <2>0, <2>4 DEF CeilingHit, SlotRecords
  <2>5. ASSUME NEW c \in Conns, NEW v \in Conns, CreateEvicting(c, v)
        PROVE  ~slot'[d].evicting /\ slot'[d].pending_close # "evict"
    <3>1. v # d
      BY <2>5 DEF CreateEvicting, IsVictim, Victims
    <3> QED
      BY <2>0, <2>5, <3>1 DEF CreateEvicting, Admitted, SlotRecords
  <2> QED
    BY <1>1, <2>1, <2>2, <2>3, <2>4, <2>5 DEF ANext
<1>2. AInv /\ [ANext]_avars => [Stays]_avars
  BY <1>1
<1> QED
  BY <1>2, AdmissionInvariant, PTL DEF ASpec, AuthedNotEvicted
=============================================================================
