----------------------------- MODULE ListLemmas -----------------------------
(***************************************************************************)
(* Facts about lists without repetition, the shape of every queue of       *)
(* requests and operations in mq-proxy, that the proofs share.             *)
(***************************************************************************)
EXTENDS Integers, Sequences, SequencesExt, SequenceTheorems,
        NaturalsInduction, WellFoundedInduction, Lists, TLAPS

Nodup(s) == \A i, j \in 1 .. Len(s) : s[i] = s[j] => i = j

(* The empty list. *)
LEMMA EmptyList ==
  ASSUME NEW S
  PROVE  ToSet(<<>>) = {} /\ Nodup(<<>>) /\ <<>> \in Seq(S)
BY DEF ToSet, Nodup

(* What a list holds. *)
LEMMA ListElements ==
  ASSUME NEW S, NEW s \in Seq(S)
  PROVE  ToSet(s) \subseteq S
BY LenProperties DEF ToSet

(* Appending a new element. *)
LEMMA AppendList ==
  ASSUME NEW S, NEW s \in Seq(S), NEW e \in S, Nodup(s), e \notin ToSet(s)
  PROVE  /\ Append(s, e) \in Seq(S) /\ Nodup(Append(s, e))
         /\ ToSet(Append(s, e)) = ToSet(s) \cup {e}
         /\ Len(Append(s, e)) = Len(s) + 1
<1> DEFINE t == Append(s, e)
<1>1. /\ t \in Seq(S) /\ Len(t) = Len(s) + 1 /\ t[Len(s) + 1] = e
      /\ \A i \in 1 .. Len(s) : t[i] = s[i]
  OBVIOUS
<1>2. DOMAIN t = 1 .. Len(s) + 1 /\ DOMAIN s = 1 .. Len(s) /\ Len(s) \in Nat
  BY <1>1
<1> HIDE DEF t
<1>3. ToSet(t) = ToSet(s) \cup {e}
  BY <1>1, <1>2 DEF ToSet
<1>4. Nodup(t)
  BY <1>1, <1>2 DEF Nodup, ToSet
<1> QED
  BY <1>1, <1>3, <1>4 DEF t

(* Taking the head. *)
LEMMA TailList ==
  ASSUME NEW S, NEW s \in Seq(S), s # <<>>, Nodup(s)
  PROVE  /\ Tail(s) \in Seq(S) /\ Nodup(Tail(s))
         /\ Head(s) \in ToSet(s) /\ ToSet(Tail(s)) = ToSet(s) \ {Head(s)}
<1> DEFINE t == Tail(s)
<1>1. /\ t \in Seq(S) /\ Len(s) \in Nat \ {0} /\ Len(t) = Len(s) - 1 /\ Head(s) = s[1]
      /\ \A i \in 1 .. Len(t) : t[i] = s[i + 1]
  OBVIOUS
<1>2. DOMAIN t = 1 .. Len(t) /\ DOMAIN s = 1 .. Len(s)
  BY <1>1
<1> HIDE DEF t
<1>3. \A i \in 2 .. Len(s) : i - 1 \in 1 .. Len(t) /\ t[i - 1] = s[i] /\ s[i] # s[1]
  BY <1>1 DEF Nodup
<1>4. ToSet(t) = ToSet(s) \ {Head(s)}
  <2>1. ASSUME NEW x \in ToSet(t) PROVE x \in ToSet(s) \ {Head(s)}
    BY <1>1, <1>2 DEF ToSet, Nodup
  <2>2. ASSUME NEW x \in ToSet(s) \ {Head(s)} PROVE x \in ToSet(t)
    <3>1. PICK i \in 1 .. Len(s) : x = s[i] /\ i # 1
      BY <1>1, <1>2 DEF ToSet
    <3>2. i - 1 \in DOMAIN t /\ t[i - 1] = x
      BY <3>1, <1>1, <1>2, <1>3
    <3> QED
      BY <3>2 DEF ToSet
  <2> QED
    BY <2>1, <2>2
<1>5. Nodup(t)
  BY <1>1 DEF Nodup
<1>6. Head(s) \in ToSet(s)
  <2>1. 1 \in DOMAIN s /\ s[1] = Head(s)
    BY <1>1, <1>2
  <2> QED
    BY <2>1 DEF ToSet
<1> QED
  BY <1>1, <1>4, <1>5, <1>6 DEF t

(* Taking out the element at n. *)
LEMMA RemoveList ==
  ASSUME NEW S, NEW s \in Seq(S), Nodup(s), NEW n \in 1 .. Len(s)
  PROVE  /\ RemoveAt(s, n) \in Seq(S) /\ Nodup(RemoveAt(s, n))
         /\ ToSet(RemoveAt(s, n)) = ToSet(s) \ {s[n]}
         /\ Len(RemoveAt(s, n)) = Len(s) - 1
<1> DEFINE t == SubSeq(s, 1, n - 1) \o SubSeq(s, n + 1, Len(s))
<1>1. n \in 1 .. Len(s)
  OBVIOUS
<1>2. RemoveAt(s, n) = t
  BY DEF RemoveAt
<1>3. /\ SubSeq(s, 1, n - 1) \in Seq(S) /\ SubSeq(s, n + 1, Len(s)) \in Seq(S)
      /\ Len(SubSeq(s, 1, n - 1)) = n - 1 /\ Len(SubSeq(s, n + 1, Len(s))) = Len(s) - n
      /\ \A i \in 1 .. n - 1 : SubSeq(s, 1, n - 1)[i] = s[i]
      /\ \A i \in 1 .. Len(s) - n : SubSeq(s, n + 1, Len(s))[i] = s[n + i]
  BY <1>1
<1>4. /\ t \in Seq(S) /\ Len(t) = Len(s) - 1
      /\ \A i \in 1 .. Len(t) : t[i] = IF i < n THEN s[i] ELSE s[i + 1]
  <2> DEFINE a == SubSeq(s, 1, n - 1)
             b == SubSeq(s, n + 1, Len(s))
  <2>1. /\ a \in Seq(S) /\ b \in Seq(S) /\ n \in Nat /\ Len(s) \in Nat
        /\ Len(a) = n - 1 /\ Len(b) = Len(s) - n
        /\ \A i \in 1 .. n - 1 : a[i] = s[i]
        /\ \A i \in 1 .. Len(s) - n : b[i] = s[n + i]
    BY <1>1, <1>3
  <2> HIDE DEF a, b
  <2>2. /\ a \o b \in Seq(S) /\ Len(a \o b) = Len(a) + Len(b)
        /\ \A i \in 1 .. Len(a) + Len(b) :
             (a \o b)[i] = IF i <= Len(a) THEN a[i] ELSE b[i - Len(a)]
    BY <2>1, ConcatProperties
  <2>3. Len(a \o b) = Len(s) - 1
    BY <2>1, <2>2
  <2>4. ASSUME NEW i \in 1 .. Len(s) - 1
        PROVE  (a \o b)[i] = IF i < n THEN s[i] ELSE s[i + 1]
    <3>1. CASE i < n
      BY <3>1, <2>1, <2>2, <1>1
    <3>2. CASE ~ (i < n)
      <4>1. i - (n - 1) \in 1 .. Len(s) - n /\ n + (i - (n - 1)) = i + 1
        BY <3>2, <2>1, <1>1
      <4>2. b[i - (n - 1)] = s[i + 1]
        BY <4>1, <2>1
      <4> QED
        BY <3>2, <4>2, <2>1, <2>2, <1>1
    <3> QED
      BY <3>1, <3>2
  <2> QED
    BY <2>2, <2>3, <2>4 DEF a, b
<1> HIDE DEF t
<1>5. DOMAIN t = 1 .. Len(t) /\ DOMAIN s = 1 .. Len(s) /\ Len(s) \in Nat
  BY <1>4
<1>6. Nodup(t)
  BY <1>1, <1>4 DEF Nodup
<1>7. ASSUME NEW x \in ToSet(t) PROVE x \in ToSet(s) \ {s[n]}
  BY <1>1, <1>4, <1>5 DEF ToSet, Nodup
<1>8. ASSUME NEW x \in ToSet(s) \ {s[n]} PROVE x \in ToSet(t)
  <2>1. PICK i \in 1 .. Len(s) : x = s[i] /\ i # n
    BY <1>1, <1>5 DEF ToSet
  <2>2. CASE i < n
    <3>1. i \in 1 .. Len(t) /\ t[i] = s[i]
      BY <2>1, <2>2, <1>1, <1>4, <1>5
    <3> QED
      BY <3>1, <2>1, <1>5 DEF ToSet
  <2>3. CASE i > n
    <3>1. i - 1 \in 1 .. Len(t) /\ t[i - 1] = s[i]
      BY <2>1, <2>3, <1>1, <1>4, <1>5
    <3> QED
      BY <3>1, <2>1, <1>5 DEF ToSet
  <2> QED
    BY <2>1, <2>2, <2>3, <1>1
<1> QED
  BY <1>2, <1>4, <1>6, <1>7, <1>8

(* Cutting a list after its n first elements. *)
LEMMA CutList ==
  ASSUME NEW S, NEW s \in Seq(S), Nodup(s), NEW n \in 0 .. Len(s)
  PROVE  /\ SubSeq(s, n + 1, Len(s)) \in Seq(S) /\ Nodup(SubSeq(s, n + 1, Len(s)))
         /\ Len(SubSeq(s, n + 1, Len(s))) = Len(s) - n
         /\ ToSet(SubSeq(s, n + 1, Len(s))) = ToSet(s) \ ToSet(SubSeq(s, 1, n))
<1> DEFINE a == SubSeq(s, 1, n)
           b == SubSeq(s, n + 1, Len(s))
<1>1. /\ a \in Seq(S) /\ b \in Seq(S) /\ n \in Nat /\ Len(s) \in Nat
      /\ Len(a) = n /\ Len(b) = Len(s) - n
      /\ \A i \in 1 .. n : a[i] = s[i]
      /\ \A i \in 1 .. Len(s) - n : b[i] = s[n + i]
  OBVIOUS
<1>2. DOMAIN a = 1 .. n /\ DOMAIN b = 1 .. Len(s) - n /\ DOMAIN s = 1 .. Len(s)
  BY <1>1
<1> HIDE DEF a, b
<1>3. Nodup(b)
  BY <1>1 DEF Nodup
<1>4. ASSUME NEW x \in ToSet(b) PROVE x \in ToSet(s) \ ToSet(a)
  <2>1. PICK i \in 1 .. Len(s) - n : x = b[i]
    BY <1>2 DEF ToSet
  <2>2. n + i \in 1 .. Len(s) /\ x = s[n + i] /\ ~ (n + i \in 1 .. n)
    BY <2>1, <1>1
  <2>3. x \in ToSet(s)
    BY <2>2, <1>2 DEF ToSet
  <2>4. \A j \in 1 .. n : a[j] # x
    BY <2>2, <1>1 DEF Nodup
  <2> QED
    BY <2>3, <2>4, <1>2 DEF ToSet
<1>5. ASSUME NEW x \in ToSet(s) \ ToSet(a) PROVE x \in ToSet(b)
  <2>1. PICK i \in 1 .. Len(s) : x = s[i]
    BY <1>2 DEF ToSet
  <2>2. ~ (i \in 1 .. n)
    BY <2>1, <1>1, <1>2 DEF ToSet
  <2>3. i - n \in 1 .. Len(s) - n /\ b[i - n] = x
    BY <2>1, <2>2, <1>1
  <2> QED
    BY <2>3, <1>2 DEF ToSet
<1> QED
  BY <1>1, <1>3, <1>4, <1>5 DEF a, b

(* A set of numbers has a least one. *)
LEMMA LeastNumber ==
  ASSUME NEW T \in SUBSET Nat, T # {}
  PROVE  \E n \in T : \A m \in T : n <= m
<1> DEFINE R == OpToRel(<, Nat)
<1>1. IsWellFoundedOn(R, Nat)
  BY NatLessThanWellFounded
<1>2. \A x, y \in Nat : <<y, x>> \in R <=> y < x
  BY DEF OpToRel
<1> HIDE DEF R
<1>3. PICK x \in T : \A y \in T : ~(<<y, x>> \in R)
  BY <1>1, WFMin
<1>4. ASSUME NEW y \in T PROVE x <= y
  <2>1. x \in Nat /\ y \in Nat
    OBVIOUS
  <2>2. ~(<<y, x>> \in R)
    BY <1>3
  <2>3. ~(y < x)
    BY <1>2, <2>1, <2>2, Zenon
  <2> QED
    BY <2>1, <2>3
<1> QED
  BY <1>4

(* Counting up: the induction that the proofs about lists use, over a set  *)
(* of numbers, since the provers cannot instantiate an operator.           *)
LEMMA CountingUp ==
  ASSUME NEW N \in Nat, NEW T, 0 \in T, \A n \in 0 .. N - 1 : n \in T => n + 1 \in T
  PROVE  \A n \in 0 .. N : n \in T
<1> DEFINE B == {n \in 0 .. N : n \notin T}
<1>1. SUFFICES ASSUME B # {} PROVE FALSE
  OBVIOUS
<1>2. PICK n \in B : \A m \in B : n <= m
  <2>1. B \in SUBSET Nat
    OBVIOUS
  <2> HIDE DEF B
  <2> QED BY <1>1, <2>1, LeastNumber
<1>3. n \in 1 .. N /\ n - 1 \notin B
  BY <1>2
<1>4. n - 1 \in 0 .. N - 1 /\ n - 1 \in T
  BY <1>3
<1>5. (n - 1) + 1 \in T
  BY <1>4
<1> QED
  BY <1>2, <1>3, <1>5

(* Filtering, step by step. *)
LEMMA FilterFcn ==
  ASSUME NEW S, NEW s \in Seq(S), NEW T
  PROVE  \E f : /\ f = [i \in 0 .. Len(s) |-> IF i = 0 THEN <<>>
                           ELSE IF s[i] \in T THEN Append(f[i - 1], s[i]) ELSE f[i - 1]]
                /\ Filter(s, T) = f[Len(s)]
<1> DEFINE E(f, i) == IF i = 0 THEN <<>>
                     ELSE IF s[i] \in T THEN Append(f[i - 1], s[i]) ELSE f[i - 1]
           Ok == {n \in Nat : \E f : f = [i \in 0 .. n |-> E(f, i)]}
<1>1. 0 \in Ok
  <2> DEFINE g == [i \in 0 .. 0 |-> <<>>]
  <2>1. g = [i \in 0 .. 0 |-> E(g, i)]
    OBVIOUS
  <2> QED BY <2>1
<1>2. ASSUME NEW n \in 0 .. Len(s) - 1, n \in Ok PROVE n + 1 \in Ok
  <2>1. PICK f : f = [i \in 0 .. n |-> E(f, i)]
    BY <1>2
  <2> DEFINE g == [i \in 0 .. n + 1 |-> IF i <= n THEN f[i] ELSE
                     IF s[n + 1] \in T THEN Append(f[n], s[n + 1]) ELSE f[n]]
  <2>2. \A i \in 0 .. n : f[i] = E(f, i)
    BY <2>1
  <2>3. \A i \in 0 .. n + 1 : g[i] = E(g, i)
    <3>1. CASE n = 0
      BY <3>1, <2>2
    <3>2. ASSUME NEW i \in 0 .. n + 1 PROVE g[i] = E(g, i)
      <4>1. CASE i = 0
        BY <2>2, <4>1
      <4>2. CASE i \in 1 .. n
        <5>1. g[i] = f[i] /\ g[i - 1] = f[i - 1]
          BY <4>2
        <5>2. f[i] = E(f, i)
          BY <2>2, <4>2
        <5> QED BY <5>1, <5>2, <4>2
      <4>3. CASE i = n + 1
        <5>1. g[n] = f[n] /\ (n + 1) - 1 = n /\ n + 1 # 0
          OBVIOUS
        <5> QED BY <5>1, <4>3
      <4> QED BY <4>1, <4>2, <4>3
    <3> QED BY <3>2
  <2>4. g = [i \in 0 .. n + 1 |-> E(g, i)]
    <3>1. g = [i \in 0 .. n + 1 |-> g[i]]
      OBVIOUS
    <3> HIDE DEF g
    <3> QED BY <3>1, <2>3
  <2> HIDE DEF g
  <2>5. \E h : h = [i \in 0 .. n + 1 |-> E(h, i)]
    BY <2>4
  <2>6. n + 1 \in Nat
    OBVIOUS
  <2> QED BY <2>5, <2>6, Zenon
<1>3. Len(s) \in Ok
  <2>1. \A n \in 0 .. Len(s) - 1 : n \in Ok => n + 1 \in Ok
    BY <1>2
  <2>2. Len(s) \in Nat
    OBVIOUS
  <2> HIDE DEF Ok
  <2>3. \A n \in 0 .. Len(s) : n \in Ok
    BY <1>1, <2>1, <2>2, CountingUp
  <2> QED BY <2>2, <2>3
<1>4. \E f : f = [i \in 0 .. Len(s) |-> E(f, i)]
  BY <1>3
<1> DEFINE F == CHOOSE f : f = [i \in 0 .. Len(s) |-> E(f, i)]
<1>5. F = [i \in 0 .. Len(s) |-> E(F, i)]
  BY <1>4
<1>6. Filter(s, T) = F[Len(s)]
  BY DEF Filter
<1> QED BY <1>5, <1>6

(* What filtering keeps. *)
LEMMA FilterProperties ==
  ASSUME NEW S, NEW s \in Seq(S), NEW T
  PROVE  Filter(s, T) \in Seq(ToSet(s) \cap T) /\ Len(Filter(s, T)) <= Len(s)
<1>1. PICK f : /\ f = [i \in 0 .. Len(s) |-> IF i = 0 THEN <<>>
                        ELSE IF s[i] \in T THEN Append(f[i - 1], s[i]) ELSE f[i - 1]]
               /\ Filter(s, T) = f[Len(s)]
  BY FilterFcn
<1> DEFINE U == ToSet(s) \cap T
           Ok == {n \in Nat : f[n] \in Seq(U) /\ Len(f[n]) <= n}
<1>2. Len(s) \in Nat
  OBVIOUS
<1>3. 0 \in Ok
  BY <1>1, <1>2
<1>4. ASSUME NEW n \in 0 .. Len(s) - 1, n \in Ok PROVE n + 1 \in Ok
  <2>1. f[n + 1] = IF s[n + 1] \in T THEN Append(f[n], s[n + 1]) ELSE f[n]
    <3>1. n + 1 \in 0 .. Len(s) /\ n + 1 # 0 /\ (n + 1) - 1 = n
      BY <1>2
    <3>2. f[n + 1] = IF n + 1 = 0 THEN <<>> ELSE IF s[n + 1] \in T
                     THEN Append(f[(n + 1) - 1], s[n + 1]) ELSE f[(n + 1) - 1]
      BY <1>1, <3>1, Zenon
    <3> QED BY <3>1, <3>2
  <2>2. s[n + 1] \in S /\ n + 1 \in 1 .. Len(s)
    BY <1>2
  <2>3. s[n + 1] \in T => s[n + 1] \in U
    BY <2>2 DEF ToSet
  <2>4. f[n] \in Seq(U) /\ Len(f[n]) <= n
    BY <1>4
  <2> HIDE DEF U
  <2>5. f[n + 1] \in Seq(U) /\ Len(f[n + 1]) <= n + 1
    BY <2>1, <2>3, <2>4
  <2> QED BY <2>5
<1>5. Len(s) \in Ok
  <2>1. \A n \in 0 .. Len(s) - 1 : n \in Ok => n + 1 \in Ok
    BY <1>4
  <2> HIDE DEF Ok
  <2>2. \A n \in 0 .. Len(s) : n \in Ok
    BY <1>2, <1>3, <2>1, CountingUp
  <2> QED BY <1>2, <2>2
<1>6. Filter(s, T) \in Seq(U) /\ Len(Filter(s, T)) <= Len(s)
  BY <1>1, <1>5
<1> QED BY <1>6

=============================================================================
