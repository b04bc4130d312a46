--------------------------- MODULE SequenceLemmas ---------------------------
(***************************************************************************)
(* What the proofs need to know of sequences and of the least number of a  *)
(* set, for whatever elements.                                             *)
(***************************************************************************)
EXTENDS Sequences, SequencesExt, SequenceTheorems, WellFoundedInduction, TLAPS

(* A set of numbers with an element has a least one, which Min is.         *)
LEMMA LeastNumber ==
    ASSUME NEW T, T \subseteq Nat, T # {}
    PROVE  Min(T) \in T /\ \A k \in T : Min(T) <= k
  <1> DEFINE R == OpToRel(<, Nat)
  <1>1. \A j, k \in Nat : <<j, k>> \in R <=> j < k
    BY DEF OpToRel
  <1>2. IsWellFoundedOn(R, Nat)
    BY NatLessThanWellFounded
  <1> HIDE DEF R
  <1>3. PICK m \in T : \A k \in T : ~(<<k, m>> \in R)
    BY <1>2, WFMin
  <1>4. ASSUME NEW k \in T PROVE m <= k
    <2>1. k \in Nat /\ m \in Nat
      OBVIOUS
    <2>2. ~(k < m)
      BY <1>1, <1>3, <2>1
    <2> QED
      BY <2>1, <2>2
  <1> QED
    BY <1>4 DEF Min

(* Induction, over the set of the numbers that have the property.          *)
LEMMA AllNumbers ==
    ASSUME NEW P, 0 \in P, \A k \in Nat : k \in P => k + 1 \in P
    PROVE  \A k \in Nat : k \in P
  <1> DEFINE T == Nat \ P
  <1> SUFFICES ASSUME T # {} PROVE FALSE
    OBVIOUS
  <1>1. PICK m \in T : \A k \in T : m <= k
    <2>1. T \subseteq Nat
      OBVIOUS
    <2> HIDE DEF T
    <2> QED
      BY <2>1, LeastNumber
  <1>2. m \in Nat /\ m # 0 /\ m \notin P
    OBVIOUS
  <1>3. m - 1 \in Nat /\ m - 1 \notin T
    BY <1>1, <1>2
  <1>4. (m - 1) + 1 \in P
    BY <1>3
  <1>5. (m - 1) + 1 = m
    BY <1>2
  <1> QED
    BY <1>2, <1>4, <1>5

(* What is left of a sequence when one element is taken out.               *)
LEMMA RemoveAtElements ==
    ASSUME NEW S, NEW q \in Seq(S), NEW i \in DOMAIN q
    PROVE  /\ RemoveAt(q, i) \in Seq(S)
           /\ Len(RemoveAt(q, i)) = Len(q) - 1
           /\ DOMAIN RemoveAt(q, i) = 1..(Len(q) - 1)
           /\ \A j \in DOMAIN RemoveAt(q, i) :
                RemoveAt(q, i)[j] = q[IF j < i THEN j ELSE j + 1]
  <1> DEFINE l == SubSeq(q, 1, i - 1)
             r == SubSeq(q, i + 1, Len(q))
  <1>1. i \in 1..Len(q) /\ Len(q) \in Nat
    OBVIOUS
  <1>2. l \in Seq(S) /\ Len(l) = i - 1 /\ \A j \in 1..(i - 1) : l[j] = q[j]
    BY <1>1
  <1>3. r \in Seq(S) /\ Len(r) = Len(q) - i
        /\ \A j \in 1..(Len(q) - i) : r[j] = q[j + i]
    BY <1>1
  <1>4. RemoveAt(q, i) = l \o r
    BY DEF RemoveAt
  <1> HIDE DEF l, r
  <1>5. l \o r \in Seq(S) /\ Len(l \o r) = Len(q) - 1
    BY <1>1, <1>2, <1>3
  <1>6. ASSUME NEW j \in 1..(Len(q) - 1)
        PROVE  (l \o r)[j] = q[IF j < i THEN j ELSE j + 1]
    BY <1>1, <1>2, <1>3, SMTT(30)
  <1>7. DOMAIN (l \o r) = 1..(Len(q) - 1)
    BY <1>5
  <1> QED
    BY <1>4, <1>5, <1>6, <1>7

(* The first occurrence of an element that is there once is the last.      *)
LEMMA RemoveFirstElements ==
    ASSUME NEW S, NEW q \in Seq(S), NEW e
    PROVE  /\ RemoveFirst(q, e) \in Seq(S)
           /\ ToSet(RemoveFirst(q, e)) \subseteq ToSet(q)
           /\ ToSet(q) \ {e} \subseteq ToSet(RemoveFirst(q, e))
           /\ IsInjective(q) =>
                  /\ IsInjective(RemoveFirst(q, e))
                  /\ ToSet(RemoveFirst(q, e)) = ToSet(q) \ {e}
  <1>1. CASE \A i \in 1..Len(q) : q[i] # e
    <2>1. RemoveFirst(q, e) = q
      BY <1>1 DEF RemoveFirst
    <2>2. e \notin ToSet(q)
      BY <1>1 DEF ToSet
    <2> QED
      BY <2>1, <2>2
  <1>2. CASE \E i \in 1..Len(q) : q[i] = e
    <2> DEFINE i == Min({k \in 1..Len(q) : q[k] = e})
               r == RemoveAt(q, i)
    <2>1. i \in DOMAIN q /\ q[i] = e
      <3> DEFINE I == {k \in 1..Len(q) : q[k] = e}
      <3>1. I \subseteq Nat /\ I # {}
        BY <1>2
      <3>2. Min(I) \in I
        BY <3>1, LeastNumber
      <3> QED
        BY <3>2
    <2>2. RemoveFirst(q, e) = r
      BY <1>2 DEF RemoveFirst, SelectInSeq
    <2> HIDE DEF i
    <2>3. /\ r \in Seq(S)
          /\ DOMAIN r = 1..(Len(q) - 1)
          /\ \A j \in DOMAIN r : r[j] = q[IF j < i THEN j ELSE j + 1]
      BY <2>1, RemoveAtElements
    <2> HIDE DEF r
    <2>4. ToSet(r) \subseteq ToSet(q)
      BY <2>1, <2>3 DEF ToSet
    <2>5. ToSet(q) \ {e} \subseteq ToSet(r)
      <3>1. ASSUME NEW k \in DOMAIN q, k # i PROVE q[k] \in ToSet(r)
        <4> DEFINE j == IF k < i THEN k ELSE k - 1
        <4>1. j \in DOMAIN r /\ r[j] = q[k]
          BY <2>1, <2>3, <3>1
        <4> QED
          BY <4>1 DEF ToSet
      <3> QED
        BY <2>1, <3>1 DEF ToSet
    <2>6. ASSUME IsInjective(q)
          PROVE  IsInjective(r) /\ ToSet(r) = ToSet(q) \ {e}
      <3>1. IsInjective(r)
        BY <2>1, <2>3, <2>6 DEF IsInjective
      <3>2. e \notin ToSet(r)
        BY <2>1, <2>3, <2>6 DEF IsInjective, ToSet
      <3> QED
        BY <2>4, <2>5, <3>1, <3>2
    <2> QED
      BY <2>2, <2>3, <2>4, <2>5, <2>6
  <1> QED
    BY <1>1, <1>2
=============================================================================
