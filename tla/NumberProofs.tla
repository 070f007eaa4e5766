---------------------------- MODULE NumberProofs ----------------------------
(***************************************************************************)
(* Lemmas on numbers that the other proofs share: induction in the form of *)
(* a set that is closed under successor, which rests on the                *)
(* well-foundedness of the naturals, and the n-th element of a finite set. *)
(***************************************************************************)
EXTENDS Traversal, FiniteSetTheorems, WellFoundedInduction, TLAPS

(***************************************************************************)
(* Induction, and the element of a singleton.                              *)
(***************************************************************************)

(* A set of naturals that is not empty has a least element.                *)
LEMMA LeastNatural ==
    ASSUME NEW T, T \subseteq Nat, T # {}
    PROVE  \E m \in T : \A k \in T : m <= k
<1> DEFINE R == OpToRel(<, Nat)
<1>1. IsWellFoundedOn(R, Nat)
  BY NatLessThanWellFounded, Zenon
<1> HIDE DEF R
<1>2. PICK m \in T : \A k \in T : ~ (<<k, m>> \in R)
  BY <1>1, WFMin
<1>3. ASSUME NEW k \in T PROVE m <= k
  <2>1. ~ (<<k, m>> \in R) /\ k \in Nat /\ m \in Nat
    BY <1>2
  <2>2. ~ (k < m)
    BY <2>1 DEF R, OpToRel
  <2> QED BY <2>1, <2>2
<1> QED BY <1>2, <1>3

(* Induction: a set of naturals with 0 that is closed under successor up   *)
(* to n has every number up to n.                                          *)
LEMMA UpTo ==
    ASSUME NEW n \in Nat, NEW S, 0 \in S, \A i \in 0 .. (n - 1) : i \in S => i + 1 \in S
    PROVE  \A i \in 0 .. n : i \in S
<1> DEFINE T == {i \in 0 .. n : i \notin S}
<1>1. CASE T = {}
  BY <1>1
<1>2. CASE T # {}
  <2>1. PICK m \in T : \A k \in T : m <= k
    <3>1. T \subseteq Nat
      OBVIOUS
    <3> HIDE DEF T
    <3> QED BY <1>2, <3>1, LeastNatural
  <2>2. m \in 1 .. n /\ m \notin S
    BY <2>1
  <2>3. m - 1 \in 0 .. (n - 1) /\ m - 1 \in S /\ (m - 1) + 1 = m
    BY <2>1, <2>2
  <2> QED BY <2>2, <2>3
<1> QED BY <1>1, <1>2

(* The element of a singleton.                                             *)
LEMMA TheElement ==
    ASSUME NEW x PROVE The({x}) = x
BY DEF The

(***************************************************************************)
(* The n-th of a set of numbers.                                           *)
(***************************************************************************)

(* The elements of S below p.                                              *)
Below(S, p) == {q \in S : q < p}

(* Elements of a finite set of numbers have finitely many below them, and  *)
(* more the greater they are.                                              *)
LEMMA Ranks ==
    ASSUME NEW S, S \subseteq Nat, IsFiniteSet(S)
    PROVE  /\ \A p \in S : IsFiniteSet(Below(S, p)) /\ Cardinality(Below(S, p)) \in Nat
           /\ \A p \in S : Cardinality(Below(S, p)) < Cardinality(S)
           /\ \A p, q \in S : p < q => Cardinality(Below(S, p)) < Cardinality(Below(S, q))
           /\ Cardinality(S) \in Nat
<1>1. Cardinality(S) \in Nat
  BY FS_CardinalityType
<1>2. ASSUME NEW p \in S
      PROVE  /\ IsFiniteSet(Below(S, p)) /\ Cardinality(Below(S, p)) \in Nat
             /\ Cardinality(Below(S, p)) < Cardinality(S)
             /\ p \notin Below(S, p)
  <2>1. Below(S, p) \subseteq S /\ p \notin Below(S, p)
    BY DEF Below
  <2> HIDE DEF Below
  <2>2. IsFiniteSet(Below(S, p)) /\ Cardinality(Below(S, p)) \in Nat
    BY <2>1, FS_Subset, FS_CardinalityType
  <2>3. Cardinality(Below(S, p)) <= Cardinality(S)
        /\ (Cardinality(S) = Cardinality(Below(S, p)) => S = Below(S, p))
    BY <2>1, FS_Subset
  <2> QED BY <1>1, <2>1, <2>2, <2>3
<1>3. ASSUME NEW p \in S, NEW q \in S, p < q
      PROVE  Cardinality(Below(S, p)) < Cardinality(Below(S, q))
  <2>1. Below(S, p) \cup {p} \subseteq Below(S, q)
    <3> SUFFICES ASSUME NEW x \in Below(S, p) \cup {p} PROVE x \in Below(S, q)
      OBVIOUS
    <3>1. x \in S /\ x \in Nat /\ p \in Nat /\ q \in Nat
      BY DEF Below
    <3>2. x < p \/ x = p
      BY DEF Below
    <3>3. x < q
      BY <1>3, <3>1, <3>2
    <3> QED BY <3>1, <3>3 DEF Below
  <2>2. IsFiniteSet(Below(S, p) \cup {p})
        /\ Cardinality(Below(S, p) \cup {p}) = Cardinality(Below(S, p)) + 1
    BY <1>2, FS_AddElement
  <2>3. Cardinality(Below(S, p) \cup {p}) <= Cardinality(Below(S, q))
    BY <1>2, <2>1, FS_Subset
  <2> QED BY <1>2, <2>2, <2>3
<1> QED BY <1>1, <1>2, <1>3

(* There is an n-th element, for every n up to the number of elements.     *)
LEMMA NthExists ==
    ASSUME NEW S, S \subseteq Nat, IsFiniteSet(S), NEW n \in 1 .. Cardinality(S)
    PROVE  Nth(S, n) \in S /\ Cardinality(Below(S, Nth(S, n))) = n - 1
<1> DEFINE c == Cardinality(S)
           Ranked == {i \in 0 .. (c - 1) : \E p \in S : Cardinality(Below(S, p)) = i}
<1>1. c \in Nat /\ c > 0
  BY FS_CardinalityType
<1>2. 0 \in Ranked
  <2>1. S # {}
    BY <1>1, FS_EmptySet
  <2>2. PICK p \in S : \A k \in S : p <= k
    BY <2>1, LeastNatural
  <2>3. Below(S, p) = {}
    <3> SUFFICES ASSUME NEW x \in S, x < p PROVE FALSE
      BY DEF Below
    <3>1. x \in Nat /\ p \in Nat /\ p <= x
      BY <2>2
    <3> QED BY <3>1
  <2>4. Cardinality(Below(S, p)) = 0
    BY <2>3, FS_EmptySet
  <2> QED BY <1>1, <2>4
<1>3. ASSUME NEW i \in 0 .. ((c - 1) - 1), i \in Ranked PROVE i + 1 \in Ranked
  <2>1. PICK p \in S : Cardinality(Below(S, p)) = i
    BY <1>3
  <2> DEFINE T == {q \in S : q > p}
  <2>2. IsFiniteSet(Below(S, p) \cup {p}) /\ Cardinality(Below(S, p) \cup {p}) = i + 1
    <3>1. p \notin Below(S, p)
      BY DEF Below
    <3> QED BY <2>1, <3>1, Ranks, FS_AddElement
  <2>3. T # {}
    <3> SUFFICES ASSUME T = {} PROVE FALSE
      OBVIOUS
    <3>1. S = Below(S, p) \cup {p}
      <4>1. ASSUME NEW x \in S PROVE x < p \/ x = p
        <5>1. x \in Nat /\ p \in Nat /\ ~ (x > p)
          OBVIOUS
        <5> QED BY <5>1
      <4> QED BY <4>1 DEF Below
    <3>2. c = i + 1
      BY <2>2, <3>1
    <3> QED BY <1>1, <3>2
  <2>4. T \subseteq Nat
    OBVIOUS
  <2>5. PICK q \in T : \A k \in T : q <= k
    <3> HIDE DEF T
    <3> QED BY <2>3, <2>4, LeastNatural
  <2>6. Below(S, q) = Below(S, p) \cup {p}
    <3>1. ASSUME NEW x \in S PROVE x < q <=> x < p \/ x = p
      <4>1. x \in Nat /\ p \in Nat /\ q \in Nat /\ q > p /\ (x > p => q <= x)
        BY <2>5
      <4> QED BY <4>1
    <3> QED BY <3>1 DEF Below
  <2>7. Cardinality(Below(S, q)) = i + 1 /\ q \in S
    BY <2>2, <2>5, <2>6
  <2> QED BY <1>1, <2>7
<1>4. n - 1 \in Ranked
  <2>1. \A i \in 0 .. (c - 1) : i \in Ranked
    <3> HIDE DEF Ranked, c
    <3>1. c - 1 \in Nat
      BY <1>1
    <3> QED BY <1>2, <1>3, <3>1, UpTo
  <2> QED BY <1>1, <2>1
<1>5. \E p \in S : Cardinality(Below(S, p)) = n - 1
  BY <1>4
<1>6. Nth(S, n) = CHOOSE p \in S : Cardinality(Below(S, p)) = n - 1
  BY Zenon DEF Nth, Below
<1> HIDE DEF Ranked, c
<1> QED BY <1>5, <1>6

(* The n-th elements are in order.                                         *)
LEMMA NthOrder ==
    ASSUME NEW S, S \subseteq Nat, IsFiniteSet(S), NEW m \in 1 .. Cardinality(S),
           NEW n \in 1 .. Cardinality(S), m < n
    PROVE  Nth(S, m) < Nth(S, n)
<1>1. /\ Nth(S, m) \in S /\ Cardinality(Below(S, Nth(S, m))) = m - 1
      /\ Nth(S, n) \in S /\ Cardinality(Below(S, Nth(S, n))) = n - 1
  BY NthExists
<1>2. PICK p \in S, q \in S : p = Nth(S, m) /\ q = Nth(S, n)
  BY <1>1
<1>3. Cardinality(Below(S, p)) < Cardinality(Below(S, q)) /\ p \in Nat /\ q \in Nat
  BY <1>1, <1>2, FS_CardinalityType
<1>4. ~ (q < p) /\ p # q
  <2>1. PICK i \in Nat, k \in Nat : /\ i = Cardinality(Below(S, p)) /\ k = Cardinality(Below(S, q))
                                    /\ i < k /\ (q < p => k < i)
    BY <1>3, Ranks
  <2> QED BY <2>1
<1> QED BY <1>2, <1>3, <1>4

(* An element with n - 1 below it is the n-th.                             *)
LEMMA NthIs ==
    ASSUME NEW S, S \subseteq Nat, IsFiniteSet(S), NEW p \in S, NEW n \in 1 .. Cardinality(S),
           Cardinality(Below(S, p)) = n - 1
    PROVE  Nth(S, n) = p
<1>1. PICK q \in S : q = Nth(S, n) /\ Cardinality(Below(S, q)) = n - 1
  BY NthExists
<1>2. ~ (q < p) /\ ~ (p < q)
  <2>1. PICK i \in Nat : /\ i = Cardinality(Below(S, p)) /\ i = Cardinality(Below(S, q))
                         /\ (q < p => i < i) /\ (p < q => i < i)
    BY <1>1, Ranks
  <2> QED BY <2>1
<1>3. p \in Nat /\ q \in Nat
  OBVIOUS
<1> QED BY <1>1, <1>2, <1>3

(* The greatest element is the last.                                       *)
LEMMA NthLast ==
    ASSUME NEW S, S \subseteq Nat, IsFiniteSet(S), NEW p \in S, \A q \in S : q <= p
    PROVE  Cardinality(S) \in Nat /\ Cardinality(S) > 0 /\ Nth(S, Cardinality(S)) = p
<1>1. S = Below(S, p) \cup {p} /\ p \notin Below(S, p)
  <2>1. ASSUME NEW x \in S PROVE x < p \/ x = p
    <3>1. x \in Nat /\ p \in Nat /\ x <= p
      OBVIOUS
    <3> QED BY <3>1
  <2>2. ~ (p < p)
    OBVIOUS
  <2> QED BY <2>1, <2>2 DEF Below
<1>2. IsFiniteSet(Below(S, p)) /\ Cardinality(Below(S, p)) \in Nat /\ Cardinality(S) \in Nat
  BY Ranks
<1>3. Cardinality(S) = Cardinality(Below(S, p)) + 1
  <2>1. Cardinality(Below(S, p) \cup {p}) = Cardinality(Below(S, p)) + 1
    BY <1>1, <1>2, FS_AddElement
  <2> QED BY <1>1, <2>1
<1>4. PICK c \in Nat : c = Cardinality(S)
  BY <1>2
<1>5. c \in 1 .. Cardinality(S) /\ Cardinality(Below(S, p)) = c - 1
  BY <1>2, <1>3, <1>4
<1>6. Nth(S, c) = p
  BY <1>5, NthIs
<1> QED BY <1>4, <1>5, <1>6
=============================================================================
