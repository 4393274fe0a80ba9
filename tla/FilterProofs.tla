----------------------------- MODULE FilterProofs -----------------------------
(***************************************************************************)
(* What Filter leaves of a sequence, for every set of positions: the facts *)
(* that the proofs about attempts, pages and groups of devices rest on.    *)
(***************************************************************************)
EXTENDS Filter, FiniteSetTheorems, WellFoundedInduction, TLAPS

(* A set of numbers has a least one.                                       *)
LEMMA LeastOfSome ==
    ASSUME NEW T \in SUBSET Nat, T # {}
    PROVE  \E m \in T : \A x \in T : m <= x
<1> DEFINE less == {ss \in Nat \X Nat : ss[1] < ss[2]}
<1>1. IsWellFoundedOn(less, Nat)
  BY NatLessThanWellFounded DEF OpToRel
<1>2. PICK m \in T : \A x \in T : <<x, m>> \notin less
  <2> HIDE DEF less
  <2>1. QED
    BY <1>1, WFMin
<1>3. ASSUME NEW x \in T
      PROVE  m <= x
  <2>1. x \in Nat /\ m \in Nat
    OBVIOUS
  <2>2. ~ (x < m)
    BY <1>2, <2>1
  <2>3. QED
    BY <2>1, <2>2
<1>4. QED
  BY <1>3

(* The elements of a set of numbers that are not beyond m, and their       *)
(* number, step by step.                                                   *)
UpTo(S, m) == {x \in S : x <= m}

Counts(S, n, count, size) ==
    /\ count \in [0 .. n -> Nat] /\ size \in Nat
    /\ count[0] = 0 /\ count[n] = size
    /\ \A m \in 1 .. n : m \in S => count[m] = count[m - 1] + 1
    /\ \A m \in 1 .. n : m \notin S => count[m] = count[m - 1]
    /\ \A p, q \in S : p < q => count[p] < count[q]
    /\ \A m \in S : count[m] \in 1 .. size

LEMMA CountUpTo ==
    ASSUME NEW n \in Nat, NEW S \in SUBSET (1 .. n)
    PROVE  \E count : /\ Counts(S, n, count, Cardinality(S))
                      /\ \A m \in 0 .. n : count[m] = Cardinality(UpTo(S, m))
<1>1. PICK count : count = [m \in 0 .. n |-> Cardinality(UpTo(S, m))]
  OBVIOUS
<1>2. \A m \in 0 .. n : count[m] = Cardinality(UpTo(S, m))
  BY <1>1
<1>3. \A x \in S : x \in Nat /\ x \in 1 .. n /\ x \in 0 .. n
  OBVIOUS
<1>4. IsFiniteSet(S)
  <2>1. IsFiniteSet(1 .. n)
    BY FS_Interval
  <2>2. QED
    BY <2>1, FS_Subset
<1>5. \A m : UpTo(S, m) \in SUBSET S
  BY DEF UpTo
<1>6. PICK size \in Nat : size = Cardinality(S)
  BY <1>4, FS_CardinalityType
<1>7. \A m : IsFiniteSet(UpTo(S, m))
  BY <1>4, <1>5, FS_Subset
<1>8. \A m \in 0 .. n : count[m] \in Nat /\ count[m] <= size
  BY <1>2, <1>4, <1>5, <1>6, <1>7, FS_Subset, FS_CardinalityType
<1>9. count[0] = 0
  <2>1. \A x \in S : ~ (x <= 0)
    BY <1>3
  <2>2. UpTo(S, 0) = {}
    BY <2>1 DEF UpTo
  <2>3. QED
    BY <1>2, <2>2, FS_EmptySet
<1>10. count[n] = size
  <2>1. \A x \in S : x <= n
    BY <1>3
  <2>2. UpTo(S, n) = S
    BY <2>1 DEF UpTo
  <2>3. QED
    BY <1>2, <1>6, <2>2
<1>11. \A m \in 1 .. n : m \in S => count[m] = count[m - 1] + 1
  <2> SUFFICES ASSUME NEW m \in 1 .. n, m \in S
               PROVE  count[m] = count[m - 1] + 1
    OBVIOUS
  <2>1. m - 1 \in 0 .. n /\ m \in 0 .. n
    OBVIOUS
  <2>2. \A x \in S : x <= m <=> x <= m - 1 \/ x = m
    BY <1>3
  <2>3. UpTo(S, m) = UpTo(S, m - 1) \cup {m}
    BY <2>2 DEF UpTo
  <2>4. m \notin UpTo(S, m - 1)
    BY DEF UpTo
  <2>5. Cardinality(UpTo(S, m)) = Cardinality(UpTo(S, m - 1)) + 1
    BY <1>7, <2>3, <2>4, FS_AddElement
  <2>6. QED
    BY <1>2, <2>1, <2>5
<1>12. \A m \in 1 .. n : m \notin S => count[m] = count[m - 1]
  <2> SUFFICES ASSUME NEW m \in 1 .. n, m \notin S
               PROVE  count[m] = count[m - 1]
    OBVIOUS
  <2>1. m - 1 \in 0 .. n /\ m \in 0 .. n
    OBVIOUS
  <2>2. \A x \in S : x <= m <=> x <= m - 1
    <3> SUFFICES ASSUME NEW x \in S
                 PROVE  x <= m <=> x <= m - 1
      OBVIOUS
    <3>1. x # m /\ x \in Nat /\ m \in Nat
      BY <1>3
    <3>2. QED
      BY <3>1
  <2>3. UpTo(S, m) = UpTo(S, m - 1)
    BY <2>2 DEF UpTo
  <2>4. QED
    BY <1>2, <2>1, <2>3
<1>13. \A p, q \in S : p < q => count[p] < count[q]
  <2> SUFFICES ASSUME NEW p \in S, NEW q \in S, p < q
               PROVE  count[p] < count[q]
    OBVIOUS
  <2>1. \A x \in S : x <= p => x <= q
    BY <1>3
  <2>2. q <= q /\ ~ (q <= p)
    BY <1>3
  <2>3. UpTo(S, p) \cup {q} \in SUBSET UpTo(S, q) /\ q \notin UpTo(S, p)
    BY <2>1, <2>2 DEF UpTo
  <2>4. Cardinality(UpTo(S, p) \cup {q}) = Cardinality(UpTo(S, p)) + 1
    BY <1>7, <2>3, FS_AddElement
  <2>5. Cardinality(UpTo(S, p) \cup {q}) <= Cardinality(UpTo(S, q))
    BY <1>7, <2>3, FS_Subset
  <2>6. QED
    BY <1>2, <1>3, <1>8, <2>4, <2>5
<1>14. \A m \in S : count[m] \in 1 .. size
  <2> SUFFICES ASSUME NEW m \in S
               PROVE  count[m] \in 1 .. size
    OBVIOUS
  <2>1. m \in UpTo(S, m)
    BY <1>3 DEF UpTo
  <2>2. count[m] # 0
    BY <1>2, <1>3, <1>7, <2>1, FS_EmptySet
  <2>3. QED
    BY <1>3, <1>8, <2>2
<1>15. count \in [0 .. n -> Nat]
  BY <1>1, <1>2, <1>8
<1>16. Counts(S, n, count, Cardinality(S))
  BY <1>6, <1>9, <1>10, <1>11, <1>12, <1>13, <1>14, <1>15 DEF Counts
<1>17. QED
  BY <1>2, <1>16

(* Every count up to the last belongs to an element.                       *)
LEMMA CountsReach ==
    ASSUME NEW n \in Nat, NEW S \in SUBSET (1 .. n), NEW count, NEW size,
           Counts(S, n, count, size), NEW k \in 1 .. size
    PROVE  \E m \in S : count[m] = k
<1>1. PICK far : far = {m \in 0 .. n : count[m] >= k} /\ far \in SUBSET Nat
  <2>1. {m \in 0 .. n : count[m] >= k} \in SUBSET Nat
    OBVIOUS
  <2>2. QED
    BY <2>1
<1>2. n \in far
  BY <1>1 DEF Counts
<1>3. PICK m \in far : \A h \in far : m <= h
  <2>1. far # {} /\ far \in SUBSET Nat
    BY <1>1, <1>2
  <2>2. QED
    BY <2>1, LeastOfSome
<1>4. m \in 0 .. n /\ \A h \in 0 .. n : h < m => ~ (count[h] >= k)
  BY <1>1, <1>3
<1>5. m \in Nat /\ count[m] >= k /\ count[m] \in Nat /\ k \in Nat /\ k > 0
  BY <1>1, <1>4 DEF Counts
<1>6. m # 0
  BY <1>5 DEF Counts
<1>7. m \in 1 .. n /\ m - 1 \in 0 .. n /\ m - 1 < m
  BY <1>4, <1>5, <1>6
<1>8. count[m - 1] \in Nat /\ count[m - 1] < k
  <2>1. count[m - 1] \in Nat
    BY <1>7 DEF Counts
  <2>2. QED
    BY <1>4, <1>5, <1>7, <2>1
<1>9. m \in S
  BY <1>5, <1>7, <1>8 DEF Counts
<1>10. count[m] = count[m - 1] + 1
  BY <1>7, <1>9 DEF Counts
<1>11. QED
  BY <1>5, <1>8, <1>9, <1>10

(* The k-th elements are in order, and there are no others.                *)
LEMMA NthInOrder ==
    ASSUME NEW n \in Nat, NEW S \in SUBSET (1 .. n)
    PROVE  /\ Cardinality(S) \in Nat
           /\ \A k \in 1 .. Cardinality(S) : Nth(S, k) \in S
           /\ \A k, l \in 1 .. Cardinality(S) : k < l => Nth(S, k) < Nth(S, l)
           /\ \A m \in S : \E k \in 1 .. Cardinality(S) : Nth(S, k) = m
<1>1. PICK count : /\ Counts(S, n, count, Cardinality(S))
                   /\ \A m \in 0 .. n : count[m] = Cardinality(UpTo(S, m))
  BY CountUpTo
<1>2. PICK size \in Nat : size = Cardinality(S)
  BY <1>1 DEF Counts
<1>3. \A m \in S : m \in Nat /\ m \in 0 .. n
  OBVIOUS
<1>4. \A k \in 1 .. size : Nth(S, k) \in S /\ count[Nth(S, k)] = k
  <2> SUFFICES ASSUME NEW k \in 1 .. size
               PROVE  Nth(S, k) \in S /\ count[Nth(S, k)] = k
    OBVIOUS
  <2>1. \E m \in S : count[m] = k
    BY <1>1, <1>2, CountsReach
  <2>2. \E m \in S : Cardinality({x \in S : x <= m}) = k
    BY <1>1, <1>3, <2>1 DEF UpTo
  <2>3. Nth(S, k) \in S /\ Cardinality({x \in S : x <= Nth(S, k)}) = k
    BY <2>2 DEF Nth
  <2>4. QED
    BY <1>1, <1>3, <2>3 DEF UpTo
<1>5. \A p, q \in S : count[p] \in Nat /\ (p < q => count[p] < count[q])
  BY <1>1, <1>3 DEF Counts
<1>6. ASSUME NEW k \in 1 .. size, NEW l \in 1 .. size, k < l
      PROVE  Nth(S, k) < Nth(S, l)
  <2>1. PICK p \in S : p = Nth(S, k) /\ count[p] = k
    BY <1>4
  <2>2. PICK q \in S : q = Nth(S, l) /\ count[q] = l
    BY <1>4
  <2>3. p < q \/ p = q \/ q < p
    BY <1>3
  <2>4. ~ (q < p) /\ p # q
    BY <1>5, <1>6, <2>1, <2>2
  <2>5. QED
    BY <2>1, <2>2, <2>3, <2>4
<1>7. ASSUME NEW m \in S
      PROVE  \E k \in 1 .. size : Nth(S, k) = m
  <2>1. PICK k \in 1 .. size : k = count[m]
    BY <1>1, <1>2 DEF Counts
  <2>2. PICK p \in S : p = Nth(S, k) /\ count[p] = k
    BY <1>4
  <2>3. p < m \/ p = m \/ m < p
    BY <1>3
  <2>4. ~ (p < m) /\ ~ (m < p)
    BY <1>5, <2>1, <2>2
  <2>5. QED
    BY <2>2, <2>3, <2>4
<1>8. QED
  BY <1>2, <1>4, <1>6, <1>7
=============================================================================
