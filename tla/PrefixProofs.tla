---------------------------- MODULE PrefixProofs ----------------------------
(***************************************************************************)
(* Proofs about the two ends of a prefix: Cidr, which makes the prefixes   *)
(* of an export out of the stored addresses, and PolicyRouter, which puts  *)
(* them into the kernel.                                                   *)
(*                                                                         *)
(* Cidr: for all widths of the addresses and of an int, all addresses and  *)
(* all settings.  The walk of the tree is by height, so what it returns    *)
(* is proved by induction on the height, and the induction is made from    *)
(* the least counterexample (Induction below).  Good says what one call    *)
(* returns, WalkGood that the walk from the root returns it, and CidrInv   *)
(* that an export still has that shape when the cache has grown.           *)
(*                                                                         *)
(* PolicyRouter: for all sets of prefixes, all lists and all combinations  *)
(* of backends and faults.                                                 *)
(***************************************************************************)
EXTENDS PolicyRouter, Cidr, SequenceTheorems, FiniteSetTheorems, TLAPS

-----------------------------------------------------------------------------
(* Induction over the natural numbers.                                     *)

\* A set of naturals that is not empty has a least element.
LEMMA LeastOf ==
    ASSUME NEW S, S \subseteq Nat, S # {}
    PROVE  \E m \in S : \A n \in S : m <= n
<1> DEFINE R == OpToRel(<, Nat)
<1>1. IsWellFoundedOn(R, Nat)
  BY NatLessThanWellFounded, Zenon
<1>2. \A m, n \in Nat : <<m, n>> \in R <=> m < n
  BY DEF OpToRel
<1> HIDE DEF R
<1>3. PICK m \in S : \A n \in S : ~(<<n, m>> \in R)
  BY <1>1, WFMin
<1>4. ASSUME NEW n \in S PROVE m <= n
  <2>1. m \in Nat /\ n \in Nat /\ ~(<<n, m>> \in R)
    BY <1>3
  <2>2. ~(n < m)
    BY <1>2, <2>1
  <2>3. QED
    BY <2>1, <2>2
<1>5. QED
  BY <1>4

\* A set of naturals that has 0, and every successor of what it has, has all:
\* the least number outside of it would follow one inside.
LEMMA Induction ==
    ASSUME NEW S, 0 \in S, \A n \in Nat : n \in S => n + 1 \in S
    PROVE  Nat \subseteq S
<1> DEFINE T == Nat \ S
<1>1. SUFFICES ASSUME T # {} PROVE FALSE
  OBVIOUS
<1>2. T \subseteq Nat
  OBVIOUS
<1>3. PICK n \in T : \A m \in T : n <= m
  <2> HIDE DEF T
  <2>1. QED
    BY <1>1, <1>2, LeastOf
<1>4. n \in Nat /\ n # 0
  OBVIOUS
<1>5. n - 1 \in Nat /\ ~(n <= n - 1) /\ (n - 1) + 1 = n
  BY <1>4
<1>6. n - 1 \in S
  BY <1>3, <1>5
<1>7. QED
  BY <1>4, <1>5, <1>6

\* A solution of the equation that defines Pow2, up to k.
PowUpTo(u, k) ==
  u \in [0 .. k -> Nat] /\ u[0] = 1 /\ \A i \in 0 .. k - 1 : u[i + 1] = 2 * u[i]

\* There is one for every k.
LEMMA PowUpToExists == ASSUME NEW k \in Nat PROVE \E u : PowUpTo(u, k)
<1> DEFINE S == {m \in Nat : \E u : PowUpTo(u, m)}
<1>1. 0 \in S
  <2> DEFINE g == [i \in 0 .. 0 |-> 1]
  <2>1. PowUpTo(g, 0)
    BY DEF PowUpTo
  <2>2. QED
    BY <2>1
<1>2. ASSUME NEW m \in Nat, m \in S PROVE m + 1 \in S
  <2>1. PICK u : PowUpTo(u, m)
    BY <1>2
  <2> DEFINE g == [i \in 0 .. m + 1 |-> IF i = m + 1 THEN 2 * u[m] ELSE u[i]]
  <2>2. u \in [0 .. m -> Nat] /\ u[m] \in Nat /\ 2 * u[m] \in Nat
    BY <2>1 DEF PowUpTo
  <2>3. g \in [0 .. m + 1 -> Nat] /\ g[0] = 1
    BY <2>1, <2>2 DEF PowUpTo
  <2>4. ASSUME NEW i \in 0 .. m PROVE g[i + 1] = 2 * g[i]
    BY <2>1, <2>2 DEF PowUpTo
  <2>5. PowUpTo(g, m + 1)
    <3> HIDE DEF g
    <3>1. QED
      BY <2>3, <2>4 DEF PowUpTo
  <2>6. QED
    BY <2>5
<1> HIDE DEF S
<1>3. k \in S
  BY <1>1, <1>2, Induction
<1>4. QED
  BY <1>3 DEF S

\* Any two agree as far as both go.
LEMMA PowUpToUnique ==
  ASSUME NEW j \in Nat, NEW k \in Nat, NEW u, PowUpTo(u, j), NEW v, PowUpTo(v, k)
  PROVE  \A i \in Nat : i <= j /\ i <= k => u[i] = v[i]
<1> DEFINE S == {i \in Nat : i <= j /\ i <= k => u[i] = v[i]}
<1>1. 0 \in S
  BY DEF PowUpTo
<1>2. ASSUME NEW i \in Nat, i \in S PROVE i + 1 \in S
  BY <1>2 DEF PowUpTo
<1> HIDE DEF S
<1>3. Nat \subseteq S
  BY <1>1, <1>2, Induction
<1>4. QED
  BY <1>3 DEF S

\* Pow2 satisfies its equation.
LEMMA Pow2Def ==
  /\ Pow2 \in [Nat -> Nat]
  /\ Pow2[0] = 1
  /\ \A n \in Nat : Pow2[n + 1] = 2 * Pow2[n]
<1> DEFINE U(n) == CHOOSE u : PowUpTo(u, n)
           g == [n \in Nat |-> U(n)[n]]
<1>1. ASSUME NEW n \in Nat PROVE PowUpTo(U(n), n)
  BY PowUpToExists
<1>2. ASSUME NEW n \in Nat
      PROVE  /\ U(n)[n] \in Nat /\ U(0)[0] = 1
             /\ U(n + 1)[n + 1] = 2 * U(n)[n]
  <2>0. n + 1 \in Nat
    OBVIOUS
  <2>1. PowUpTo(U(n), n) /\ PowUpTo(U(n + 1), n + 1) /\ PowUpTo(U(0), 0)
    BY <1>1, <2>0
  <2> HIDE DEF U
  <2>2. U(n + 1)[n] = U(n)[n]
    BY <2>0, <2>1, PowUpToUnique
  <2>3. QED
    BY <2>1, <2>2 DEF PowUpTo
<1> HIDE DEF U
<1>3. g = [n \in Nat |-> IF n = 0 THEN 1 ELSE 2 * g[n - 1]]
  <2>1. ASSUME NEW n \in Nat PROVE g[n] = IF n = 0 THEN 1 ELSE 2 * g[n - 1]
    <3>1. CASE n = 0
      BY <1>2, <3>1
    <3>2. CASE n # 0
      <4>1. n - 1 \in Nat /\ (n - 1) + 1 = n
        BY <3>2
      <4>2. QED
        BY <1>2, <3>2, <4>1
    <3>3. QED
      BY <3>1, <3>2
  <2>2. QED
    BY <2>1
<1> HIDE DEF g
<1>4. Pow2 = [n \in Nat |-> IF n = 0 THEN 1 ELSE 2 * Pow2[n - 1]]
  BY <1>3 DEF Pow2
<1>5. Pow2[0] = 1 /\ \A n \in Nat : Pow2[n + 1] = 2 * Pow2[n]
  BY <1>4
<1> DEFINE S == {n \in Nat : Pow2[n] \in Nat}
<1>6. 0 \in S
  BY <1>5
<1>7. ASSUME NEW n \in Nat, n \in S PROVE n + 1 \in S
  BY <1>5, <1>7
<1> HIDE DEF S
<1>8. Nat \subseteq S
  BY <1>6, <1>7, Induction
<1>9. QED
  BY <1>4, <1>5, <1>8 DEF S

\* Powers are positive.
LEMMA Pow2Positive == ASSUME NEW n \in Nat PROVE Pow2[n] \in Nat /\ Pow2[n] >= 1
<1> DEFINE S == {m \in Nat : Pow2[m] >= 1}
<1>1. 0 \in S
  BY Pow2Def
<1>2. ASSUME NEW m \in Nat, m \in S PROVE m + 1 \in S
  BY <1>2, Pow2Def
<1> HIDE DEF S
<1>3. n \in S
  BY <1>1, <1>2, Induction
<1>4. QED
  BY <1>3, Pow2Def DEF S

\* The sum of the exponents is the product of the powers.
LEMMA Pow2Sum == ASSUME NEW a \in Nat, NEW b \in Nat PROVE Pow2[a + b] = Pow2[a] * Pow2[b]
<1> DEFINE S == {m \in Nat : Pow2[a + m] = Pow2[a] * Pow2[m]}
<1>1. 0 \in S
  BY Pow2Def
<1>2. ASSUME NEW m \in Nat, m \in S PROVE m + 1 \in S
  <2>1. Pow2[a + m] = Pow2[a] * Pow2[m]
    BY <1>2
  <2>2. Pow2[(a + m) + 1] = 2 * Pow2[a + m] /\ Pow2[m + 1] = 2 * Pow2[m]
    BY Pow2Def
  <2>3. Pow2[a] \in Nat /\ Pow2[m] \in Nat /\ a + (m + 1) = (a + m) + 1
    BY Pow2Def
  <2>4. \A x, y \in Nat : 2 * (x * y) = x * (2 * y)
    OBVIOUS
  <2>5. QED
    BY <2>1, <2>2, <2>3, <2>4
<1> HIDE DEF S
<1>3. b \in S
  BY <1>1, <1>2, Induction
<1>4. QED
  BY <1>3 DEF S

\* A larger exponent gives a larger power.
LEMMA Pow2Grows ==
  ASSUME NEW a \in Nat, NEW b \in Nat, a < b
  PROVE  2 * Pow2[a] <= Pow2[b] /\ Pow2[a] < Pow2[b]
<1> DEFINE S == {m \in Nat : 2 * Pow2[a] <= Pow2[(a + 1) + m]}
<1>1. 0 \in S
  BY Pow2Def
<1>2. ASSUME NEW m \in Nat, m \in S PROVE m + 1 \in S
  <2>1. (a + 1) + m \in Nat /\ (a + 1) + (m + 1) = ((a + 1) + m) + 1
    OBVIOUS
  <2>2. Pow2[((a + 1) + m) + 1] = 2 * Pow2[(a + 1) + m]
    BY <2>1, Pow2Def
  <2>3. Pow2[a] \in Nat /\ Pow2[(a + 1) + m] \in Nat
    BY <2>1, Pow2Def
  <2>4. QED
    BY <1>2, <2>1, <2>2, <2>3
<1> HIDE DEF S
<1>3. b - (a + 1) \in Nat /\ (a + 1) + (b - (a + 1)) = b
  OBVIOUS
<1>4. b - (a + 1) \in S
  BY <1>1, <1>2, <1>3, Induction
<1>5. QED
  BY <1>3, <1>4, Pow2Positive DEF S

-----------------------------------------------------------------------------
(* Nodes of the tree: a node with h bits below it whose first address is b *)
(* stands for the addresses b .. b + 2^h - 1.                              *)

\* Node (g, a) is node (h, b) or one of those below it.
Under(g, a, h, b) ==
  /\ g \in 0 .. h /\ a \in Nat
  /\ \E k \in Nat : a = b + k * Pow2[g]
  /\ a + Pow2[g] <= b + Pow2[h]

\* A node is under itself, and no other with as many bits is.
LEMMA UnderSelf ==
  ASSUME NEW h \in Nat, NEW b \in Nat
  PROVE  Under(h, b, h, b) /\ \A a : Under(h, a, h, b) => a = b
<1>1. Pow2[h] \in Nat /\ Pow2[h] >= 1
  BY Pow2Positive
<1> DEFINE P == Pow2[h]
<1> HIDE DEF P
<1>2. b = b + 0 * P
  BY <1>1 DEF P
<1>3. Under(h, b, h, b)
  BY <1>1, <1>2 DEF Under, P
<1>4. ASSUME NEW a, Under(h, a, h, b) PROVE a = b
  <2>1. PICK k \in Nat : a = b + k * P
    BY <1>4 DEF Under, P
  <2>2. k * P \in Nat
    BY <1>1 DEF P
  <2>3. a + P <= b + P
    BY <1>4 DEF Under, P
  <2>4. QED
    BY <1>1, <2>1, <2>2, <2>3 DEF P
<1>5. QED
  BY <1>3, <1>4

\* How many nodes of g bits fit into one of h.
LEMMA Fits == ASSUME NEW g \in Nat, NEW h \in Nat, g <= h
              PROVE  \E m \in Nat : Pow2[h] = m * Pow2[g]
<1>1. h - g \in Nat /\ (h - g) + g = h
  OBVIOUS
<1>2. Pow2[h] = Pow2[h - g] * Pow2[g] /\ Pow2[h - g] \in Nat
  BY <1>1, Pow2Sum, Pow2Positive
<1>3. QED
  BY <1>2

\* What is under a half is under the whole.
LEMMA UnderHalf ==
  ASSUME NEW h \in Nat, NEW b \in Nat, NEW g, NEW a,
         Under(g, a, h, b) \/ Under(g, a, h, b + Pow2[h])
  PROVE  Under(g, a, h + 1, b)
<1>1. g \in Nat /\ g <= h /\ a \in Nat /\ g \in 0 .. h + 1
  BY DEF Under
<1>2. /\ Pow2[h] \in Nat /\ Pow2[g] \in Nat
      /\ Pow2[h + 1] = 2 * Pow2[h]
  BY <1>1, Pow2Def
<1> DEFINE P == Pow2[g]
           Q == Pow2[h]
<1>3. CASE Under(g, a, h, b)
  BY <1>1, <1>2, <1>3 DEF Under
<1>4. CASE Under(g, a, h, b + Pow2[h])
  <2>1. PICK k \in Nat : a = (b + Q) + k * P
    BY <1>4 DEF Under
  <2>2. PICK m \in Nat : Q = m * P
    BY <1>1, Fits
  <2>3. a + P <= (b + Q) + Q
    BY <1>4 DEF Under
  <2>4. Q \in Nat /\ P \in Nat
    BY <1>2
  <2> HIDE DEF P, Q
  <2>5. m * P + k * P = (m + k) * P /\ m * P \in Nat /\ k * P \in Nat /\ m + k \in Nat
    BY <2>4
  <2>6. a = b + (m + k) * P
    BY <2>1, <2>2, <2>4, <2>5
  <2>7. a + P <= b + Pow2[h + 1]
    BY <1>1, <1>2, <2>3, <2>4 DEF Q
  <2>8. QED
    BY <1>1, <2>5, <2>6, <2>7 DEF Under, P
<1>5. QED
  BY <1>3, <1>4

\* What is under the whole and is not the whole is under a half.
LEMMA UnderSplit ==
  ASSUME NEW h \in Nat, NEW b \in Nat, NEW g, NEW a, Under(g, a, h + 1, b), g # h + 1
  PROVE  Under(g, a, h, b) \/ Under(g, a, h, b + Pow2[h])
<1>1. g \in Nat /\ g <= h /\ a \in Nat /\ g \in 0 .. h
  BY DEF Under
<1>2. /\ Pow2[h] \in Nat /\ Pow2[g] \in Nat
      /\ Pow2[h + 1] = 2 * Pow2[h]
  BY <1>1, Pow2Def
<1> DEFINE P == Pow2[g]
           Q == Pow2[h]
<1>3. PICK k \in Nat : a = b + k * P
  BY DEF Under
<1>4. PICK m \in Nat : Q = m * P
  BY <1>1, Fits
<1>5. a + P <= b + 2 * Q
  BY <1>2 DEF Under
<1>6. Q \in Nat /\ P \in Nat
  BY <1>2
<1> HIDE DEF P, Q
<1>7. CASE k < m
  <2>1. k + 1 <= m /\ (k + 1) * P <= m * P /\ (k + 1) * P = k * P + P /\ k * P \in Nat
    BY <1>6, <1>7
  <2>2. a + P <= b + Q
    BY <1>3, <1>4, <1>6, <2>1
  <2>3. QED
    BY <1>1, <1>3, <2>2 DEF Under, P, Q
<1>8. CASE k >= m
  <2>1. k - m \in Nat /\ (k - m) * P = k * P - m * P /\ k * P \in Nat /\ m * P \in Nat
    BY <1>6, <1>8
  <2>2. a = (b + Q) + (k - m) * P
    BY <1>3, <1>4, <1>6, <2>1
  <2>3. a + P <= (b + Q) + Q
    BY <1>1, <1>5, <1>6
  <2>4. QED
    BY <1>1, <2>1, <2>2, <2>3 DEF Under, P, Q
<1>9. QED
  BY <1>7, <1>8

-----------------------------------------------------------------------------
(* The addresses that a node holds, and when it is merged.                 *)

\* Both families have at least one bit.
LEMMA BitsType ==
  Families = {"v4", "v6"} /\ \A f \in Families : Bits[f] \in Nat \ {0}
  BY WidthAssumption DEF Families, Bits

\* The stored addresses of the node (h, b).
Held(nums, h, b) == nums \cap (b .. b + Pow2[h] - 1)

\* A node holds what its halves hold, and they hold nothing in common.
LEMMA HeldSplit ==
  ASSUME NEW nums, nums \subseteq Nat, NEW h \in Nat, NEW b \in Nat
  PROVE  /\ Held(nums, h + 1, b) = Held(nums, h, b) \cup Held(nums, h, b + Pow2[h])
         /\ Held(nums, h, b) \cap Held(nums, h, b + Pow2[h]) = {}
<1>1. Pow2[h] \in Nat /\ Pow2[h] >= 1 /\ Pow2[h + 1] = 2 * Pow2[h]
  BY Pow2Def, Pow2Positive
<1>2. QED
  BY <1>1 DEF Held

\* The addresses that a node holds can be counted, and are no more than those
\* it stands for.
LEMMA HeldCount ==
  ASSUME NEW nums, nums \subseteq Nat, IsFiniteSet(nums), NEW h \in Nat, NEW b \in Nat
  PROVE  /\ IsFiniteSet(Held(nums, h, b))
         /\ Cardinality(Held(nums, h, b)) \in Nat
         /\ Cardinality(Held(nums, h, b)) = 0 <=> Held(nums, h, b) = {}
         /\ Cardinality(Held(nums, h, b)) <= Pow2[h]
<1> DEFINE I == b .. b + Pow2[h] - 1
           H == Held(nums, h, b)
<1>1. Pow2[h] \in Nat /\ Pow2[h] >= 1
  BY Pow2Positive
<1>2. IsFiniteSet(I) /\ Cardinality(I) = Pow2[h]
  <2>1. b \in Int /\ b + Pow2[h] - 1 \in Int /\ ~(b > b + Pow2[h] - 1)
        /\ (b + Pow2[h] - 1) - b + 1 = Pow2[h]
    BY <1>1
  <2>2. QED
    BY <2>1, FS_Interval
<1>3. H \subseteq I
  BY DEF Held
<1> HIDE DEF I, H
<1>4. IsFiniteSet(H) /\ Cardinality(H) <= Cardinality(I)
  BY <1>2, <1>3, FS_Subset
<1>5. Cardinality(H) \in Nat /\ (Cardinality(H) = 0 <=> H = {})
  BY <1>4, FS_CardinalityType, FS_EmptySet
<1>6. QED
  BY <1>2, <1>4, <1>5 DEF H

\* The shares of the four levels, in quarters.
Shares == {-4, 2, 3, 4}

\* The test of the ratio, for h bits: an int of IntBits bits decides.
Enough(h, count, t) ==
  \/ h >= IntBits
  \/ t < 0
  \/ h < IntBits - 1 /\ 4 * count >= t * Pow2[h]

\* That is what the division and the comparison in floating point come to.
LEMMA RatioIsEnough ==
  ASSUME NEW h \in Nat, NEW count \in Nat, count >= 1, count <= Pow2[h], NEW t \in Shares
  PROVE  RatioReaches(count, Shifted(h), t) <=> Enough(h, count, t)
<1>1. Pow2[h] \in Nat /\ Pow2[h] >= 1 /\ IntBits \in Nat \ {0}
  BY Pow2Positive, WidthAssumption
<1> DEFINE P == Pow2[h]
<1> HIDE DEF P
<1>2. CASE h >= IntBits
  <2>1. Shifted(h) = 0
    BY <1>1, <1>2 DEF Shifted
  <2>2. QED
    BY <1>2, <2>1 DEF RatioReaches, Enough
<1>3. CASE h = IntBits - 1
  <2>1. Shifted(h) = -P /\ -P < 0 /\ P \in Nat
    BY <1>1, <1>3 DEF Shifted, P
  <2>2. RatioReaches(count, -P, t) <=> 4 * count <= t * (-P)
    BY <2>1 DEF RatioReaches
  <2>3. CASE t = -4
    <3>1. t * (-P) = 4 * P /\ 4 * count <= 4 * P
      BY <2>1, <2>3 DEF P
    <3>2. QED
      BY <2>1, <2>2, <2>3, <3>1 DEF Enough
  <2>4. CASE t # -4
    <3>1. t \in {2, 3, 4} /\ t * (-P) < 0
      BY <2>1, <2>4 DEF Shares
    <3>2. ~(4 * count <= t * (-P))
      BY <2>1, <3>1
    <3>3. ~Enough(h, count, t)
      BY <1>1, <1>3, <3>1 DEF Enough
    <3>4. QED
      BY <2>1, <2>2, <3>2, <3>3
  <2>5. QED
    BY <2>3, <2>4
<1>4. CASE h < IntBits - 1
  <2>1. Shifted(h) = P /\ P > 0 /\ P \in Nat /\ P # 0 /\ ~(P < 0)
    BY <1>1, <1>4 DEF Shifted, P
  <2>2. RatioReaches(count, P, t) <=> 4 * count >= t * P
    BY <2>1, Zenon DEF RatioReaches
  <2>3. t < 0 => 4 * count >= t * P
    BY <2>1 DEF Shares
  <2>4. QED
    BY <1>1, <1>4, <2>1, <2>2, <2>3 DEF Enough, P
<1>5. QED
  BY <1>1, <1>2, <1>3, <1>4

\* The walk merges node (h, b) of family f.
Mergeable(f, nums, t, c, h, b) ==
  /\ h \in 1 .. Bits[f] - 1 /\ Bits[f] - h >= c
  /\ Held(nums, h - 1, b) # {} /\ Held(nums, h - 1, b + Pow2[h - 1]) # {}
  /\ Enough(h, Cardinality(Held(nums, h, b)), t)

\* The prefixes of the two halves of a node.
Halves(deeper, b, g) == deeper[b] \o deeper[b + Pow2[g]]

\* What one call returns.
Returned(f, nums, t, c, h, b, deeper) ==
  IF Held(nums, h, b) = {} THEN << >>
  ELSE IF h = 0 \/ Mergeable(f, nums, t, c, h, b) THEN <<Prefix(f, Bits[f] - h, b)>>
  ELSE Halves(deeper, b, h - 1)

\* That is what the code computes.
LEMMA CollectedIs ==
  ASSUME NEW f \in Families, NEW nums, nums \subseteq Nat, IsFiniteSet(nums),
         NEW t \in Shares, NEW c \in Int, NEW h \in 0 .. Bits[f], NEW b \in Nat, NEW deeper
  PROVE  Collected(f, nums, t, c, Bits[f] - h, b, deeper) = Returned(f, nums, t, c, h, b, deeper)
<1>1. Bits[f] \in Nat \ {0} /\ h \in Nat
  BY BitsType
<1>2. countLeaves(f, nums, Bits[f] - h, b) = Cardinality(Held(nums, h, b))
  <2>1. Bits[f] - (Bits[f] - h) = h
    BY <1>1
  <2>2. QED
    BY <2>1 DEF countLeaves, Held, Block, Size
<1>3. /\ IsFiniteSet(Held(nums, h, b)) /\ Cardinality(Held(nums, h, b)) \in Nat
      /\ Cardinality(Held(nums, h, b)) = 0 <=> Held(nums, h, b) = {}
      /\ Cardinality(Held(nums, h, b)) <= Pow2[h]
  BY <1>1, HeldCount
<1>4. CASE h = 0
  <2>1. Bits[f] - h = Bits[f]
    BY <1>1, <1>4
  <2>2. QED
    BY <1>2, <1>3, <1>4, <2>1 DEF Collected, Returned
<1>5. CASE h # 0
  <2> DEFINE g == h - 1
             m == b + Pow2[g]
             A == Held(nums, g, b)
             B == Held(nums, g, m)
  <2>1. g \in Nat /\ g + 1 = h /\ Bits[f] - h # Bits[f] /\ Bits[f] - ((Bits[f] - h) + 1) = g
    BY <1>1, <1>5
  <2>2. Pow2[g] \in Nat /\ m \in Nat
    BY <2>1, Pow2Positive
  <2>3. Size(f, (Bits[f] - h) + 1) = Pow2[g]
    BY <2>1 DEF Size
  <2>4. /\ countLeaves(f, nums, (Bits[f] - h) + 1, b) = Cardinality(A)
        /\ countLeaves(f, nums, (Bits[f] - h) + 1, m) = Cardinality(B)
    BY <2>3 DEF countLeaves, Held, Block
  <2>5. Held(nums, h, b) = A \cup B /\ A \cap B = {}
    <3>1. g + 1 = h /\ g \in Nat
      BY <2>1
    <3> HIDE DEF g
    <3>2. /\ Held(nums, g + 1, b) = Held(nums, g, b) \cup Held(nums, g, b + Pow2[g])
          /\ Held(nums, g, b) \cap Held(nums, g, b + Pow2[g]) = {}
      BY <3>1, HeldSplit
    <3>3. QED
      BY <3>1, <3>2
  <2>6. /\ IsFiniteSet(A) /\ Cardinality(A) \in Nat /\ (Cardinality(A) = 0 <=> A = {})
        /\ IsFiniteSet(B) /\ Cardinality(B) \in Nat /\ (Cardinality(B) = 0 <=> B = {})
    <3> HIDE DEF g, m
    <3>1. QED
      BY <2>1, <2>2, HeldCount
  <2> HIDE DEF A, B
  <2>7. Cardinality(A) + Cardinality(B) = Cardinality(Held(nums, h, b))
    <3>1. Cardinality(A \cup B) = Cardinality(A) + Cardinality(B) - Cardinality(A \cap B)
      BY <2>6, FS_Union
    <3>2. Cardinality(A \cap B) = 0
      BY <2>5, FS_EmptySet
    <3>3. QED
      BY <2>5, <2>6, <3>1, <3>2
  <2>8. /\ Cardinality(A) > 0 /\ Cardinality(B) > 0
        /\ canMerge(f, Bits[f] - h, Cardinality(A) + Cardinality(B), t, c)
        <=> Mergeable(f, nums, t, c, h, b)
    <3>1. CASE A = {} \/ B = {}
      BY <2>6, <3>1 DEF Mergeable, A, B
    <3>2. CASE A # {} /\ B # {}
      <4>1. Cardinality(A) > 0 /\ Cardinality(B) > 0
        BY <2>6, <3>2
      <4>2. Cardinality(Held(nums, h, b)) >= 1
        BY <2>6, <2>7, <4>1
      <4>3. Bits[f] - (Bits[f] - h) = h
        BY <1>1
      <4>4. RatioReaches(Cardinality(Held(nums, h, b)), Shifted(h), t)
              <=> Enough(h, Cardinality(Held(nums, h, b)), t)
        BY <1>1, <1>3, <4>2, RatioIsEnough
      <4>5. Bits[f] - h > 0 <=> h \in 1 .. Bits[f] - 1
        BY <1>1, <1>5
      <4>6. QED
        BY <2>7, <3>2, <4>1, <4>3, <4>4, <4>5 DEF canMerge, Mergeable, A, B
    <3>3. QED
      BY <3>1, <3>2
  <2>9. QED
    BY <1>2, <1>3, <1>5, <2>1, <2>3, <2>4, <2>8 DEF Collected, Merged, Halves, Returned
<1>6. QED
  BY <1>4, <1>5

-----------------------------------------------------------------------------
(* The walk.                                                               *)

\* The equation that defines what the calls return, up to height m.
WalkedUpTo(u, f, nums, t, c, m) ==
  u = [h \in 0 .. m |->
         [b \in Nat |-> Collected(f, nums, t, c, Bits[f] - h, b, u[h - 1])]]

\* It has a solution for every height of the tree.
LEMMA WalkedExists ==
  ASSUME NEW f \in Families, NEW nums, nums \subseteq Nat, IsFiniteSet(nums),
         NEW t \in Shares, NEW c \in Int
  PROVE  \E u : WalkedUpTo(u, f, nums, t, c, Bits[f])
<1>1. Bits[f] \in Nat
  BY BitsType
<1> DEFINE Call(h, b, deeper) == Collected(f, nums, t, c, Bits[f] - h, b, deeper)
<1>2. ASSUME NEW b \in Nat, NEW x, NEW y PROVE Call(0, b, x) = Call(0, b, y)
  <2>1. 0 \in 0 .. Bits[f]
    BY <1>1
  <2>2. ASSUME NEW z
        PROVE  Call(0, b, z) = IF Held(nums, 0, b) = {} THEN << >>
                               ELSE <<Prefix(f, Bits[f] - 0, b)>>
    <3>1. PICK h \in 0 .. Bits[f] : h = 0
      BY <2>1
    <3>2. Collected(f, nums, t, c, Bits[f] - h, b, z) = Returned(f, nums, t, c, h, b, z)
      BY CollectedIs, ZenonT(40)
    <3>3. QED
      BY <3>1, <3>2 DEF Returned
  <2> HIDE DEF Call
  <2>3. QED
    BY <2>2
<1> DEFINE Up(u, m) == u = [h \in 0 .. m |-> [b \in Nat |-> Call(h, b, u[h - 1])]]
           S == {m \in Nat : m <= Bits[f] => \E u : Up(u, m)}
<1> HIDE DEF Call
<1>3. 0 \in S
  <2> DEFINE u == [h \in 0 .. 0 |-> [b \in Nat |-> Call(0, b, 0)]]
  <2>1. ASSUME NEW h \in 0 .. 0
        PROVE  u[h] = [b \in Nat |-> Call(h, b, u[h - 1])]
    <3>1. h = 0 /\ u[h] = [b \in Nat |-> Call(0, b, 0)]
      OBVIOUS
    <3> HIDE DEF u
    <3>2. \A b \in Nat : Call(0, b, 0) = Call(0, b, u[h - 1])
      BY <1>2
    <3>3. QED
      BY <3>1, <3>2
  <2>2. DOMAIN u = 0 .. 0 /\ u = [h \in 0 .. 0 |-> u[h]]
    OBVIOUS
  <2> HIDE DEF u
  <2>3. Up(u, 0)
    BY <2>1, <2>2
  <2>4. QED
    BY <2>3
<1>4. ASSUME NEW m \in Nat, m \in S PROVE m + 1 \in S
  <2>1. SUFFICES ASSUME m + 1 <= Bits[f] PROVE \E u : Up(u, m + 1)
    OBVIOUS
  <2>2. PICK u : Up(u, m)
    BY <1>1, <1>4, <2>1
  <2> DEFINE Next1 == [b \in Nat |-> Call(m + 1, b, u[m])]
             w == [h \in 0 .. m + 1 |-> IF h = m + 1 THEN Next1 ELSE u[h]]
  <2>3. /\ w = [h \in 0 .. m + 1 |-> w[h]]
        /\ w[m + 1] = Next1
        /\ \A h \in 0 .. m : w[h] = u[h]
    <3> HIDE DEF Next1
    <3>1. QED
      OBVIOUS
  <2> HIDE DEF w
  <2>4. ASSUME NEW h \in 0 .. m + 1
        PROVE  w[h] = [b \in Nat |-> Call(h, b, w[h - 1])]
    <3>1. CASE h = m + 1
      <4>0. h - 1 = m /\ m \in 0 .. m
        BY <3>1
      <4>1. h - 1 = m /\ w[m] = u[m]
        BY <2>3, <4>0
      <4>2. QED
        BY <2>3, <3>1, <4>1
    <3>2. CASE h # m + 1
      <4>1. h \in 0 .. m /\ w[h] = u[h]
        BY <2>3, <3>2
      <4>2. u[h] = [b \in Nat |-> Call(h, b, u[h - 1])]
        BY <2>2, <4>1
      <4>3. CASE h = 0
        <5>1. \A b \in Nat : Call(0, b, u[h - 1]) = Call(0, b, w[h - 1])
          BY <1>2
        <5>2. QED
          BY <4>1, <4>2, <4>3, <5>1
      <4>4. CASE h # 0
        <5>0. h - 1 \in 0 .. m
          BY <4>1, <4>4
        <5>1. w[h - 1] = u[h - 1]
          BY <2>3, <5>0
        <5>2. QED
          BY <4>1, <4>2, <5>1
      <4>5. QED
        BY <4>3, <4>4
    <3>3. QED
      BY <3>1, <3>2
  <2>5. Up(w, m + 1)
    BY <2>3, <2>4
  <2>6. QED
    BY <2>5
<1> HIDE DEF S
<1>5. Bits[f] \in S
  BY <1>1, <1>3, <1>4, Induction
<1>6. \E u : Up(u, Bits[f])
  BY <1>1, <1>5 DEF S
<1>7. QED
  BY <1>6 DEF WalkedUpTo, Call

\* collectPrefixes returns what the call at the root returns.
LEMMA RootCall ==
  ASSUME NEW f \in Families, NEW nums, nums \subseteq Nat, IsFiniteSet(nums),
         NEW t \in Shares, NEW c \in Int
  PROVE  \E u : /\ WalkedUpTo(u, f, nums, t, c, Bits[f])
                /\ collectPrefixes(f, nums, t, c) = u[Bits[f]][0]
<1> DEFINE n == CHOOSE u : WalkedUpTo(u, f, nums, t, c, Bits[f])
<1>1. WalkedUpTo(n, f, nums, t, c, Bits[f])
  BY WalkedExists
<1>2. collectPrefixes(f, nums, t, c) = n[Bits[f]][0]
  BY DEF collectPrefixes, WalkedUpTo
<1> HIDE DEF n
<1>3. QED
  BY <1>1, <1>2

-----------------------------------------------------------------------------
(* What the walk returns for a node: prefixes of nodes under it that hold  *)
(* addresses and are leaves or merged, in ascending order and disjoint,    *)
(* that cover all it holds and every node under it that can be merged.     *)

\* The prefixes of one family.
Nets(f) == [fam : {f}, n : Nat, len : 0 .. Bits[f]]

\* The bits below the node of a prefix.
Rest(p) == Bits[p.fam] - p.len

\* The addresses of node (g, a) are among those of node (h, b).
Inside(g, a, h, b) == b <= a /\ a + Pow2[g] <= b + Pow2[h]

\* A prefix holds addresses, and is that of a leaf or of a merged node.
Sound(f, nums, t, c, p) ==
  /\ Held(nums, Rest(p), p.n) # {}
  /\ p.len = Bits[f] \/ Mergeable(f, nums, t, c, Rest(p), p.n)

\* What a call at (h, b) returns: prefixes of nodes under it, each for a reason,
\* in order and apart, one for every address, and none narrower than a node that
\* may be merged.
Good(f, nums, t, c, h, b, s) ==
  /\ s \in Seq(Nets(f))
  /\ \A i \in 1 .. Len(s) : Sound(f, nums, t, c, s[i]) /\ Under(Rest(s[i]), s[i].n, h, b)
  /\ \A i, j \in 1 .. Len(s) : i < j => s[i].n + Pow2[Rest(s[i])] <= s[j].n
  /\ \A x \in Held(nums, h, b) : \E i \in 1 .. Len(s) : x \in Held(nums, Rest(s[i]), s[i].n)
  /\ \A g, a : Under(g, a, h, b) /\ Mergeable(f, nums, t, c, g, a) =>
        \E i \in 1 .. Len(s) : Inside(g, a, Rest(s[i]), s[i].n)

\* The node of a prefix has a number of bits below it.
LEMMA NetType ==
  ASSUME NEW f \in Families, NEW p \in Nets(f)
  PROVE  /\ p.fam = f /\ p.n \in Nat /\ p.len \in 0 .. Bits[f]
         /\ Rest(p) \in 0 .. Bits[f] /\ Rest(p) = Bits[f] - p.len
         /\ Rest(p) \in Nat /\ Pow2[Rest(p)] \in Nat /\ Pow2[Rest(p)] >= 1
<1>1. Bits[f] \in Nat
  BY BitsType
<1>2. p.fam = f /\ p.n \in Nat /\ p.len \in 0 .. Bits[f]
  BY DEF Nets
<1>3. Rest(p) \in 0 .. Bits[f] /\ Rest(p) = Bits[f] - p.len /\ Rest(p) \in Nat
  BY <1>1, <1>2 DEF Rest
<1>4. QED
  BY <1>2, <1>3, Pow2Positive

\* The prefix of a node.
LEMMA NetOf ==
  ASSUME NEW f \in Families, NEW h \in 0 .. Bits[f], NEW b \in Nat
  PROVE  /\ Prefix(f, Bits[f] - h, b) \in Nets(f)
         /\ Prefix(f, Bits[f] - h, b).n = b
         /\ Prefix(f, Bits[f] - h, b).len = Bits[f] - h
         /\ Rest(Prefix(f, Bits[f] - h, b)) = h
<1>1. Bits[f] \in Nat
  BY BitsType
<1>2. QED
  BY <1>1 DEF Prefix, Nets, Rest

\* What a node under another holds, the other holds.
LEMMA HeldUnder ==
  ASSUME NEW nums, nums \subseteq Nat, NEW h \in Nat, NEW b \in Nat, NEW g, NEW a,
         Under(g, a, h, b)
  PROVE  Held(nums, g, a) \subseteq Held(nums, h, b) /\ Inside(g, a, h, b)
<1>1. g \in Nat /\ a \in Nat /\ a + Pow2[g] <= b + Pow2[h]
  BY DEF Under
<1>2. Pow2[g] \in Nat /\ Pow2[h] \in Nat
  BY <1>1, Pow2Positive
<1>3. b <= a
  <2>1. PICK k \in Nat : a = b + k * Pow2[g]
    BY DEF Under
  <2>2. k * Pow2[g] \in Nat
    BY <1>2
  <2>3. QED
    BY <2>1, <2>2
<1>4. QED
  BY <1>1, <1>2, <1>3 DEF Held, Inside

\* A node that can be merged holds something.
LEMMA MergeableHolds ==
  ASSUME NEW f \in Families, NEW nums, nums \subseteq Nat, NEW t, NEW c, NEW g, NEW a \in Nat,
         Mergeable(f, nums, t, c, g, a)
  PROVE  g \in Nat /\ g >= 1 /\ Held(nums, g, a) # {}
<1>1. g \in Nat /\ g - 1 \in Nat /\ (g - 1) + 1 = g /\ g >= 1
  BY BitsType DEF Mergeable
<1>2. PICK h \in Nat : h = g - 1 /\ h + 1 = g
  BY <1>1
<1>3. Held(nums, h + 1, a) = Held(nums, h, a) \cup Held(nums, h, a + Pow2[h])
  BY HeldSplit
<1>4. Held(nums, h, a) # {}
  BY <1>2 DEF Mergeable
<1>5. QED
  BY <1>1, <1>2, <1>3, <1>4

\* A node without addresses returns nothing.
LEMMA GoodEmpty ==
  ASSUME NEW f \in Families, NEW nums, nums \subseteq Nat, NEW t, NEW c,
         NEW h \in Nat, NEW b \in Nat, Held(nums, h, b) = {}
  PROVE  Good(f, nums, t, c, h, b, << >>)
<1>1. ASSUME NEW g, NEW a, Under(g, a, h, b), Mergeable(f, nums, t, c, g, a) PROVE FALSE
  <2>1. a \in Nat
    BY <1>1 DEF Under
  <2>2. Held(nums, g, a) # {}
    BY <1>1, <2>1, MergeableHolds
  <2>3. Held(nums, g, a) \subseteq Held(nums, h, b)
    BY <1>1, HeldUnder
  <2>4. QED
    BY <2>2, <2>3
<1>2. << >> \in Seq(Nets(f)) /\ Len(<< >>) = 0
  OBVIOUS
<1>3. QED
  BY <1>1, <1>2 DEF Good

\* A leaf and a merged node return their prefix.
LEMMA GoodOne ==
  ASSUME NEW f \in Families, NEW nums, nums \subseteq Nat, NEW t, NEW c,
         NEW h \in 0 .. Bits[f], NEW b \in Nat, Held(nums, h, b) # {},
         h = 0 \/ Mergeable(f, nums, t, c, h, b)
  PROVE  Good(f, nums, t, c, h, b, <<Prefix(f, Bits[f] - h, b)>>)
<1> DEFINE p == Prefix(f, Bits[f] - h, b)
           s == <<p>>
<1>1. Bits[f] \in Nat /\ h \in Nat
  BY BitsType
<1>2. p \in Nets(f) /\ p.n = b /\ p.len = Bits[f] - h /\ Rest(p) = h
  BY NetOf
<1> HIDE DEF p
<1>3. s \in Seq(Nets(f)) /\ Len(s) = 1 /\ s[1] = p
  BY <1>2
<1> HIDE DEF s
<1>4. Sound(f, nums, t, c, p) /\ Under(Rest(p), p.n, h, b)
  BY <1>1, <1>2, UnderSelf DEF Sound
<1>5. ASSUME NEW g, NEW a, Under(g, a, h, b) PROVE Inside(g, a, Rest(p), p.n)
  BY <1>1, <1>2, <1>5, HeldUnder
<1>6. 1 \in 1 .. Len(s) /\ \A i \in 1 .. Len(s) : i = 1
  BY <1>3
<1>7. ~\E i, j \in 1 .. Len(s) : i < j
  BY <1>6
<1>8. Good(f, nums, t, c, h, b, s)
  BY <1>2, <1>3, <1>4, <1>5, <1>6, <1>7 DEF Good
<1>9. QED
  BY <1>8 DEF s, p

\* Any other node returns the prefixes of its left half and those of its right
\* half.
LEMMA GoodJoin ==
  ASSUME NEW f \in Families, NEW nums, nums \subseteq Nat, NEW t, NEW c,
         NEW h \in Nat, NEW b \in Nat, NEW l, NEW r,
         Good(f, nums, t, c, h, b, l), Good(f, nums, t, c, h, b + Pow2[h], r),
         ~Mergeable(f, nums, t, c, h + 1, b)
  PROVE  Good(f, nums, t, c, h + 1, b, l \o r)
<1> DEFINE s == l \o r
           m == Len(l)
           k == Len(r)
<1>1. l \in Seq(Nets(f)) /\ r \in Seq(Nets(f)) /\ m \in Nat /\ k \in Nat
  BY DEF Good
<1>2. /\ s \in Seq(Nets(f)) /\ Len(s) = m + k
      /\ \A i \in 1 .. m : s[i] = l[i] /\ i \in 1 .. Len(s)
      /\ \A i \in 1 .. k : s[m + i] = r[i] /\ m + i \in 1 .. Len(s)
      /\ \A i \in 1 .. Len(s) : \/ i \in 1 .. m /\ s[i] = l[i]
                                \/ i - m \in 1 .. k /\ s[i] = r[i - m]
  BY <1>1
<1> HIDE DEF s
<1>3. Pow2[h] \in Nat /\ Pow2[h] >= 1 /\ b + Pow2[h] \in Nat
  BY Pow2Positive
<1>4. ASSUME NEW i \in 1 .. Len(s)
      PROVE  Sound(f, nums, t, c, s[i]) /\ Under(Rest(s[i]), s[i].n, h + 1, b)
  <2>1. \/ Sound(f, nums, t, c, s[i]) /\ Under(Rest(s[i]), s[i].n, h, b)
        \/ Sound(f, nums, t, c, s[i]) /\ Under(Rest(s[i]), s[i].n, h, b + Pow2[h])
    BY <1>2 DEF Good
  <2>2. QED
    BY <2>1, UnderHalf
<1>5. ASSUME NEW i \in 1 .. Len(s), NEW j \in 1 .. Len(s), i < j
      PROVE  s[i].n + Pow2[Rest(s[i])] <= s[j].n
  <2>1. CASE i \in 1 .. m /\ j \in 1 .. m
    BY <1>2, <1>5, <2>1 DEF Good
  <2>2. CASE i - m \in 1 .. k /\ j - m \in 1 .. k
    <3>0. i \notin 1 .. m /\ j \notin 1 .. m /\ i - m < j - m
      BY <1>1, <1>5, <2>2
    <3>1. s[i] = r[i - m] /\ s[j] = r[j - m] /\ i - m < j - m
      BY <1>2, <3>0
    <3>2. QED
      BY <2>2, <3>1 DEF Good
  <2>3. CASE i \in 1 .. m /\ j - m \in 1 .. k
    <3>1. s[i] = l[i] /\ s[j] = r[j - m]
      BY <1>1, <1>2, <2>3
    <3>2. Under(Rest(s[i]), s[i].n, h, b) /\ Under(Rest(s[j]), s[j].n, h, b + Pow2[h])
      BY <2>3, <3>1 DEF Good
    <3>3. s[i].n + Pow2[Rest(s[i])] <= b + Pow2[h]
      BY <3>2 DEF Under
    <3>4. b + Pow2[h] <= s[j].n
      BY <1>3, <3>2, HeldUnder DEF Inside
    <3>5. s[i] \in Nets(f) /\ s[j] \in Nets(f)
      BY <1>2
    <3>6. s[i].n \in Nat /\ s[j].n \in Nat /\ Pow2[Rest(s[i])] \in Nat
      BY <3>5, NetType
    <3>7. QED
      <4> DEFINE P == Pow2[Rest(s[i])]
                 Q == Pow2[h]
                 y == s[i].n
                 z == s[j].n
      <4>1. y + P <= b + Q /\ b + Q <= z /\ y \in Nat /\ z \in Nat /\ P \in Nat /\ Q \in Nat
        BY <1>3, <3>3, <3>4, <3>6
      <4> HIDE DEF P, Q, y, z
      <4>2. y + P <= z
        BY <4>1
      <4>3. QED
        BY <4>2 DEF P, y, z
  <2>4. QED
    BY <1>1, <1>2, <1>5, <2>1, <2>2, <2>3
<1>6. ASSUME NEW x \in Held(nums, h + 1, b)
      PROVE  \E i \in 1 .. Len(s) : x \in Held(nums, Rest(s[i]), s[i].n)
  <2>0. Held(nums, h + 1, b) = Held(nums, h, b) \cup Held(nums, h, b + Pow2[h])
    BY HeldSplit
  <2>1. x \in Held(nums, h, b) \/ x \in Held(nums, h, b + Pow2[h])
    BY <1>6, <2>0
  <2>2. CASE x \in Held(nums, h, b)
    <3>1. PICK i \in 1 .. m : x \in Held(nums, Rest(l[i]), l[i].n)
      BY <2>2 DEF Good
    <3>2. QED
      BY <1>2, <3>1
  <2>3. CASE x \in Held(nums, h, b + Pow2[h])
    <3>1. PICK i \in 1 .. k : x \in Held(nums, Rest(r[i]), r[i].n)
      BY <2>3 DEF Good
    <3>2. m + i \in 1 .. Len(s) /\ s[m + i] = r[i]
      BY <1>2
    <3>3. QED
      BY <3>1, <3>2
  <2>4. QED
    BY <2>1, <2>2, <2>3
<1>7. ASSUME NEW g, NEW a, Under(g, a, h + 1, b), Mergeable(f, nums, t, c, g, a)
      PROVE  \E i \in 1 .. Len(s) : Inside(g, a, Rest(s[i]), s[i].n)
  <2>1. g # h + 1
    <3>1. SUFFICES ASSUME g = h + 1 PROVE FALSE
      OBVIOUS
    <3>2. h + 1 \in Nat
      OBVIOUS
    <3>3. a = b
      BY <1>7, <3>1, <3>2, UnderSelf
    <3>4. QED
      BY <1>7, <3>1, <3>3
  <2>2. Under(g, a, h, b) \/ Under(g, a, h, b + Pow2[h])
    BY <1>7, <2>1, UnderSplit
  <2>3. CASE Under(g, a, h, b)
    <3>1. PICK i \in 1 .. m : Inside(g, a, Rest(l[i]), l[i].n)
      BY <1>7, <2>3 DEF Good
    <3>2. QED
      BY <1>2, <3>1
  <2>4. CASE Under(g, a, h, b + Pow2[h])
    <3>1. PICK i \in 1 .. k : Inside(g, a, Rest(r[i]), r[i].n)
      BY <1>7, <2>4 DEF Good
    <3>2. m + i \in 1 .. Len(s) /\ s[m + i] = r[i]
      BY <1>2
    <3>3. QED
      BY <3>1, <3>2
  <2>5. QED
    BY <2>2, <2>3, <2>4
<1>8. Good(f, nums, t, c, h + 1, b, s)
  BY <1>2, <1>4, <1>5, <1>6, <1>7 DEF Good
<1>9. QED
  BY <1>8 DEF s

\* So does every call of the walk, and the one at the root.
LEMMA WalkGood ==
  ASSUME NEW f \in Families, NEW nums, nums \subseteq Nat, IsFiniteSet(nums),
         NEW t \in Shares, NEW c \in Int
  PROVE  Good(f, nums, t, c, Bits[f], 0, collectPrefixes(f, nums, t, c))
<1>1. Bits[f] \in Nat
  BY BitsType
<1>2. PICK u : /\ WalkedUpTo(u, f, nums, t, c, Bits[f])
               /\ collectPrefixes(f, nums, t, c) = u[Bits[f]][0]
  BY RootCall
<1>3. ASSUME NEW h \in 0 .. Bits[f], NEW b \in Nat
      PROVE  u[h][b] = Returned(f, nums, t, c, h, b, u[h - 1])
  <2>0. u[h] = [a \in Nat |-> Collected(f, nums, t, c, Bits[f] - h, a, u[h - 1])]
    BY <1>2, Zenon DEF WalkedUpTo
  <2>1. u[h][b] = Collected(f, nums, t, c, Bits[f] - h, b, u[h - 1])
    BY <2>0
  <2>2. PICK deeper : deeper = u[h - 1]
    OBVIOUS
  <2>3. Collected(f, nums, t, c, Bits[f] - h, b, deeper) = Returned(f, nums, t, c, h, b, deeper)
    BY CollectedIs, ZenonT(40)
  <2>4. QED
    BY <2>1, <2>2, <2>3
<1> DEFINE S == {h \in Nat : h <= Bits[f] => \A b \in Nat : Good(f, nums, t, c, h, b, u[h][b])}
<1>4. ASSUME NEW h \in 0 .. Bits[f], NEW b \in Nat,
             h # 0 => Good(f, nums, t, c, h - 1, b, u[h - 1][b])
                      /\ Good(f, nums, t, c, h - 1, b + Pow2[h - 1], u[h - 1][b + Pow2[h - 1]])
      PROVE  Good(f, nums, t, c, h, b, u[h][b])
  <2>1. h \in Nat
    BY <1>1
  <2>2. CASE Held(nums, h, b) = {}
    <3>1. u[h][b] = << >>
      BY <1>3, <2>2 DEF Returned
    <3>2. QED
      BY <2>1, <2>2, <3>1, GoodEmpty
  <2>3. CASE Held(nums, h, b) # {} /\ (h = 0 \/ Mergeable(f, nums, t, c, h, b))
    <3>1. u[h][b] = <<Prefix(f, Bits[f] - h, b)>>
      BY <1>3, <2>3 DEF Returned
    <3>2. QED
      BY <2>3, <3>1, GoodOne
  <2>4. CASE Held(nums, h, b) # {} /\ h # 0 /\ ~Mergeable(f, nums, t, c, h, b)
    <3>1. u[h][b] = Halves(u[h - 1], b, h - 1)
      BY <1>3, <2>4 DEF Returned
    <3>2. PICK g \in Nat : g = h - 1 /\ g + 1 = h
      BY <2>1, <2>4
    <3>3. u[h][b] = u[g][b] \o u[g][b + Pow2[g]]
      BY <3>1, <3>2 DEF Halves
    <3>4. /\ Good(f, nums, t, c, g, b, u[g][b])
          /\ Good(f, nums, t, c, g, b + Pow2[g], u[g][b + Pow2[g]])
      BY <1>4, <2>4, <3>2
    <3>5. ~Mergeable(f, nums, t, c, g + 1, b)
      BY <2>4, <3>2
    <3>6. Good(f, nums, t, c, g + 1, b, u[g][b] \o u[g][b + Pow2[g]])
      BY <3>4, <3>5, GoodJoin
    <3>7. QED
      BY <3>2, <3>3, <3>6
  <2>5. QED
    BY <2>2, <2>3, <2>4
<1>5. 0 \in S
  BY <1>1, <1>4
<1>6. ASSUME NEW h \in Nat, h \in S PROVE h + 1 \in S
  <2>1. SUFFICES ASSUME h + 1 <= Bits[f], NEW b \in Nat
                 PROVE  Good(f, nums, t, c, h + 1, b, u[h + 1][b])
    OBVIOUS
  <2>2. h + 1 \in 0 .. Bits[f] /\ (h + 1) - 1 = h /\ h <= Bits[f]
    BY <1>1, <2>1
  <2>3. b + Pow2[h] \in Nat
    BY Pow2Positive
  <2>4. Good(f, nums, t, c, h, b, u[h][b]) /\ Good(f, nums, t, c, h, b + Pow2[h], u[h][b + Pow2[h]])
    BY <1>6, <2>2, <2>3
  <2>5. QED
    BY <1>4, <2>2, <2>4
<1> HIDE DEF S
<1>7. Bits[f] \in S
  BY <1>1, <1>5, <1>6, Induction
<1>8. Good(f, nums, t, c, Bits[f], 0, u[Bits[f]][0])
  BY <1>1, <1>7 DEF S
<1>9. QED
  BY <1>2, <1>8

-----------------------------------------------------------------------------
(* The lists that an export writes.                                        *)

\* The numbers of the addresses of one family.
Nums(in, f) == {a.n : a \in {x \in in : x.fam = f}}

\* There are finitely many, and all of them are below the root.
LEMMA NumsType ==
  ASSUME NEW f \in Families, NEW in, in \subseteq Addresses
  PROVE  /\ Nums(in, f) \subseteq Nat /\ IsFiniteSet(Nums(in, f))
         /\ \A x \in Nums(in, f) : x < Pow2[Bits[f]]
         /\ Held(Nums(in, f), Bits[f], 0) = Nums(in, f)
         /\ \A x : x \in Nums(in, f) <=> [fam |-> f, n |-> x] \in in
<1>1. Bits[f] \in Nat /\ Pow2[Bits[f]] \in Nat /\ Pow2[Bits[f]] >= 1
  BY BitsType, Pow2Positive
<1>2. \A a \in in : /\ a = [fam |-> a.fam, n |-> a.n] /\ a.fam \in Families
                    /\ a.n \in 0 .. Pow2[Bits[a.fam]] - 1
  BY DEF Addresses
<1>3. \A x \in Nums(in, f) : x \in 0 .. Pow2[Bits[f]] - 1
  BY <1>2 DEF Nums
<1>4. Nums(in, f) \subseteq Nat /\ \A x \in Nums(in, f) : x < Pow2[Bits[f]]
  BY <1>1, <1>3
<1>5. IsFiniteSet(Nums(in, f))
  <2> DEFINE N == Nums(in, f)
             k == Pow2[Bits[f]]
  <2>1. N \in SUBSET Nat /\ k \in Nat /\ \A x \in N : x <= k
    BY <1>1, <1>3
  <2> HIDE DEF N, k
  <2>2. IsFiniteSet(N)
    BY <2>1, FS_BoundedSetOfNaturals
  <2>3. QED
    BY <2>2 DEF N
<1>6. Held(Nums(in, f), Bits[f], 0) = Nums(in, f)
  BY <1>1, <1>3 DEF Held
<1>7. \A x : x \in Nums(in, f) <=> [fam |-> f, n |-> x] \in in
  BY <1>2 DEF Nums
<1>8. QED
  BY <1>4, <1>5, <1>6, <1>7

\* In the order of the addresses.
Ascending(s) == \A i, j \in 1 .. Len(s) : i < j => s[i].n < s[j].n

\* A list in ascending order is not changed by sorting it.
LEMMA SortedSame ==
  ASSUME NEW f \in Families, NEW s \in Seq(Nets(f)), Ascending(s)
  PROVE  Sorted(s) = s
<1> DEFINE before(i) == {j \in DOMAIN s : \/ compareAddrs(s[j], s[i])
                                          \/ j < i /\ ~compareAddrs(s[i], s[j])}
           pos(k) == CHOOSE i \in DOMAIN s : Cardinality(before(i)) = k - 1
<1>1. DOMAIN s = 1 .. Len(s) /\ Len(s) \in Nat /\ \A i \in 1 .. Len(s) : s[i] \in Nets(f)
  OBVIOUS
<1>2. \A i \in 1 .. Len(s) : s[i].n \in Nat
  BY <1>1, NetType
<1>3. ASSUME NEW i \in 1 .. Len(s) PROVE Cardinality(before(i)) = i - 1
  <2>1. before(i) = 1 .. i - 1
    BY <1>1, <1>2 DEF compareAddrs, Ascending
  <2>2. Cardinality(1 .. i - 1) = i - 1
    <3>1. 1 \in Int /\ i - 1 \in Int /\ (1 > i - 1 => i - 1 = 0) /\ (i - 1) - 1 + 1 = i - 1
      OBVIOUS
    <3>2. QED
      BY <3>1, FS_Interval
  <2>3. QED
    BY <2>1, <2>2
<1> HIDE DEF before
<1>4. ASSUME NEW k \in 1 .. Len(s) PROVE pos(k) = k
  <2>1. \A i \in 1 .. Len(s) : Cardinality(before(i)) = k - 1 <=> i = k
    BY <1>3
  <2>2. QED
    BY <1>1, <2>1
<1>5. Sorted(s) = [k \in DOMAIN s |-> s[pos(k)]]
  BY DEF Sorted, before
<1> HIDE DEF pos
<1>6. Sorted(s) = [k \in DOMAIN s |-> s[k]]
  BY <1>1, <1>4, <1>5
<1>7. QED
  BY <1>1, <1>6

\* The order of Good is an ascending one.
LEMMA GoodAscends ==
  ASSUME NEW f \in Families, NEW nums, NEW t, NEW c, NEW h, NEW b, NEW s,
         Good(f, nums, t, c, h, b, s)
  PROVE  s \in Seq(Nets(f)) /\ Ascending(s)
<1>1. s \in Seq(Nets(f))
  BY DEF Good
<1>2. ASSUME NEW i \in 1 .. Len(s), NEW j \in 1 .. Len(s), i < j PROVE s[i].n < s[j].n
  <2>1. s[i] \in Nets(f) /\ s[j] \in Nets(f)
    BY <1>1
  <2>2. s[i].n \in Nat /\ s[j].n \in Nat /\ Pow2[Rest(s[i])] \in Nat /\ Pow2[Rest(s[i])] >= 1
    BY <2>1, NetType
  <2>3. s[i].n + Pow2[Rest(s[i])] <= s[j].n
    BY <1>2 DEF Good
  <2>4. QED
    BY <2>2, <2>3
<1>3. QED
  BY <1>1, <1>2 DEF Ascending

\* The ceiling as aggregateFamily clamps it.
Clamp(f, max) == IF max < 0 THEN 0 ELSE IF max > Bits[f] THEN Bits[f] ELSE max

\* Aggregating the addresses of one family is one walk.
LEMMA AggregateIs ==
  ASSUME NEW f \in Families, NEW in, in \subseteq Addresses, \A a \in in : a.fam = f,
         NEW t \in Shares, NEW max \in Int
  PROVE  /\ Clamp(f, max) \in 0 .. Bits[f]
         /\ Aggregate(in, t, max) = collectPrefixes(f, Nums(in, f), t, Clamp(f, max))
<1>1. \A g \in Families : Clamp(g, max) \in 0 .. Bits[g] /\ Clamp(g, max) \in Int
  BY BitsType DEF Clamp
<1> DEFINE list(g) == collectPrefixes(g, Nums(in, g), t, Clamp(g, max))
<1>2. Aggregate(in, t, max) = Sorted(list("v4") \o list("v6"))
  BY DEF Aggregate, aggregateFamily, Nums, Clamp
<1>3. ASSUME NEW g \in Families
      PROVE  Good(g, Nums(in, g), t, Clamp(g, max), Bits[g], 0, list(g))
  <2>1. Nums(in, g) \subseteq Nat /\ IsFiniteSet(Nums(in, g)) /\ Clamp(g, max) \in Int
    BY <1>1, NumsType
  <2>2. QED
    BY <2>1, WalkGood
<1>4. ASSUME NEW g \in Families, g # f PROVE list(g) = << >>
  <2>1. Nums(in, g) = {}
    BY <1>4 DEF Nums
  <2>2. list(g) \in Seq(Nets(g)) /\ ~\E i \in 1 .. Len(list(g)) : TRUE
    BY <1>3, <2>1 DEF Good, Sound, Held
  <2> HIDE DEF list
  <2>3. Len(list(g)) = 0
    BY <2>2
  <2>4. QED
    BY <2>2, <2>3
<1>5. list(f) \in Seq(Nets(f)) /\ Ascending(list(f))
  BY <1>3, GoodAscends
<1> HIDE DEF list
<1>6. list("v4") \o list("v6") = list(f)
  BY <1>4, <1>5, BitsType
<1>7. Sorted(list(f)) = list(f)
  BY <1>5, SortedSame
<1>8. QED
  BY <1>1, <1>2, <1>6, <1>7 DEF list

\* What an export promises of the list of one family: as Good at the root,
\* in any order.
Shape(f, nums, t, c, s) ==
  /\ s \in Seq(Nets(f))
  /\ \A i \in 1 .. Len(s) :
        Sound(f, nums, t, c, s[i]) /\ Under(Rest(s[i]), s[i].n, Bits[f], 0)
  /\ \A i, j \in 1 .. Len(s) :
        i # j => \/ s[i].n + Pow2[Rest(s[i])] <= s[j].n
                 \/ s[j].n + Pow2[Rest(s[j])] <= s[i].n
  /\ \A x \in nums : \E i \in 1 .. Len(s) : x \in Held(nums, Rest(s[i]), s[i].n)
  /\ \A g, a : Under(g, a, Bits[f], 0) /\ Mergeable(f, nums, t, c, g, a) =>
        \E i \in 1 .. Len(s) : Inside(g, a, Rest(s[i]), s[i].n)

\* A walk promises it.
LEMMA GoodShape ==
  ASSUME NEW f \in Families, NEW in, in \subseteq Addresses, NEW t, NEW c, NEW s,
         Good(f, Nums(in, f), t, c, Bits[f], 0, s)
  PROVE  Shape(f, Nums(in, f), t, c, s) /\ Ascending(s)
<1>1. Held(Nums(in, f), Bits[f], 0) = Nums(in, f)
  BY NumsType
<1>2. Ascending(s) /\ s \in Seq(Nets(f)) /\ Len(s) \in Nat
  BY GoodAscends
<1>3. \A i, j \in 1 .. Len(s) : i # j => i < j \/ j < i
  BY <1>2
<1>4. QED
  BY <1>1, <1>2, <1>3 DEF Good, Shape

\* A node is within the address space.
LEMMA AddressUnder ==
  ASSUME NEW h \in Nat, NEW x \in Nat, x < Pow2[h]
  PROVE  Under(0, x, h, 0)
<1>1. Pow2[0] = 1 /\ x = 0 + x * 1 /\ Pow2[h] \in Nat
  BY Pow2Def
<1>2. x + 1 <= 0 + Pow2[h]
  BY <1>1
<1>3. QED
  BY <1>1, <1>2 DEF Under

\* The sequence of a finite set has every element of it once.
LEMMA SeqOfSet ==
  ASSUME NEW S, IsFiniteSet(S)
  PROVE  /\ SetToSeq(S) \in Seq(S)
         /\ \A i, j \in 1 .. Len(SetToSeq(S)) : SetToSeq(S)[i] = SetToSeq(S)[j] => i = j
         /\ \A x \in S : \E i \in 1 .. Len(SetToSeq(S)) : SetToSeq(S)[i] = x
<1> DEFINE k == Cardinality(S)
           I == 1 .. k
           q == SetToSeq(S)
<1>1. k \in Nat /\ ExistsBijection(I, S)
  BY FS_CardinalityType
<1>2. PICK g : g \in Bijection(I, S)
  BY <1>1 DEF ExistsBijection
<1>3. g \in [I -> S] /\ IsInjective(g)
  BY <1>2 DEF Bijection, Injection
<1>4. q \in [I -> S] /\ IsInjective(q)
  BY <1>3 DEF SetToSeq
<1> HIDE DEF q
<1>5. IsFiniteSet(I) /\ Cardinality(I) = k
  <2>1. 1 \in Int /\ k \in Int /\ (1 > k => k = 0) /\ k - 1 + 1 = k
    BY <1>1
  <2>2. QED
    BY <2>1, FS_Interval
<1>6. q \in Injection(I, S)
  BY <1>4 DEF Injection
<1>7. q \in Surjection(I, S)
  <2> HIDE DEF I
  <2>1. Cardinality(I) = Cardinality(S)
    BY <1>5
  <2>2. QED
    BY <1>6, <2>1, FS_Injection
<1>8. q \in Seq(S) /\ Len(q) = k
  <2> HIDE DEF k
  <2>1. q \in [1 .. k -> S] /\ k \in Nat
    BY <1>1, <1>4
  <2>2. QED
    BY <2>1
<1>9. \A x \in S : \E i \in 1 .. Len(q) : q[i] = x
  BY <1>7, <1>8 DEF Surjection
<1>10. \A i, j \in 1 .. Len(q) : q[i] = q[j] => i = j
  BY <1>4, <1>8 DEF IsInjective
<1>11. QED
  BY <1>8, <1>9, <1>10 DEF q

\* Without aggregation a list has one prefix for each address, and with Bits[f]
\* as the ceiling nothing could be merged.
LEMMA HostsShape ==
  ASSUME NEW f \in Families, NEW in, in \subseteq Addresses, IsFiniteSet(in),
         \A a \in in : a.fam = f, NEW t
  PROVE  Shape(f, Nums(in, f), t, Bits[f], Hosts(in))
<1> DEFINE host(x) == Prefix(f, Bits[f], x)
           N == Nums(in, f)
           S == {Prefix(a.fam, Bits[a.fam], a.n) : a \in in}
           s == Hosts(in)
<1>1. Bits[f] \in Nat /\ Bits[f] - 0 = Bits[f] /\ Pow2[0] = 1 /\ 0 \in 0 .. Bits[f] /\ 0 \in Nat
  BY BitsType, Pow2Def
<1>2. N \subseteq Nat /\ \A x \in N : x < Pow2[Bits[f]]
  BY NumsType
<1>3. IsFiniteSet(S)
  <2> DEFINE F == [a \in in |-> Prefix(a.fam, Bits[a.fam], a.n)]
  <2>1. F \in Surjection(in, S)
    BY DEF Surjection
  <2> HIDE DEF F, S
  <2>2. QED
    BY <2>1, FS_Surjection
<1>4. \A p : p \in S <=> \E x \in N : p = host(x)
  BY DEF Nums
<1>5. \A x \in Nat : /\ host(x) \in Nets(f) /\ host(x).n = x
                     /\ host(x).len = Bits[f] /\ Rest(host(x)) = 0
  BY <1>1, NetOf
<1> HIDE DEF host, S
<1>6. s = SetToSeq(S)
  BY DEF Hosts, S
<1> HIDE DEF s
<1>7. /\ s \in Seq(S)
      /\ \A i, j \in 1 .. Len(s) : s[i] = s[j] => i = j
      /\ \A p \in S : \E i \in 1 .. Len(s) : s[i] = p
  BY <1>3, <1>6, SeqOfSet
<1> HIDE DEF N
<1>8. ASSUME NEW i \in 1 .. Len(s)
      PROVE  s[i] \in Nets(f) /\ s[i].n \in N /\ s[i].n \in Nat /\ s[i] = host(s[i].n)
             /\ s[i].len = Bits[f] /\ Rest(s[i]) = 0
  <2>1. s[i] \in S
    BY <1>7
  <2>2. PICK x \in N : s[i] = host(x)
    BY <1>4, <2>1
  <2>3. QED
    BY <1>2, <1>5, <2>2
<1>9. ASSUME NEW x \in N PROVE x \in Held(N, 0, x)
  <2>1. x \in Nat /\ x + Pow2[0] - 1 = x
    BY <1>1, <1>2
  <2>2. x \in x .. x + Pow2[0] - 1
    BY <2>1
  <2>3. QED
    BY <2>2 DEF Held
<1>10. s \in Seq(Nets(f))
  <2>1. S \subseteq Nets(f)
    BY <1>2, <1>4, <1>5
  <2>2. QED
    BY <1>7, <2>1, SeqMonotonic
<1>11. ASSUME NEW i \in 1 .. Len(s)
       PROVE  Sound(f, N, t, Bits[f], s[i]) /\ Under(Rest(s[i]), s[i].n, Bits[f], 0)
  <2>1. Held(N, Rest(s[i]), s[i].n) # {}
    BY <1>8, <1>9
  <2>2. Under(Rest(s[i]), s[i].n, Bits[f], 0)
    BY <1>1, <1>2, <1>8, AddressUnder
  <2>3. QED
    BY <1>8, <2>1, <2>2 DEF Sound
<1>12. ASSUME NEW i \in 1 .. Len(s), NEW j \in 1 .. Len(s), i # j
       PROVE  \/ s[i].n + Pow2[Rest(s[i])] <= s[j].n
              \/ s[j].n + Pow2[Rest(s[j])] <= s[i].n
  <2>1. s[i].n # s[j].n
    <3>1. SUFFICES ASSUME s[i].n = s[j].n PROVE FALSE
      OBVIOUS
    <3>2. s[i] = host(s[i].n) /\ s[j] = host(s[j].n)
      BY <1>8
    <3>3. s[i] = s[j]
      BY <3>1, <3>2
    <3>4. QED
      BY <1>7, <1>12, <3>3
  <2>2. QED
    BY <1>1, <1>8, <2>1
<1>13. ASSUME NEW x \in N PROVE \E i \in 1 .. Len(s) : x \in Held(N, Rest(s[i]), s[i].n)
  <2>1. PICK i \in 1 .. Len(s) : s[i] = host(x)
    BY <1>4, <1>7
  <2>2. Rest(s[i]) = 0 /\ s[i].n = x
    BY <1>2, <1>5, <2>1
  <2>3. QED
    BY <1>9, <2>2
<1>14. ASSUME NEW g, NEW a PROVE ~Mergeable(f, N, t, Bits[f], g, a)
  BY <1>1 DEF Mergeable
<1>15. Shape(f, N, t, Bits[f], s)
  BY <1>10, <1>11, <1>12, <1>13, <1>14 DEF Shape
<1>16. QED
  BY <1>15 DEF N, s

-----------------------------------------------------------------------------
(* The invariant: the lists of the last export have the shape that its     *)
(* settings and the addresses stored then give them.                       *)

\* What the settings in force come to.
Share == levelToThreshold(LevelOf(Effective.level))
Limit(f) == IF Effective.enabled THEN Clamp(f, Effective[f]) ELSE Bits[f]

\* The lists are those of the addresses in out.of, whatever is stored by now.
CidrInv ==
  /\ stored \subseteq Seen /\ IsFiniteSet(stored) /\ Cardinality(stored) <= MaxSeen
  /\ conf \in Confs
  /\ out.of \subseteq stored
  /\ \A f \in Families : Shape(f, Nums(out.of, f), Share, Limit(f), out[f])
  /\ Effective.enabled => \A f \in Families : Ascending(out[f])

\* The settings in force are settings.
LEMMA ConfType ==
  ASSUME conf \in Confs
  PROVE  /\ Effective.enabled \in BOOLEAN /\ Share \in Shares
         /\ \A f \in Families : Effective[f] \in Int
<1>1. conf.policy \in Settings /\ conf.global \in Settings
  BY ConfAssumption
<1>2. Effective \in Settings
  BY <1>1 DEF Effective
<1>3. LevelOf(Effective.level) \in {"off", "conservative", "balanced", "aggressive"}
  BY DEF LevelOf
<1>4. Share \in Shares
  BY <1>3 DEF Share, Shares, levelToThreshold
<1>5. Effective.enabled \in BOOLEAN /\ Effective.v4 \in Int /\ Effective.v6 \in Int
  BY <1>2 DEF Settings
<1>6. QED
  BY <1>4, <1>5, BitsType

\* An export leaves lists of that shape.
LEMMA ExportShape ==
  ASSUME conf \in Confs, stored \subseteq Seen, IsFiniteSet(stored), Export
  PROVE  /\ out'.of = stored
         /\ \A f \in Families : Shape(f, Nums(stored, f), Share, Limit(f), out'[f])
         /\ Effective.enabled => \A f \in Families : Ascending(out'[f])
<1> DEFINE of(f) == {a \in stored : a.fam = f}
           e == Effective
<1>1. /\ Share \in Shares /\ \A f \in Families : Effective[f] \in Int
      /\ Effective.enabled \in BOOLEAN
  BY ConfType
<1>2. ASSUME NEW f \in Families
      PROVE  /\ of(f) \subseteq Addresses /\ IsFiniteSet(of(f)) /\ \A a \in of(f) : a.fam = f
             /\ Nums(of(f), f) = Nums(stored, f)
  <2>1. of(f) \subseteq stored
    OBVIOUS
  <2>2. of(f) \subseteq Addresses
    BY SeenAssumption
  <2>3. Nums(of(f), f) = Nums(stored, f)
    BY DEF Nums
  <2>4. \A a \in of(f) : a.fam = f
    OBVIOUS
  <2> HIDE DEF of
  <2>5. IsFiniteSet(of(f))
    BY <2>1, FS_Subset
  <2>6. QED
    BY <2>2, <2>3, <2>4, <2>5
<1>3. out' = IF e.enabled
             THEN [v4 |-> Aggregate(of("v4"), Share, e.v4),
                   v6 |-> Aggregate(of("v6"), Share, e.v6), of |-> stored]
             ELSE [v4 |-> Hosts(of("v4")), v6 |-> Hosts(of("v6")), of |-> stored]
  BY DEF Export, ExportOf, AggregateV4, AggregateV6, Share
<1> HIDE DEF of
<1>4. ASSUME NEW f \in Families, Effective.enabled
      PROVE  Shape(f, Nums(stored, f), Share, Limit(f), out'[f]) /\ Ascending(out'[f])
  <2>1. out'[f] = Aggregate(of(f), Share, Effective[f])
    BY <1>3, <1>4, BitsType
  <2>2. /\ Clamp(f, Effective[f]) \in 0 .. Bits[f] /\ Clamp(f, Effective[f]) \in Int
        /\ Aggregate(of(f), Share, Effective[f])
             = collectPrefixes(f, Nums(of(f), f), Share, Clamp(f, Effective[f]))
    <3>1. PICK max \in Int : max = Effective[f]
      BY <1>1
    <3>2. PICK t \in Shares : t = Share
      BY <1>1
    <3>3. /\ Clamp(f, max) \in 0 .. Bits[f]
          /\ Aggregate(of(f), t, max) = collectPrefixes(f, Nums(of(f), f), t, Clamp(f, max))
      BY <1>2, AggregateIs
    <3>4. Clamp(f, max) \in Int
      BY <3>3
    <3>5. QED
      BY <3>1, <3>2, <3>3, <3>4
  <2>3. Nums(of(f), f) \subseteq Nat /\ IsFiniteSet(Nums(of(f), f))
    BY <1>2, NumsType
  <2>4. Good(f, Nums(of(f), f), Share, Clamp(f, Effective[f]), Bits[f], 0, out'[f])
    BY <1>1, <2>1, <2>2, <2>3, WalkGood
  <2>5. Shape(f, Nums(of(f), f), Share, Clamp(f, Effective[f]), out'[f]) /\ Ascending(out'[f])
    BY <1>2, <2>4, GoodShape
  <2>6. QED
    BY <1>2, <1>4, <2>5 DEF Limit
<1>5. ASSUME NEW f \in Families, ~Effective.enabled
      PROVE  Shape(f, Nums(stored, f), Share, Limit(f), out'[f])
  <2>1. out'[f] = Hosts(of(f))
    BY <1>3, <1>5, BitsType
  <2>2. Shape(f, Nums(of(f), f), Share, Bits[f], Hosts(of(f)))
    BY <1>2, HostsShape
  <2>3. QED
    BY <1>2, <1>5, <2>1, <2>2 DEF Limit
<1>6. QED
  BY <1>3, <1>4, <1>5

\* CidrInv is inductive.
LEMMA CidrInvariance == CidrSpec => []CidrInv
<1>1. CidrInit => CidrInv
  <2> SUFFICES ASSUME CidrInit PROVE CidrInv
    OBVIOUS
  <2>1. stored = {} /\ conf \in Confs /\ out = [v4 |-> << >>, v6 |-> << >>, of |-> {}]
    BY DEF CidrInit
  <2>2. IsFiniteSet(stored) /\ Cardinality(stored) <= MaxSeen
    BY <2>1, FS_EmptySet, SeenAssumption
  <2>3. ASSUME NEW f \in Families
        PROVE  Shape(f, Nums(out.of, f), Share, Limit(f), out[f]) /\ Ascending(out[f])
    <3>1. out.of = {} /\ out[f] = << >> /\ {} \subseteq Addresses
      BY <2>1, BitsType
    <3>2. Nums({}, f) \subseteq Nat /\ Held(Nums({}, f), Bits[f], 0) = {}
      BY DEF Nums, Held
    <3>3. Bits[f] \in Nat /\ 0 \in Nat
      BY BitsType
    <3>4. Good(f, Nums({}, f), Share, Limit(f), Bits[f], 0, << >>)
      BY <3>2, <3>3, GoodEmpty
    <3>5. QED
      BY <3>1, <3>4, GoodShape
  <2>4. QED
    BY <2>1, <2>2, <2>3 DEF CidrInv
<1>2. CidrInv /\ [CidrNext]_cidrVars => CidrInv'
  <2> SUFFICES ASSUME CidrInv, [CidrNext]_cidrVars PROVE CidrInv'
    OBVIOUS
  <2>1. CASE UNCHANGED cidrVars
    BY <2>1 DEF CidrInv, cidrVars, Share, Limit, Effective
  <2>2. ASSUME NEW a \in Seen, Store(a) PROVE CidrInv'
    <3>1. /\ stored' = stored \cup {a} /\ a \notin stored /\ Cardinality(stored) < MaxSeen
          /\ UNCHANGED <<conf, out>>
      BY <2>2 DEF Store
    <3>2. IsFiniteSet(stored) /\ Cardinality(stored) \in Nat
      BY FS_CardinalityType DEF CidrInv
    <3>3. IsFiniteSet(stored') /\ Cardinality(stored') = Cardinality(stored) + 1
      BY <3>1, <3>2, FS_AddElement
    <3>4. Cardinality(stored') <= MaxSeen
      BY <3>1, <3>2, <3>3, SeenAssumption
    <3>5. Share' = Share /\ Effective' = Effective /\ \A f \in Families : Limit(f)' = Limit(f)
      BY <3>1 DEF Share, Limit, Effective
    <3>6. QED
      BY <3>1, <3>3, <3>4, <3>5 DEF CidrInv
  <2>3. CASE Export
    <3>1. UNCHANGED <<stored, conf>>
      BY <2>3 DEF Export, ExportOf
    <3>2. Share' = Share /\ Effective' = Effective /\ \A f \in Families : Limit(f)' = Limit(f)
      BY <3>1 DEF Share, Limit, Effective
    <3>3. /\ out'.of = stored
          /\ \A f \in Families : Shape(f, Nums(stored, f), Share, Limit(f), out'[f])
          /\ Effective.enabled => \A f \in Families : Ascending(out'[f])
      BY <2>3, ExportShape DEF CidrInv
    <3>4. QED
      BY <3>1, <3>2, <3>3 DEF CidrInv
  <2>4. QED
    BY <2>1, <2>2, <2>3 DEF CidrNext
<1>3. QED
  BY <1>1, <1>2, PTL DEF CidrSpec

-----------------------------------------------------------------------------
(* From the shape of the lists to the properties.                          *)

\* The addresses of a prefix.
LEMMA ExtentIs ==
  ASSUME NEW f \in Families, NEW p \in Nets(f)
  PROVE  /\ Block(p.fam, p.len, p.n) = p.n .. p.n + Pow2[Rest(p)] - 1
         /\ \A a : a \in Extent(p) <=>
              \E k \in p.n .. p.n + Pow2[Rest(p)] - 1 : a = [fam |-> f, n |-> k]
<1>1. p.fam = f
  BY NetType
<1>2. Block(p.fam, p.len, p.n) = p.n .. p.n + Pow2[Rest(p)] - 1
  BY DEF Block, Size, Rest
<1>3. QED
  BY <1>1, <1>2 DEF Extent

\* The exported prefixes are the elements of the two lists.
LEMMA ExportedIs ==
  ASSUME CidrInv
  PROVE  /\ \A p : p \in Exported <=>
              \E f \in Families : \E i \in 1 .. Len(out[f]) : p = out[f][i]
         /\ \A f \in Families : /\ out[f] \in Seq(Nets(f)) /\ DOMAIN out[f] = 1 .. Len(out[f])
                                /\ Len(out[f]) \in Nat
                                /\ \A i \in 1 .. Len(out[f]) : out[f][i] \in Nets(f)
<1>1. \A f \in Families : out[f] \in Seq(Nets(f))
  BY DEF CidrInv, Shape
<1>2. \A f \in Families : /\ DOMAIN out[f] = 1 .. Len(out[f]) /\ Len(out[f]) \in Nat
                          /\ \A i \in 1 .. Len(out[f]) : out[f][i] \in Nets(f)
  BY <1>1
<1>3. \A p : p \in Exported <=> \/ \E i \in 1 .. Len(out.v4) : p = out.v4[i]
                                \/ \E i \in 1 .. Len(out.v6) : p = out.v6[i]
  BY <1>2, BitsType DEF Exported, Range
<1>4. QED
  BY <1>1, <1>2, <1>3, BitsType

\* The addresses that were stored are addresses.
LEMMA OutType ==
  ASSUME CidrInv
  PROVE  /\ out.of \subseteq Addresses /\ IsFiniteSet(out.of)
         /\ \A a \in out.of : /\ a.fam \in Families /\ a = [fam |-> a.fam, n |-> a.n]
                              /\ a.n \in Nums(out.of, a.fam)
         /\ \A f \in Families : \A x : x \in Nums(out.of, f) <=> [fam |-> f, n |-> x] \in out.of
         /\ \A f \in Families : Nums(out.of, f) \subseteq Nat /\ IsFiniteSet(Nums(out.of, f))
<1>1. out.of \subseteq Addresses
  BY SeenAssumption DEF CidrInv
<1>2. IsFiniteSet(out.of)
  BY FS_Subset DEF CidrInv
<1>3. \A a \in out.of : a.fam \in Families /\ a = [fam |-> a.fam, n |-> a.n]
  BY <1>1 DEF Addresses
<1>4. \A a \in out.of : a.n \in Nums(out.of, a.fam)
  BY DEF Nums
<1>5. QED
  BY <1>1, <1>2, <1>3, <1>4, NumsType

\* Two prefixes of a list with an address in common are one.
LEMMA NoOverlap ==
  ASSUME CidrInv, NEW f \in Families, NEW i \in 1 .. Len(out[f]), NEW j \in 1 .. Len(out[f]),
         NEW x, x \in out[f][i].n .. out[f][i].n + Pow2[Rest(out[f][i])] - 1,
         x \in out[f][j].n .. out[f][j].n + Pow2[Rest(out[f][j])] - 1
  PROVE  i = j
<1> DEFINE p == out[f][i]
           r == out[f][j]
<1>1. p \in Nets(f) /\ r \in Nets(f)
  BY ExportedIs
<1>2. i # j => p.n + Pow2[Rest(p)] <= r.n \/ r.n + Pow2[Rest(r)] <= p.n
  BY DEF CidrInv, Shape
<1> HIDE DEF p, r
<1> DEFINE P == Pow2[Rest(p)]
           R == Pow2[Rest(r)]
<1>3. p.n \in Nat /\ P \in Nat /\ r.n \in Nat /\ R \in Nat
  BY <1>1, NetType
<1>4. x \in p.n .. p.n + P - 1 /\ x \in r.n .. r.n + R - 1
  BY DEF p, r
<1>5. i # j => p.n + P <= r.n \/ r.n + R <= p.n
  BY <1>2
<1> HIDE DEF P, R
<1>6. QED
  BY <1>3, <1>4, <1>5

\* Every exported prefix is of its family and inside its address space.
THEOREM CidrTypeCorrect == CidrSpec => []CidrTypeOK
<1>1. CidrInv => CidrTypeOK
  <2> SUFFICES ASSUME CidrInv PROVE CidrTypeOK
    OBVIOUS
  <2>1. ASSUME NEW f \in Families, NEW p \in Range(out[f])
        PROVE  p.fam = f /\ p.len \in 0 .. Bits[f] /\ p.n \in 0 .. Pow2[Bits[f]] - 1
    <3>1. PICK i \in 1 .. Len(out[f]) : p = out[f][i]
      BY ExportedIs DEF Range
    <3>2. p \in Nets(f)
      BY <3>1, ExportedIs
    <3>3. p.n + Pow2[Rest(p)] <= 0 + Pow2[Bits[f]]
      BY <3>1 DEF CidrInv, Shape, Under
    <3>4. /\ p.fam = f /\ p.len \in 0 .. Bits[f] /\ p.n \in Nat
          /\ Pow2[Rest(p)] \in Nat /\ Pow2[Rest(p)] >= 1
      BY <3>2, NetType
    <3>5. Pow2[Bits[f]] \in Nat
      BY BitsType, Pow2Positive
    <3>6. QED
      BY <3>3, <3>4, <3>5
  <2>2. QED
    BY <2>1 DEF CidrInv, CidrTypeOK
<1>2. QED
  BY <1>1, CidrInvariance, PTL

\* Each address that was stored at the export is in exactly one exported
\* prefix, no prefix is without one, and none is there twice.
THEOREM CoveredOnceHolds == CidrSpec => []CoveredOnce
<1>1. CidrInv => CoveredOnce
  <2> SUFFICES ASSUME CidrInv PROVE CoveredOnce
    OBVIOUS
  <2>1. ASSUME NEW a \in out.of
        PROVE  Cardinality({p \in Exported : a \in Extent(p)}) = 1
    <3> DEFINE f == a.fam
               x == a.n
    <3>1. f \in Families /\ a = [fam |-> f, n |-> x] /\ x \in Nums(out.of, f)
      BY OutType
    <3>2. PICK i \in 1 .. Len(out[f]) : x \in Held(Nums(out.of, f), Rest(out[f][i]), out[f][i].n)
      BY <3>1 DEF CidrInv, Shape
    <3> DEFINE p == out[f][i]
    <3>3. p \in Exported /\ p \in Nets(f)
      BY <3>1, ExportedIs
    <3>4. x \in p.n .. p.n + Pow2[Rest(p)] - 1
      BY <3>2 DEF Held
    <3>5. a \in Extent(p)
      <4> HIDE DEF p, f, x
      <4>1. QED
        BY <3>1, <3>3, <3>4, ExtentIs
    <3>6. ASSUME NEW r \in Exported, a \in Extent(r) PROVE r = p
      <4>0. PICK g \in Families : \E j \in 1 .. Len(out[g]) : r = out[g][j]
        BY ExportedIs
      <4>1. PICK j \in 1 .. Len(out[g]) : r = out[g][j]
        BY <4>0
      <4>2. r \in Nets(g)
        BY <4>1, ExportedIs
      <4>3. PICK k \in r.n .. r.n + Pow2[Rest(r)] - 1 : a = [fam |-> g, n |-> k]
        BY <3>6, <4>2, ExtentIs
      <4>4. g = f /\ k = x
        BY <4>3
      <4> HIDE DEF f, x
      <4>5. j \in 1 .. Len(out[f]) /\ x \in out[f][j].n .. out[f][j].n + Pow2[Rest(out[f][j])] - 1
        BY <4>1, <4>3, <4>4
      <4>6. i = j
        BY <3>1, <3>4, <4>5, NoOverlap
      <4>7. QED
        BY <4>1, <4>4, <4>6
    <3> HIDE DEF p
    <3>7. {r \in Exported : a \in Extent(r)} = {p}
      BY <3>3, <3>5, <3>6
    <3>8. QED
      BY <3>7, FS_Singleton
  <2>2. ASSUME NEW p \in Exported PROVE Extent(p) \cap out.of # {}
    <3>0. PICK f \in Families : \E i \in 1 .. Len(out[f]) : p = out[f][i]
      BY ExportedIs
    <3>1. PICK i \in 1 .. Len(out[f]) : p = out[f][i]
      BY <3>0
    <3>2. p \in Nets(f)
      BY <3>1, ExportedIs
    <3>3. Held(Nums(out.of, f), Rest(p), p.n) # {}
      BY <3>1 DEF CidrInv, Shape, Sound
    <3>4. PICK x \in Nums(out.of, f) : x \in p.n .. p.n + Pow2[Rest(p)] - 1
      BY <3>3 DEF Held
    <3>5. [fam |-> f, n |-> x] \in out.of
      BY <3>4, OutType
    <3>6. [fam |-> f, n |-> x] \in Extent(p)
      BY <3>2, <3>4, ExtentIs
    <3>7. QED
      BY <3>5, <3>6
  <2>3. ASSUME NEW f \in Families PROVE Cardinality(Range(out[f])) = Len(out[f])
    <3> DEFINE s == out[f]
               k == Len(s)
               R == Range(s)
    <3>1. s \in Seq(Nets(f)) /\ DOMAIN s = 1 .. k /\ k \in Nat
      BY ExportedIs
    <3>2. s \in [1 .. k -> R]
      BY <3>1 DEF Range
    <3>3. ASSUME NEW i \in 1 .. k, NEW j \in 1 .. k, s[i] = s[j] PROVE i = j
      <4>1. s[i] \in Nets(f)
        BY ExportedIs
      <4>2. s[i].n \in Nat /\ Pow2[Rest(s[i])] \in Nat /\ Pow2[Rest(s[i])] >= 1
        BY <4>1, NetType
      <4>3. s[i].n \in s[i].n .. s[i].n + Pow2[Rest(s[i])] - 1
        BY <4>2
      <4>4. QED
        BY <3>3, <4>3, NoOverlap
    <3>4. \A r \in R : \E i \in 1 .. k : s[i] = r
      BY <3>1 DEF Range
    <3>5. s \in Bijection(1 .. k, R)
      <4> HIDE DEF s, k, R
      <4>1. QED
        BY <3>1, <3>2, <3>3, <3>4 DEF Bijection, Injection, Surjection, IsInjective
    <3> HIDE DEF s, k, R
    <3>6. ExistsBijection(1 .. k, R)
      BY <3>5 DEF ExistsBijection
    <3>7. Cardinality(R) = k
      BY <3>1, <3>6, FS_CountingElements
    <3>8. QED
      BY <3>7 DEF R, k, s
  <2>4. QED
    BY <2>1, <2>2, <2>3 DEF CoveredOnce
<1>2. QED
  BY <1>1, CidrInvariance, PTL

\* The networks are the nodes under the root.
LEMMA NetworksAre ==
  \A p : p \in Networks <=>
           \E f \in Families : p \in Nets(f) /\ Under(Rest(p), p.n, Bits[f], 0)
<1>1. ASSUME NEW p \in Networks
      PROVE  \E f \in Families : p \in Nets(f) /\ Under(Rest(p), p.n, Bits[f], 0)
  <2>1. PICK f \in Families : \E d \in 0 .. Bits[f] : \E k \in 0 .. Pow2[d] - 1 :
                                p = Prefix(f, d, k * Size(f, d))
    BY DEF Networks
  <2>2. PICK d \in 0 .. Bits[f] : \E k \in 0 .. Pow2[d] - 1 : p = Prefix(f, d, k * Size(f, d))
    BY <2>1
  <2>3. PICK k \in 0 .. Pow2[d] - 1 : p = Prefix(f, d, k * Size(f, d))
    BY <2>2
  <2>4. PICK h \in Nat : h = Bits[f] - d /\ d = Bits[f] - h /\ d \in Nat /\ d + h = Bits[f]
                         /\ h \in 0 .. Bits[f]
    BY BitsType
  <2> DEFINE P == Pow2[h]
             D == Pow2[d]
  <2>5. P \in Nat /\ P >= 1 /\ D \in Nat /\ Pow2[Bits[f]] = D * P
    <3>1. P \in Nat /\ P >= 1 /\ D \in Nat
      BY <2>4, Pow2Positive
    <3>2. Pow2[d + h] = Pow2[d] * Pow2[h]
      BY <2>4, Pow2Sum
    <3>3. QED
      BY <2>4, <3>1, <3>2
  <2>6. Size(f, d) = P
    BY <2>4 DEF Size
  <2> HIDE DEF P, D
  <2>7. k \in Nat /\ k + 1 <= D /\ k * P \in Nat
    BY <2>5 DEF D
  <2>8. p \in Nets(f) /\ p.n = k * P /\ Rest(p) = h
    BY <2>3, <2>4, <2>6, <2>7, NetOf
  <2>9. k * P + P <= D * P
    <3>1. (k + 1) * P <= D * P /\ (k + 1) * P = k * P + P
      BY <2>5, <2>7
    <3>2. QED
      BY <3>1
  <2>10. Under(h, k * P, Bits[f], 0)
    <3>1. k * P = 0 + k * P /\ 0 + Pow2[Bits[f]] = D * P
      BY <2>5, <2>7
    <3>2. QED
      BY <2>4, <2>7, <2>9, <3>1 DEF Under, P
  <2>11. QED
    BY <2>8, <2>10
<1>2. ASSUME NEW f \in Families, NEW p \in Nets(f), Under(Rest(p), p.n, Bits[f], 0)
      PROVE  p \in Networks
  <2>1. /\ p = [fam |-> f, n |-> p.n, len |-> p.len] /\ p.n \in Nat
        /\ p.len \in 0 .. Bits[f] /\ Rest(p) = Bits[f] - p.len /\ Rest(p) \in Nat
    BY NetType DEF Nets
  <2> DEFINE d == p.len
             h == Rest(p)
             P == Pow2[h]
             D == Pow2[d]
  <2>2. d \in Nat /\ d + h = Bits[f] /\ Bits[f] \in Nat
    BY <2>1, BitsType
  <2>3. P \in Nat /\ P >= 1 /\ D \in Nat /\ Pow2[Bits[f]] = D * P
    <3>1. h \in Nat
      BY <2>1
    <3> HIDE DEF d, h
    <3>2. QED
      BY <2>2, <3>1, Pow2Positive, Pow2Sum
  <2>4. PICK k \in Nat : p.n = 0 + k * P
    BY <1>2 DEF Under
  <2>5. p.n + P <= 0 + D * P
    BY <1>2, <2>3 DEF Under
  <2>6. Size(f, d) = P
    BY <2>1 DEF Size
  <2> HIDE DEF P, D
  <2>7. k * P \in Nat /\ D * P \in Nat /\ p.n = k * P
    BY <2>3, <2>4
  <2>8. k < D
    <3>1. SUFFICES ASSUME k >= D PROVE FALSE
      BY <2>3
    <3>2. k * P >= D * P
      BY <2>3, <3>1
    <3>3. QED
      BY <2>3, <2>5, <2>7, <3>2
  <2>9. k \in 0 .. D - 1
    BY <2>3, <2>8
  <2>10. p = Prefix(f, d, k * Size(f, d))
    BY <2>1, <2>6, <2>7 DEF Prefix
  <2>11. \E e \in 0 .. Bits[f] : \E m \in 0 .. Pow2[e] - 1 : p = Prefix(f, e, m * Size(f, e))
    BY <2>1, <2>9, <2>10 DEF D
  <2>12. QED
    BY <2>11 DEF Networks
<1>3. QED
  BY <1>1, <1>2

\* The test in whole numbers is the one on the exponents.
LEMMA SizeTests ==
  ASSUME NEW h \in Nat, NEW k \in Nat
  PROVE  (Pow2[h] >= Pow2[k] <=> h >= k) /\ (Pow2[h] < Pow2[k] <=> h < k)
<1>1. Pow2[h] \in Nat /\ Pow2[k] \in Nat
  BY Pow2Positive
<1>2. CASE h < k
  BY <1>1, <1>2, Pow2Grows
<1>3. CASE h = k
  BY <1>1, <1>3
<1>4. CASE k < h
  BY <1>1, <1>4, Pow2Grows
<1>5. QED
  BY <1>2, <1>3, <1>4

\* The stored addresses of a network are as many as their numbers.
LEMMA HeldSame ==
  ASSUME CidrInv, NEW f \in Families, NEW p \in Nets(f)
  PROVE  Cardinality(Extent(p) \cap out.of)
           = Cardinality(Held(Nums(out.of, f), Rest(p), p.n))
<1> DEFINE A == Extent(p) \cap out.of
           N == Held(Nums(out.of, f), Rest(p), p.n)
           F == [a \in A |-> a.n]
<1>1. \A a \in A : a = [fam |-> f, n |-> a.n] /\ a.n \in N
  <2>1. \A a \in A : \E k \in p.n .. p.n + Pow2[Rest(p)] - 1 : a = [fam |-> f, n |-> k]
    BY ExtentIs
  <2>2. \A a \in A : a = [fam |-> f, n |-> a.n] /\ a.n \in p.n .. p.n + Pow2[Rest(p)] - 1
    BY <2>1
  <2>3. QED
    BY <2>2, OutType DEF Held
<1>2. \A x \in N : [fam |-> f, n |-> x] \in A
  BY ExtentIs, OutType DEF Held
<1>3. IsFiniteSet(A)
  BY OutType, FS_Subset
<1> HIDE DEF A, N
<1>4. F \in [A -> N]
  BY <1>1
<1>5. \A a, b \in A : F[a] = F[b] => a = b
  BY <1>1
<1>6. \A x \in N : \E a \in A : F[a] = x
  <2>1. ASSUME NEW x \in N PROVE F[[fam |-> f, n |-> x]] = x
    BY <1>2
  <2>2. QED
    BY <1>2, <2>1
<1> HIDE DEF F
<1>7. F \in Bijection(A, N)
  BY <1>4, <1>5, <1>6 DEF Bijection, Injection, Surjection, IsInjective
<1>8. ExistsBijection(A, N)
  BY <1>7 DEF ExistsBijection
<1>9. Cardinality(N) = Cardinality(A)
  BY <1>3, <1>8, FS_Bijection
<1>10. QED
  BY <1>9 DEF A, N

\* A network whose addresses an int can count qualifies when the walk would merge
\* it, unless the level off is in force.
LEMMA QualifiesIs ==
  ASSUME CidrInv, ~LevelOff, NEW f \in Families, NEW p \in Nets(f), Countable(p)
  PROVE  Qualifies(p) <=> Mergeable(f, Nums(out.of, f), Share, Limit(f), Rest(p), p.n)
<1> DEFINE N == Nums(out.of, f)
           held == Extent(p) \cap out.of
           size == Size(p.fam, p.len)
           half == size \div 2
<1>1. /\ p.fam = f /\ p.n \in Nat /\ p.len \in 0 .. Bits[f]
      /\ Rest(p) = Bits[f] - p.len /\ Rest(p) \in Nat
  BY NetType
<1>2. Bits[f] \in Nat \ {0} /\ IntBits \in Nat \ {0}
  BY BitsType, WidthAssumption
<1>3. Share \in Shares /\ Effective[f] \in Int /\ Effective.enabled \in BOOLEAN
  BY ConfType DEF CidrInv
<1>4. N \subseteq Nat /\ IsFiniteSet(N)
  BY OutType
<1> HIDE DEF N
<1>5. /\ p.len \in 1 .. Bits[f] - 1 <=> Rest(p) \in 1 .. Bits[f] - 1
      /\ p.len = Bits[f] - Rest(p)
  BY <1>1, <1>2
<1>6. p.len \in 1 .. Bits[f] - 1 => (p.len >= Ceiling(f) <=> Bits[f] - Rest(p) >= Limit(f))
  BY <1>1, <1>2, <1>3, <1>5 DEF Ceiling, Limit, Clamp
<1>7. CASE p.len \notin 1 .. Bits[f] - 1 \/ ~Effective.enabled
  <2>1. ASSUME p.len \in 1 .. Bits[f] - 1, ~Effective.enabled
        PROVE  ~(p.len >= Ceiling(f)) /\ ~(Bits[f] - Rest(p) >= Limit(f))
    BY <1>1, <1>2, <1>5, <2>1 DEF Ceiling, Limit
  <2>2. QED
    BY <1>1, <1>5, <1>7, <2>1 DEF Qualifies, Mergeable
<1>8. CASE p.len \in 1 .. Bits[f] - 1 /\ Effective.enabled
  <2>1. PICK g \in Nat : g = Rest(p) - 1 /\ g + 1 = Rest(p)
    BY <1>1, <1>2, <1>5, <1>8
  <2>2. size = Pow2[Rest(p)] /\ Pow2[Rest(p)] = 2 * Pow2[g] /\ Pow2[g] \in Nat /\ Pow2[g] >= 1
    BY <1>1, <2>1, Pow2Def, Pow2Positive DEF Size
  <2>3. half = Pow2[g]
    BY <2>2
  <2>4. Cardinality(held) = Cardinality(Held(N, Rest(p), p.n))
    BY HeldSame DEF N
  <2>5. \A a \in held : a.n \in N /\ a.n \in p.n .. p.n + Pow2[Rest(p)] - 1
    <3>1. \A a \in held : \E k \in p.n .. p.n + Pow2[Rest(p)] - 1 : a = [fam |-> f, n |-> k]
      BY ExtentIs
    <3>2. \A a \in held : a.fam = f /\ a.n \in p.n .. p.n + Pow2[Rest(p)] - 1
      BY <3>1
    <3>3. QED
      BY <3>2, OutType DEF N
  <2>6. \A x \in N : x \in p.n .. p.n + Pow2[Rest(p)] - 1 =>
                       [fam |-> f, n |-> x] \in held
    BY ExtentIs, OutType DEF N
  <2>7. (\E a, b \in held : a.n < p.n + half /\ b.n >= p.n + half)
          <=> Held(N, g, p.n) # {} /\ Held(N, g, p.n + Pow2[g]) # {}
    <3> HIDE DEF held, half
    <3>1. ASSUME NEW a \in held, NEW b \in held, a.n < p.n + half, b.n >= p.n + half
          PROVE  a.n \in Held(N, g, p.n) /\ b.n \in Held(N, g, p.n + Pow2[g])
      BY <1>1, <1>4, <2>2, <2>3, <2>5, <3>1 DEF Held
    <3>2. ASSUME NEW x \in Held(N, g, p.n), NEW y \in Held(N, g, p.n + Pow2[g])
          PROVE  \E a, b \in held : a.n < p.n + half /\ b.n >= p.n + half
      <4>1. /\ x \in N /\ x \in p.n .. p.n + Pow2[Rest(p)] - 1 /\ x < p.n + half
            /\ y \in N /\ y \in p.n .. p.n + Pow2[Rest(p)] - 1 /\ y >= p.n + half
        BY <1>1, <1>4, <2>2, <2>3 DEF Held
      <4>2. [fam |-> f, n |-> x] \in held /\ [fam |-> f, n |-> y] \in held
        BY <2>6, <4>1
      <4>3. [fam |-> f, n |-> x].n = x /\ [fam |-> f, n |-> y].n = y
        OBVIOUS
      <4>4. QED
        BY <4>1, <4>2, <4>3
    <3>3. QED
      BY <3>1, <3>2
  <2>8. /\ size >= Pow2[IntBits] <=> Rest(p) >= IntBits
        /\ size < Pow2[IntBits - 1] <=> Rest(p) < IntBits - 1
    <3>1. IntBits \in Nat /\ IntBits - 1 \in Nat
      BY <1>2
    <3>2. QED
      BY <1>1, <2>2, <3>1, SizeTests
  <2>9. Cardinality(held) * 4 >= Share * size
          <=> 4 * Cardinality(Held(N, Rest(p), p.n)) >= Share * Pow2[Rest(p)]
    <3>1. Cardinality(Held(N, Rest(p), p.n)) \in Nat
      BY <1>1, <1>4, HeldCount
    <3>2. \A x \in Nat : x * 4 = 4 * x
      OBVIOUS
    <3> HIDE DEF held, size
    <3>3. QED
      BY <2>2, <2>4, <3>1, <3>2
  <2>10. Cardinality(held) * 4 >= Share * size
           <=> Enough(Rest(p), Cardinality(Held(N, Rest(p), p.n)), Share)
    <3>1. size < Pow2[IntBits - 1]
      BY DEF Countable
    <3> HIDE DEF held, size
    <3>2. Rest(p) < IntBits - 1 /\ ~(Rest(p) >= IntBits)
      BY <1>1, <1>2, <2>8, <3>1
    <3>3. ~(Share < 0)
      BY <1>8 DEF LevelOff, Share, levelToThreshold, LevelOf
    <3>4. QED
      BY <2>9, <3>2, <3>3 DEF Enough
  <2>11. Qualifies(p) <=>
           /\ p.len \in 1 .. Bits[f] - 1 /\ p.len >= Ceiling(f)
           /\ \E a, b \in held : a.n < p.n + half /\ b.n >= p.n + half
           /\ Cardinality(held) * 4 >= Share * size
    <3>1. LevelOf(Effective.level) \in {"conservative", "balanced", "aggressive"}
      BY <1>8 DEF LevelOff, LevelOf
    <3>2. /\ LevelOf(Effective.level) \in DOMAIN StoredShare
          /\ StoredShare[LevelOf(Effective.level)] = Share
      BY <3>1 DEF StoredShare, Share, levelToThreshold
    <3>3. QED
      BY <1>1, <3>2 DEF Qualifies
  <2> HIDE DEF held, size, half
  <2>12. QED
    BY <1>5, <1>6, <1>8, <2>1, <2>7, <2>10, <2>11 DEF Mergeable, N
<1>9. QED
  BY <1>3, <1>7, <1>8

\* A network inside another is not the wider of the two, and is the other when
\* it is as wide.
LEMMA InsideOrder ==
  ASSUME NEW f \in Families, NEW p \in Nets(f), NEW r \in Nets(f),
         Inside(Rest(p), p.n, Rest(r), r.n)
  PROVE  /\ r.len <= p.len /\ (r.len = p.len => r = p)
         /\ p.n \in Block(r.fam, r.len, r.n) /\ Extent(p) \subseteq Extent(r)
<1> DEFINE P == Pow2[Rest(p)]
           R == Pow2[Rest(r)]
<1>1. /\ p.n \in Nat /\ r.n \in Nat /\ P \in Nat /\ R \in Nat /\ P >= 1 /\ R >= 1
      /\ Rest(p) \in Nat /\ Rest(r) \in Nat
      /\ Rest(p) = Bits[f] - p.len /\ Rest(r) = Bits[f] - r.len
      /\ p.len \in 0 .. Bits[f] /\ r.len \in 0 .. Bits[f] /\ Bits[f] \in Nat
  BY NetType, BitsType
<1>2. r.n <= p.n /\ p.n + P <= r.n + R
  BY DEF Inside
<1>3. R >= P <=> Rest(r) >= Rest(p)
  BY <1>1, SizeTests
<1>4. r.len = p.len => P = R
  BY <1>1
<1> HIDE DEF P, R
<1>5. R >= P
  BY <1>1, <1>2
<1>6. r.len <= p.len
  BY <1>1, <1>3, <1>5
<1>7. r.len = p.len => r = p
  <2>1. r.len = p.len => r.n = p.n
    BY <1>1, <1>2, <1>4
  <2>2. QED
    BY <2>1 DEF Nets
<1>8. p.n \in r.n .. r.n + R - 1 /\ p.n .. p.n + P - 1 \subseteq r.n .. r.n + R - 1
  BY <1>1, <1>2
<1>9. Extent(p) \subseteq Extent(r)
  <2>1. \A a \in Extent(p) : \E k \in p.n .. p.n + P - 1 : a = [fam |-> f, n |-> k]
    BY ExtentIs DEF P
  <2>2. \A k \in r.n .. r.n + R - 1 : [fam |-> f, n |-> k] \in Extent(r)
    BY ExtentIs DEF R
  <2>3. QED
    BY <1>8, <2>1, <2>2
<1>10. p.n \in Block(r.fam, r.len, r.n)
  BY <1>8, ExtentIs DEF R
<1>11. QED
  BY <1>6, <1>7, <1>9, <1>10

\* Of two networks that hold an address, an exported one is as wide as any that
\* the walk would merge.
LEMMA ExportedWidest ==
  ASSUME CidrInv, NEW f \in Families, NEW i \in 1 .. Len(out[f]), NEW r \in Nets(f),
         Under(Rest(r), r.n, Bits[f], 0),
         Mergeable(f, Nums(out.of, f), Share, Limit(f), Rest(r), r.n),
         NEW a \in Extent(out[f][i]), a \in Extent(r)
  PROVE  out[f][i].len <= r.len
<1>1. PICK j \in 1 .. Len(out[f]) : Inside(Rest(r), r.n, Rest(out[f][j]), out[f][j].n)
  BY DEF CidrInv, Shape
<1>2. PICK w \in Nets(f) : w = out[f][j]
  BY ExportedIs
<1>3. PICK p \in Nets(f) : p = out[f][i]
  BY ExportedIs
<1>4. w.len <= r.len /\ Extent(r) \subseteq Extent(w)
  BY <1>1, <1>2, InsideOrder
<1>5. PICK x \in p.n .. p.n + Pow2[Rest(p)] - 1 : a = [fam |-> f, n |-> x]
  BY <1>3, ExtentIs
<1>6. PICK y \in w.n .. w.n + Pow2[Rest(w)] - 1 : a = [fam |-> f, n |-> y]
  BY <1>4, ExtentIs
<1>7. x = y
  BY <1>5, <1>6
<1>8. i = j
  BY <1>2, <1>3, <1>5, <1>6, <1>7, NoOverlap
<1>9. QED
  BY <1>2, <1>4, <1>8

\* The prefix that stands for an address is the widest of its candidates, and an
\* aggregated list is in ascending order: the walk of the tree neither misses a
\* merge nor makes one too many, the level off and networks that an int cannot
\* count apart.
THEOREM AsReferenceHolds == CidrSpec => []AsReference
<1>1. CidrInv => AsReference
  <2> SUFFICES ASSUME CidrInv PROVE AsReference
    OBVIOUS
  <2>1. ASSUME ~LevelOff, NEW p \in Exported, Countable(p),
               NEW a \in Extent(p), a \in out.of
        PROVE  p \in Candidates(a) /\ \A r \in Candidates(a) : p.len <= r.len
    <3>1. PICK f \in Families : \E i \in 1 .. Len(out[f]) : p = out[f][i]
      BY ExportedIs
    <3>2. PICK i \in 1 .. Len(out[f]) : p = out[f][i]
      BY <3>1
    <3>3. /\ p \in Nets(f) /\ p.fam = f /\ p.len \in 0 .. Bits[f]
          /\ Under(Rest(p), p.n, Bits[f], 0)
          /\ Sound(f, Nums(out.of, f), Share, Limit(f), p)
      BY <3>2, ExportedIs, NetType DEF CidrInv, Shape
    <3>4. p \in Networks
      BY <3>3, NetworksAre
    <3>5. Qualifies(p) \/ p.len = Bits[p.fam]
      BY <2>1, <3>3, QualifiesIs DEF Sound
    <3>6. p \in Candidates(a)
      BY <2>1, <3>4, <3>5 DEF Candidates
    <3>7. ASSUME NEW r \in Candidates(a) PROVE p.len <= r.len
      <4>1. /\ r \in Networks /\ a \in Extent(r) /\ Countable(r)
            /\ Qualifies(r) \/ r.len = Bits[r.fam]
        BY DEF Candidates
      <4>2. PICK g \in Families : r \in Nets(g) /\ Under(Rest(r), r.n, Bits[g], 0)
        BY <4>1, NetworksAre
      <4>3. g = f
        <5>1. PICK x : a = [fam |-> f, n |-> x]
          BY <2>1, <3>3, ExtentIs
        <5>2. PICK y : a = [fam |-> g, n |-> y]
          BY <4>1, <4>2, ExtentIs
        <5>3. QED
          BY <5>1, <5>2
      <4>4. r.fam = f
        BY <4>2, <4>3, NetType
      <4>5. CASE r.len = Bits[f]
        BY <3>3, <4>5, BitsType
      <4>6. CASE Qualifies(r)
        <5>1. Mergeable(f, Nums(out.of, f), Share, Limit(f), Rest(r), r.n)
          BY <2>1, <4>1, <4>2, <4>3, <4>6, QualifiesIs
        <5>2. QED
          BY <2>1, <3>2, <4>1, <4>2, <4>3, <5>1, ExportedWidest
      <4>7. QED
        BY <4>1, <4>4, <4>5, <4>6
    <3>8. QED
      BY <3>6, <3>7
  <2>2. Effective.enabled => \A f \in Families : \A i, j \in DOMAIN out[f] :
                                i < j => out[f][i].n < out[f][j].n
    BY ExportedIs DEF CidrInv, Ascending
  <2>3. QED
    BY <2>1, <2>2, Zenon DEF AsReference
<1>2. QED
  BY <1>1, CidrInvariance, PTL

\* A node that may be merged may still be merged with more addresses.
LEMMA MergeableGrows ==
  ASSUME NEW f \in Families, NEW t \in Shares, NEW c, NEW h, NEW b \in Nat,
         NEW old, NEW new, old \subseteq new, new \subseteq Nat, IsFiniteSet(new),
         Mergeable(f, old, t, c, h, b)
  PROVE  Mergeable(f, new, t, c, h, b)
<1>1. h \in 1 .. Bits[f] - 1 /\ Bits[f] \in Nat
  BY BitsType DEF Mergeable
<1>2. h \in Nat /\ Pow2[h] \in Nat
  BY <1>1, Pow2Positive
<1>3. \A g, a : Held(old, g, a) \subseteq Held(new, g, a)
  BY DEF Held
<1>4. /\ Held(new, h - 1, b) # {} /\ Held(new, h - 1, b + Pow2[h - 1]) # {}
  BY <1>3 DEF Mergeable
<1> DEFINE A == Held(old, h, b)
           B == Held(new, h, b)
           k == Cardinality(A)
           m == Cardinality(B)
<1>5. IsFiniteSet(B) /\ A \subseteq B
  BY <1>2, <1>3, HeldCount
<1>6. Enough(h, k, t)
  BY DEF Mergeable
<1> HIDE DEF A, B
<1>7. k \in Nat /\ m \in Nat /\ k <= m
  BY <1>5, FS_Subset, FS_CardinalityType
<1> HIDE DEF k, m
<1>8. t * Pow2[h] \in Int
  BY <1>2 DEF Shares
<1>9. Enough(h, m, t)
  <2> DEFINE w == t * Pow2[h]
  <2>1. h >= IntBits \/ t < 0 \/ (h < IntBits - 1 /\ 4 * k >= w)
    BY <1>6 DEF Enough
  <2>2. w \in Int
    BY <1>8
  <2> HIDE DEF w
  <2>3. 4 * k >= w => 4 * m >= w
    BY <1>7, <2>2
  <2>4. h >= IntBits \/ t < 0 \/ (h < IntBits - 1 /\ 4 * m >= w)
    BY <2>1, <2>3
  <2>5. QED
    BY <2>4 DEF Enough, w
<1>10. QED
  BY <1>1, <1>4, <1>9 DEF Mergeable, m, B

\* What an export covers, the next one covers too.
LEMMA ExportGrows ==
  ASSUME CidrInv, CidrInv', Share' = Share, \A f \in Families : Limit(f)' = Limit(f),
         out.of \subseteq out'.of
  PROVE  Covered(Exported) \subseteq Covered(Exported)'
<1>1. ASSUME NEW a \in Covered(Exported) PROVE a \in Covered(Exported)'
  <2>1. PICK p \in Exported : a \in Extent(p)
    BY DEF Covered
  <2>2. PICK f \in Families : \E i \in 1 .. Len(out[f]) : p = out[f][i]
    BY ExportedIs
  <2>3. PICK i \in 1 .. Len(out[f]) : p = out[f][i]
    BY <2>2
  <2>4. p \in Nets(f)
    BY <2>3, ExportedIs
  <2> DEFINE old == Nums(out.of, f)
             new == Nums(out'.of, f)
             s   == out'[f]
  <2>5. Sound(f, old, Share, Limit(f), p) /\ Under(Rest(p), p.n, Bits[f], 0)
    BY <2>3 DEF CidrInv, Shape
  <2>6. Shape(f, new, Share, Limit(f), s)
    BY DEF CidrInv
  <2>7. old \subseteq new
    BY DEF Nums
  <2>8. new \subseteq Nat /\ IsFiniteSet(new)
    <3>1. out'.of \subseteq Addresses
      BY SeenAssumption DEF CidrInv
    <3>2. QED
      BY <3>1, NumsType
  <2>9. Share \in Shares
    BY ConfType DEF CidrInv
  <2>10. /\ p.n \in Nat /\ Rest(p) \in Nat /\ Rest(p) = Bits[f] - p.len
         /\ Bits[f] \in Nat /\ p.len \in 0 .. Bits[f]
    BY <2>4, NetType, BitsType
  <2>11. s \in Seq(Nets(f)) /\ Len(s) \in Nat /\ \A j \in 1 .. Len(s) : s[j] \in Nets(f)
    <3> HIDE DEF s
    <3>1. s \in Seq(Nets(f))
      BY <2>6 DEF Shape
    <3>2. QED
      BY <3>1
  <2> HIDE DEF old, new, s
  <2>12. \E j \in 1 .. Len(s) : Inside(Rest(p), p.n, Rest(s[j]), s[j].n)
    <3>1. CASE Mergeable(f, old, Share, Limit(f), Rest(p), p.n)
      <4>1. Mergeable(f, new, Share, Limit(f), Rest(p), p.n)
        BY <2>7, <2>8, <2>9, <2>10, <3>1, MergeableGrows
      <4>2. QED
        BY <2>5, <2>6, <4>1 DEF Shape
    <3>2. CASE p.len = Bits[f]
      <4>1. Rest(p) = 0
        BY <2>10, <3>2
      <4>2. Pow2[Rest(p)] = 1
        BY <4>1, Pow2Def
      <4>3. PICK x \in old : x \in p.n .. p.n + Pow2[Rest(p)] - 1
        BY <2>5 DEF Sound, Held
      <4>4. x = p.n
        BY <2>10, <4>2, <4>3
      <4>5. x \in new
        BY <2>7, <4>3
      <4>6. PICK j \in 1 .. Len(s) : x \in Held(new, Rest(s[j]), s[j].n)
        BY <2>6, <4>5 DEF Shape
      <4>7. x \in s[j].n .. s[j].n + Pow2[Rest(s[j])] - 1
        BY <4>6 DEF Held
      <4> DEFINE y == s[j].n
                 P == Pow2[Rest(s[j])]
      <4>8. y \in Nat /\ P \in Nat /\ p.n \in y .. y + P - 1
        BY <2>11, <4>4, <4>7, NetType
      <4>9. s[j].n <= p.n /\ p.n + 1 <= s[j].n + Pow2[Rest(s[j])]
        <5> HIDE DEF y, P
        <5>1. y <= p.n /\ p.n + 1 <= y + P
          BY <2>10, <4>8
        <5>2. QED
          BY <5>1 DEF y, P
      <4>10. QED
        BY <4>2, <4>9 DEF Inside
    <3>3. QED
      BY <2>5, <3>1, <3>2 DEF Sound
  <2>13. PICK j \in 1 .. Len(s) : Inside(Rest(p), p.n, Rest(s[j]), s[j].n)
    BY <2>12
  <2>14. PICK r \in Nets(f) : r = s[j]
    BY <2>11
  <2>15. Extent(p) \subseteq Extent(r)
    BY <2>4, <2>13, <2>14, InsideOrder
  <2>16. r \in Range(s)
    BY <2>11, <2>14 DEF Range
  <2>17. r \in Exported'
    BY <2>16, BitsType DEF Exported, s
  <2>18. QED
    BY <2>1, <2>15, <2>17 DEF Covered
<1>2. QED
  BY <1>1

\* More addresses never take a network out of an export: what one export
\* covers, every later one covers too.
THEOREM GrowsOnlyHolds == CidrSpec => GrowsOnly
<1>1. CidrInv /\ CidrInv' /\ [CidrNext]_cidrVars
        => [Covered(Exported) \subseteq Covered(Exported)']_cidrVars
  <2> SUFFICES ASSUME CidrInv, CidrInv', CidrNext
               PROVE  Covered(Exported) \subseteq Covered(Exported)'
    OBVIOUS
  <2>1. CASE Export
    <3>1. UNCHANGED <<stored, conf>> /\ out'.of = stored
      BY <2>1, ExportShape DEF CidrInv, Export, ExportOf
    <3>2. Share' = Share /\ \A f \in Families : Limit(f)' = Limit(f)
      BY <3>1 DEF Share, Limit, Effective
    <3>3. out.of \subseteq out'.of
      BY <3>1 DEF CidrInv
    <3>4. QED
      BY <3>2, <3>3, ExportGrows
  <2>2. ASSUME NEW a \in Seen, Store(a) PROVE out' = out
    BY <2>2 DEF Store
  <2>3. out' = out => Covered(Exported)' = Covered(Exported)
    BY DEF Exported, Covered
  <2>4. QED
    BY <2>1, <2>2, <2>3 DEF CidrNext
<1>2. QED
  BY <1>1, CidrInvariance, PTL DEF CidrSpec, GrowsOnly

-----------------------------------------------------------------------------
(* PolicyRouter.                                                           *)

\* A list with one entry changed is a list.
LEMMA ListUpdate ==
    ASSUME NEW l \in Lists, NEW p \in AllPrefixes, l[p] > 0
    PROVE  [l EXCEPT ![p] = @ - 1] \in Lists
  BY RouterAssumption DEF Lists

\* A plan is made of two lists.
LEMMA PlanType ==
    ASSUME NEW c \in Lists, NEW d \in Lists
    PROVE  buildPlan(c, d) \in [add : Lists, remove : Lists]
  BY RouterAssumption DEF buildPlan, Lists

\* The empty list is a list, whatever the bound.
LEMMA EmptyType == EmptyList \in Lists
  BY RouterAssumption DEF EmptyList, Lists

\* Leaving ApplyPolicy keeps the types of what it resets.
LEMMA LeaveType ==
    ASSUME NEW o \in {"none", "nil", "err"}, Leave(o)
    PROVE  /\ op' = "idle" /\ fam' = "v4" /\ want' \in Lists /\ read' \in Lists
           /\ plan' \in [add : Lists, remove : Lists]
           /\ result' \in {"none", "nil", "err"} /\ base' \subseteq AllPrefixes
  BY EmptyType DEF Leave, NoPlan

\* Every effect an interrupted command may have had is a set of prefixes.
LEMMA MaybeDoneType ==
    ASSUME TypeOK, NEW ps \in MaybeDone
    PROVE  ps \subseteq AllPrefixes
  <1>1. kernel[backend] \subseteq AllPrefixes /\ Of(fam) \subseteq AllPrefixes
    BY DEF TypeOK, Of, AllPrefixes
  <1> QED BY <1>1 DEF MaybeDone

\* One step preserves the types.
LEMMA TypeStep == TypeOK /\ [Next]_vars => TypeOK'
  <1> SUFFICES ASSUME TypeOK, [Next]_vars PROVE TypeOK'
    OBVIOUS
  <1>0. kernel[backend] \subseteq AllPrefixes /\ Of(fam) \subseteq AllPrefixes
    BY DEF TypeOK, Of, AllPrefixes
  <1>k. ASSUME NEW ps \in SUBSET AllPrefixes, SetKernel(ps)
        PROVE  kernel' \in [Backends -> SUBSET AllPrefixes]
    BY <1>k DEF TypeOK, SetKernel
  <1>1. CASE Reconfigure
    BY <1>1 DEF TypeOK, Reconfigure
  <1>2. ASSUME NEW l \in Lists, ApplyPolicy(l) PROVE TypeOK'
    <2>1. read' \in Lists
      BY <1>2, EmptyType DEF ApplyPolicy, TypeOK
    <2>2. plan' \in [add : Lists, remove : Lists]
      BY <1>2, <2>1, PlanType DEF ApplyPolicy
    <2> QED BY <1>2, <2>1, <2>2, <1>0 DEF ApplyPolicy, TypeOK
  <1>3. ASSUME NEW p \in AllPrefixes, RouteDel(p) PROVE TypeOK'
    <2>1. [plan.remove EXCEPT ![p] = @ - 1] \in Lists
      BY <1>3, ListUpdate DEF RouteDel, TypeOK
    <2>2. plan' \in [add : Lists, remove : Lists]
      BY <1>3, <2>1 DEF RouteDel, TypeOK
    <2>3. kernel' \in [Backends -> SUBSET AllPrefixes]
      BY <1>3, <1>0, <1>k DEF RouteDel
    <2> QED BY <1>3, <2>2, <2>3 DEF RouteDel, TypeOK
  <1>4. ASSUME NEW p \in AllPrefixes, RouteAdd(p) PROVE TypeOK'
    <2>1. [plan.add EXCEPT ![p] = @ - 1] \in Lists
      BY <1>4, ListUpdate DEF RouteAdd, TypeOK
    <2>2. plan' \in [add : Lists, remove : Lists]
      BY <1>4, <2>1 DEF RouteAdd, TypeOK
    <2>3. kernel' \in [Backends -> SUBSET AllPrefixes]
      BY <1>4, <1>0, <1>k DEF RouteAdd
    <2> QED BY <1>4, <2>2, <2>3 DEF RouteAdd, TypeOK
  <1>5. CASE DelDone
    BY <1>5 DEF TypeOK, DelDone
  <1>6. CASE AddDone
    BY <1>6 DEF TypeOK, AddDone, NextFamily
  <1>7. CASE FlushSet
    <2>1. kernel' \in [Backends -> SUBSET AllPrefixes]
      BY <1>7, <1>0, <1>k DEF FlushSet
    <2> QED BY <1>7, <2>1 DEF TypeOK, FlushSet, NextFamily
  <1>8. CASE AddElements
    <2>1. kernel' \in [Backends -> SUBSET AllPrefixes]
      BY <1>8, <1>0, <1>k DEF AddElements
    <2> QED BY <1>8, <2>1 DEF TypeOK, AddElements, NextFamily
  <1>9. CASE SavePolicyState
    <2>1. file' \in Lists
      BY <1>9 DEF SavePolicyState, TypeOK
    <2>2. \E o \in {"none", "nil", "err"} : Leave(o)
      BY <1>9 DEF SavePolicyState
    <2> QED BY <1>9, <2>1, <2>2, LeaveType DEF TypeOK, SavePolicyState
  <1>10. CASE CommandFails
    <2>1. kernel' \in [Backends -> SUBSET AllPrefixes]
      BY <1>10, <1>k, MaybeDoneType DEF CommandFails, TypeOK
    <2> QED BY <1>10, <2>1, LeaveType DEF TypeOK, CommandFails
  <1>11. CASE Crash
    <2>1. kernel' \in [Backends -> SUBSET AllPrefixes]
      BY <1>11, <1>k, MaybeDoneType DEF Crash, TypeOK
    <2> QED BY <1>11, <2>1, LeaveType DEF TypeOK, Crash
  <1>12. CASE Reboot
    BY <1>12, LeaveType DEF TypeOK, Reboot
  <1>13. CASE UNCHANGED vars
    BY <1>13 DEF TypeOK, vars
  <1> QED
    BY <1>1, <1>2, <1>3, <1>4, <1>5, <1>6, <1>7, <1>8, <1>9, <1>10, <1>11,
       <1>12, <1>13 DEF Next

\* The initial state is well typed.
LEMMA InitType == Init => TypeOK
  BY EmptyType DEF Init, TypeOK, NoPlan

\* Type correctness of ApplyPolicy: every variable keeps its type, so the
\* loops over plan.Remove and plan.Add never run past their lists.
THEOREM TypeCorrect == Spec => []TypeOK
  BY InitType, TypeStep, PTL DEF Spec

-----------------------------------------------------------------------------
(* The iproute2 backend *)

\* What the loops over plan.Remove and plan.Add have done to one prefix: it
\* is as it was at the start unless its own command has succeeded, and then
\* the kernel has what the lists ask for.
Effect(p) ==
    /\ plan.remove[p] <= (IF want[p] = 0 THEN read[p] ELSE 0)
    /\ plan.add[p] <= (IF read[p] = 0 THEN want[p] ELSE 0)
    /\ IF want[p] = 0 /\ plan.remove[p] < read[p]
       THEN p \in base /\ p \notin kernel[backend]
       ELSE IF read[p] = 0 /\ plan.add[p] < want[p]
       THEN p \notin base /\ p \in kernel[backend]
       ELSE p \in base <=> p \in kernel[backend]

\* The loops are over: nothing of the family is left in the plan.
Spent(ps) == \A p \in ps : plan.remove[p] = 0 /\ plan.add[p] = 0

\* The invariant of an apply on iproute2.
IpInv ==
    /\ op \in {"del", "add"} => backend = "iproute2"
    /\ op # "idle" /\ backend = "iproute2" =>
          /\ op \in {"del", "add", "save"}
          /\ \A p \in AllPrefixes : Effect(p)
          /\ op = "add" => \A p \in Of(fam) : plan.remove[p] = 0
          /\ fam = "v6" => Spent(V4)
          /\ op = "save" => Spent(AllPrefixes)

\* The invariant of an apply on nftables: what has been flushed and refilled
\* is within the wanted list.
NftInv ==
    op # "idle" /\ backend = "nftables" =>
        /\ op \in {"flush", "elem", "save"}
        /\ Support(plan.add) \subseteq Support(want)
        /\ op = "elem" => kernel[backend] \cap Of(fam) = {}
        /\ fam = "v6" => kernel[backend] \cap V4 \subseteq Support(want)
        /\ op = "save" => kernel[backend] \subseteq Support(want)

IInv == TypeOK /\ IpInv /\ NftInv

\* At the first command nothing has been done.
LEMMA EffectStart ==
    ASSUME TypeOK, NEW l \in Lists, ApplyPolicy(l), NEW p \in AllPrefixes
    PROVE  Effect(p)'
  <1>1. read' \in Lists
    BY EmptyType DEF ApplyPolicy, TypeOK
  <1>2. plan'.add[p] = (IF read'[p] = 0 THEN l[p] ELSE 0)
    BY DEF ApplyPolicy, buildPlan
  <1>3. plan'.remove[p] = (IF l[p] = 0 THEN read'[p] ELSE 0)
    BY DEF ApplyPolicy, buildPlan
  <1>4. read'[p] \in Nat /\ l[p] \in Nat
    BY <1>1, RouterAssumption DEF Lists
  <1>5. want' = l /\ base' = kernel'[backend']
    BY DEF ApplyPolicy
  <1> QED BY <1>2, <1>3, <1>4, <1>5 DEF Effect

\* A deletion changes the prefix it is about as Effect says, and no other.
LEMMA EffectDel ==
    ASSUME TypeOK, NEW q \in AllPrefixes, RouteDel(q), Effect(q),
           NEW p \in AllPrefixes, Effect(p)
    PROVE  Effect(p)'
  <1>1. /\ plan.remove \in Lists /\ plan.add \in Lists
        /\ read \in Lists /\ want \in Lists
    BY DEF TypeOK
  <1>2. /\ plan.remove[p] \in Nat /\ plan.add[p] \in Nat
        /\ read[p] \in Nat /\ want[p] \in Nat
    BY <1>1, RouterAssumption DEF Lists
  <1>3. /\ kernel'[backend'] = kernel[backend] \ {q}
        /\ q \in kernel[backend] /\ plan.remove[q] > 0
        /\ UNCHANGED <<read, want, base>>
    BY DEF RouteDel, SetKernel, TypeOK
  <1>4. plan'.add = plan.add /\ plan'.remove = [plan.remove EXCEPT ![q] = @ - 1]
    BY DEF RouteDel, TypeOK
  <1>5. plan'.remove[p] = IF p = q THEN plan.remove[p] - 1 ELSE plan.remove[p]
    BY <1>1, <1>4 DEF Lists
  <1>6. CASE p = q
    BY <1>2, <1>3, <1>4, <1>5, <1>6 DEF Effect
  <1>7. CASE p # q
    BY <1>2, <1>3, <1>4, <1>5, <1>7 DEF Effect
  <1> QED BY <1>6, <1>7

\* The same for an addition.
LEMMA EffectAdd ==
    ASSUME TypeOK, NEW q \in AllPrefixes, RouteAdd(q), Effect(q),
           NEW p \in AllPrefixes, Effect(p)
    PROVE  Effect(p)'
  <1>1. /\ plan.remove \in Lists /\ plan.add \in Lists
        /\ read \in Lists /\ want \in Lists
    BY DEF TypeOK
  <1>2. /\ plan.remove[p] \in Nat /\ plan.add[p] \in Nat
        /\ read[p] \in Nat /\ want[p] \in Nat
    BY <1>1, RouterAssumption DEF Lists
  <1>3. /\ kernel'[backend'] = kernel[backend] \cup {q}
        /\ q \notin kernel[backend] /\ plan.add[q] > 0
        /\ UNCHANGED <<read, want, base>>
    BY DEF RouteAdd, SetKernel, TypeOK
  <1>4. plan'.remove = plan.remove /\ plan'.add = [plan.add EXCEPT ![q] = @ - 1]
    BY DEF RouteAdd, TypeOK
  <1>5. plan'.add[p] = IF p = q THEN plan.add[p] - 1 ELSE plan.add[p]
    BY <1>1, <1>4 DEF Lists
  <1>6. CASE p = q
    BY <1>2, <1>3, <1>4, <1>5, <1>6 DEF Effect
  <1>7. CASE p # q
    BY <1>2, <1>3, <1>4, <1>5, <1>7 DEF Effect
  <1> QED BY <1>6, <1>7

\* Outside ApplyPolicy the invariants of an apply say nothing.
LEMMA IdleInv == op' = "idle" => IpInv' /\ NftInv'
  BY DEF IpInv, NftInv

\* One step preserves the invariant of an iproute2 apply.
LEMMA IpStep == TypeOK /\ IpInv /\ NftInv /\ [Next]_vars => IpInv'
  <1> SUFFICES ASSUME TypeOK, IpInv, NftInv, [Next]_vars PROVE IpInv'
    OBVIOUS
  <1>b. backend \in {"iproute2", "nftables"}
    BY RouterAssumption DEF TypeOK
  <1>1. CASE Reconfigure
    BY <1>1, IdleInv DEF Reconfigure
  <1>2. ASSUME NEW l \in Lists, ApplyPolicy(l) PROVE IpInv'
    <2>1. \A p \in AllPrefixes : Effect(p)'
      BY <1>2, EffectStart
    <2>2. /\ op' = IF backend = "iproute2" THEN "del" ELSE "flush"
          /\ fam' = "v4" /\ backend' = backend
      BY <1>2 DEF ApplyPolicy
    <2> QED BY <2>1, <2>2 DEF IpInv
  <1>3. ASSUME NEW q \in AllPrefixes, RouteDel(q) PROVE IpInv'
    <2>1. /\ op = "del" /\ op' = "del" /\ fam' = fam /\ backend' = backend
          /\ q \in Of(fam) /\ backend = "iproute2"
      BY <1>3 DEF RouteDel, IpInv
    <2>2. \A p \in AllPrefixes : Effect(p)'
      BY <1>3, <2>1, EffectDel DEF IpInv
    <2>3. ASSUME fam = "v6" PROVE Spent(V4)'
      <3>1. q \notin V4
        BY <2>1, <2>3, RouterAssumption DEF Of
      <3>2. plan'.add = plan.add /\ plan'.remove = [plan.remove EXCEPT ![q] = @ - 1]
        BY <1>3 DEF RouteDel, TypeOK
      <3>3. plan.remove \in Lists /\ V4 \subseteq AllPrefixes
        BY DEF TypeOK, AllPrefixes
      <3>4. \A p \in V4 : plan'.remove[p] = plan.remove[p]
        BY <3>1, <3>2, <3>3 DEF Lists
      <3> QED BY <2>1, <2>3, <3>2, <3>4 DEF IpInv, Spent
    <2> QED BY <2>1, <2>2, <2>3 DEF IpInv
  <1>4. ASSUME NEW q \in AllPrefixes, RouteAdd(q) PROVE IpInv'
    <2>1. /\ op = "add" /\ op' = "add" /\ fam' = fam /\ backend' = backend
          /\ q \in Of(fam) /\ backend = "iproute2"
      BY <1>4 DEF RouteAdd, IpInv
    <2>2. \A p \in AllPrefixes : Effect(p)'
      BY <1>4, <2>1, EffectAdd DEF IpInv
    <2>3. plan'.remove = plan.remove /\ plan'.add = [plan.add EXCEPT ![q] = @ - 1]
      BY <1>4 DEF RouteAdd, TypeOK
    <2>4. ASSUME fam = "v6" PROVE Spent(V4)'
      <3>1. q \notin V4
        BY <2>1, <2>4, RouterAssumption DEF Of
      <3>3. plan.add \in Lists /\ V4 \subseteq AllPrefixes
        BY DEF TypeOK, AllPrefixes
      <3>4. \A p \in V4 : plan'.add[p] = plan.add[p]
        BY <3>1, <2>3, <3>3 DEF Lists
      <3> QED BY <2>1, <2>4, <2>3, <3>4 DEF IpInv, Spent
    <2>5. (\A p \in Of(fam) : plan.remove[p] = 0)'
      BY <2>1, <2>3 DEF IpInv, Of
    <2> QED BY <2>1, <2>2, <2>4, <2>5 DEF IpInv
  <1>5. CASE DelDone
    BY <1>5 DEF DelDone, IpInv, Effect, Spent, Of
  <1>6. CASE AddDone
    <2>1. /\ op = "add" /\ backend = "iproute2"
          /\ UNCHANGED <<backend, kernel, want, read, plan, base>>
          /\ fam' = "v6" /\ op' = IF fam = "v4" THEN "del" ELSE "save"
      BY <1>6 DEF AddDone, NextFamily, IpInv
    <2>2. \A p \in AllPrefixes : Effect(p)'
      BY <2>1 DEF IpInv, Effect
    <2>3. Spent(Of(fam))
      BY <1>6, <2>1 DEF AddDone, IpInv, Spent
    <2>4. Spent(V4) /\ (fam = "v6" => Spent(AllPrefixes))
      BY <2>1, <2>3 DEF IpInv, Spent, Of, AllPrefixes, TypeOK
    <2>5. Spent(V4)' /\ (op' = "save" => Spent(AllPrefixes)')
      BY <2>1, <2>4 DEF Spent, TypeOK
    <2> QED BY <2>1, <2>2, <2>5 DEF IpInv
  <1>7. CASE FlushSet
    BY <1>7, <1>b DEF FlushSet, NextFamily, IpInv, NftInv
  <1>8. CASE AddElements
    BY <1>8, <1>b DEF AddElements, NextFamily, IpInv, NftInv
  <1>9. CASE SavePolicyState
    BY <1>9, IdleInv DEF SavePolicyState, Leave
  <1>10. CASE CommandFails
    BY <1>10, IdleInv DEF CommandFails, Leave
  <1>11. CASE Crash
    BY <1>11, IdleInv DEF Crash, Leave
  <1>12. CASE Reboot
    BY <1>12, IdleInv DEF Reboot, Leave
  <1>13. CASE UNCHANGED vars
    BY <1>13 DEF vars, IpInv, Effect, Spent, Of
  <1> QED
    BY <1>1, <1>2, <1>3, <1>4, <1>5, <1>6, <1>7, <1>8, <1>9, <1>10, <1>11,
       <1>12, <1>13 DEF Next

-----------------------------------------------------------------------------
(* The nftables backend *)

\* What a plan adds is wanted.
LEMMA PlanWithinWant ==
    ASSUME NEW c \in Lists, NEW d \in Lists
    PROVE  Support(buildPlan(c, d).add) \subseteq Support(d)
  BY RouterAssumption DEF buildPlan, Support, Lists

\* One step preserves the invariant of an nftables apply.
LEMMA NftStep == TypeOK /\ IpInv /\ NftInv /\ [Next]_vars => NftInv'
  <1> SUFFICES ASSUME TypeOK, IpInv, NftInv, [Next]_vars PROVE NftInv'
    OBVIOUS
  <1>b. backend \in {"iproute2", "nftables"}
    BY RouterAssumption DEF TypeOK
  <1>k. kernel[backend] \subseteq V4 \cup V6 /\ fam \in {"v4", "v6"}
    BY DEF TypeOK, AllPrefixes
  <1>1. CASE Reconfigure
    BY <1>1, IdleInv DEF Reconfigure
  <1>2. ASSUME NEW l \in Lists, ApplyPolicy(l) PROVE NftInv'
    <2>1. read' \in Lists
      BY <1>2, EmptyType DEF ApplyPolicy, TypeOK
    <2>2. Support(plan.add)' \subseteq Support(want)'
      BY <1>2, <2>1, PlanWithinWant DEF ApplyPolicy, Support
    <2>3. /\ op' = IF backend = "iproute2" THEN "del" ELSE "flush"
          /\ fam' = "v4" /\ backend' = backend
      BY <1>2 DEF ApplyPolicy
    <2> QED BY <2>2, <2>3, <1>b DEF NftInv
  <1>3. ASSUME NEW q \in AllPrefixes, RouteDel(q) PROVE NftInv'
    BY <1>3 DEF RouteDel, IpInv, NftInv
  <1>4. ASSUME NEW q \in AllPrefixes, RouteAdd(q) PROVE NftInv'
    BY <1>4 DEF RouteAdd, IpInv, NftInv
  <1>5. CASE DelDone
    BY <1>5 DEF DelDone, IpInv, NftInv
  <1>6. CASE AddDone
    BY <1>6 DEF AddDone, IpInv, NftInv
  <1>7. CASE FlushSet
    <2>1. /\ op = "flush" /\ backend = "nftables"
          /\ UNCHANGED <<backend, want, plan>>
          /\ kernel'[backend'] = kernel[backend] \ Of(fam)
      BY <1>7, <1>b DEF FlushSet, IpInv, SetKernel, TypeOK
    <2>2. Support(plan.add)' \subseteq Support(want)'
      BY <2>1 DEF NftInv, Support
    <2>3. CASE op' = "elem" /\ fam' = fam
      BY <1>k, <2>1, <2>2, <2>3 DEF NftInv, Of, Support
    <2>4. CASE NextFamily("flush")
      BY <1>k, <2>1, <2>2, <2>4, RouterAssumption DEF NftInv, NextFamily, Of, Support
    <2> QED BY <1>7, <2>3, <2>4 DEF FlushSet
  <1>8. CASE AddElements
    <2>1. /\ op = "elem" /\ backend = "nftables"
          /\ UNCHANGED <<backend, want, plan>>
          /\ kernel'[backend'] = kernel[backend] \cup (Of(fam) \cap Support(plan.add))
          /\ NextFamily("flush")
      BY <1>8, <1>b DEF AddElements, IpInv, SetKernel, TypeOK
    <2>2. Support(plan.add)' \subseteq Support(want)' /\ Support(want)' = Support(want)
      BY <2>1 DEF NftInv, Support
    <2> QED BY <1>k, <2>1, <2>2, RouterAssumption DEF NftInv, NextFamily, Of
  <1>9. CASE SavePolicyState
    BY <1>9, IdleInv DEF SavePolicyState, Leave
  <1>10. CASE CommandFails
    BY <1>10, IdleInv DEF CommandFails, Leave
  <1>11. CASE Crash
    BY <1>11, IdleInv DEF Crash, Leave
  <1>12. CASE Reboot
    BY <1>12, IdleInv DEF Reboot, Leave
  <1>13. CASE UNCHANGED vars
    BY <1>13 DEF vars, NftInv, Of, Support
  <1> QED
    BY <1>1, <1>2, <1>3, <1>4, <1>5, <1>6, <1>7, <1>8, <1>9, <1>10, <1>11,
       <1>12, <1>13 DEF Next

-----------------------------------------------------------------------------
(* What follows *)

\* The inductive invariant: types, the effect of every command of an iproute2
\* apply so far, and how much of an nftables apply has been refilled.
THEOREM Invariance == Spec => []IInv
  <1>1. Init => IInv
    BY InitType DEF Init, IInv, IpInv, NftInv
  <1>2. IInv /\ [Next]_vars => IInv'
    BY TypeStep, IpStep, NftStep DEF IInv
  <1> QED BY <1>1, <1>2, PTL DEF Spec

\* No apply on iproute2, finished or not, touches a route whose membership in
\* the recorded and the wanted list is the same.
THEOREM CommonUntouchedHolds == Spec => []CommonUntouched
  <1>1. IInv => CommonUntouched
    <2> SUFFICES ASSUME IInv, op # "idle", backend = "iproute2",
                        NEW p \in AllPrefixes, read[p] > 0 <=> want[p] > 0
                 PROVE  p \in kernel[backend] <=> p \in base
      BY DEF CommonUntouched
    <2>1. /\ plan.remove[p] \in Nat /\ plan.add[p] \in Nat
          /\ read[p] \in Nat /\ want[p] \in Nat
      BY RouterAssumption DEF IInv, TypeOK, Lists
    <2>2. Effect(p)
      BY DEF IInv, IpInv
    <2> QED BY <2>1, <2>2 DEF Effect
  <1> QED BY <1>1, Invariance, PTL

\* An iproute2 apply that returns nil creates no disagreement between the state
\* file and the kernel.
THEOREM NoNewDriftHolds == Spec => NoNewDrift
  <1>1. IInv /\ [Next]_vars =>
          [Succeeds /\ backend = "iproute2" =>
              Drift(file', kernel'[backend]) \subseteq Drift(read, base)]_vars
    <2> SUFFICES ASSUME IInv, Next, Succeeds, backend = "iproute2"
                 PROVE  Drift(file', kernel'[backend]) \subseteq Drift(read, base)
      BY DEF vars
    <2>1. file' = want /\ kernel' = kernel
      BY DEF Succeeds, Next, Reconfigure, ApplyPolicy, RouteDel, RouteAdd,
             DelDone, AddDone, FlushSet, AddElements, SavePolicyState, Leave,
             CommandFails, Crash, Reboot
    <2>2. ASSUME NEW p \in AllPrefixes
          PROVE  p \in Drift(want, kernel[backend]) => p \in Drift(read, base)
      <3>1. read[p] \in Nat /\ want[p] \in Nat
        BY RouterAssumption DEF IInv, TypeOK, Lists
      <3>2. Effect(p) /\ plan.remove[p] = 0 /\ plan.add[p] = 0
        BY DEF IInv, IpInv, Succeeds, Spent
      <3> QED BY <3>1, <3>2 DEF Effect, Drift, Support
    <2>3. Drift(want, kernel[backend]) \subseteq AllPrefixes
      BY DEF IInv, TypeOK, Drift, Support
    <2> QED BY <2>1, <2>2, <2>3
  <1> QED BY <1>1, Invariance, PTL DEF Spec, NoNewDrift

\* After a successful nftables apply the sets hold nothing outside the policy.
THEOREM FlushDropsStaleHolds == Spec => FlushDropsStale
  <1>1. IInv /\ [Next]_vars =>
          [Succeeds /\ backend = "nftables" =>
              kernel'[backend] \subseteq Support(want)]_vars
    <2> SUFFICES ASSUME IInv, Next, Succeeds, backend = "nftables"
                 PROVE  kernel'[backend] \subseteq Support(want)
      BY DEF vars
    <2>1. kernel' = kernel
      BY DEF Succeeds, Next, Reconfigure, ApplyPolicy, RouteDel, RouteAdd,
             DelDone, AddDone, FlushSet, AddElements, SavePolicyState, Leave,
             CommandFails, Crash, Reboot
    <2> QED BY <2>1 DEF IInv, NftInv, Succeeds
  <1> QED BY <1>1, Invariance, PTL DEF Spec, FlushDropsStale
=============================================================================
