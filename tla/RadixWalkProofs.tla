-------------------------- MODULE RadixWalkProofs --------------------------
(***************************************************************************)
(* Proofs about the walk over a radix tree (module RadixWalk), for every   *)
(* fan-out of a node, every width of an unsigned long and of an unsigned   *)
(* int, every set of indices and every number of buffer heads of a page.   *)
(*                                                                         *)
(* Three layers.  The arithmetic: what a power of two is, and how division *)
(* by powers of two takes a number apart.  The powers come from the number *)
(* of subsets of 1 .. n and an induction is a least counterexample: a set  *)
(* of natural numbers that is not empty has a least member.  The tree: its *)
(* height reaches every index, a slot is the next digit of an index, and   *)
(* the table of the largest indices is right.  The walk: WalkInv, which    *)
(* says what the walk holds while the tree changes under it (HoldInv), that*)
(* the way to a page that stays remains open (WayInv), that a tree that has*)
(* not lost a level reaches all that the walk goes through (ReachInv), that*)
(* then each page has been counted once (CountInv), and every page if      *)
(* nothing changed (QuietInv).                                             *)
(***************************************************************************)
EXTENDS RadixWalk, FiniteSetTheorems, FunctionTheorems, WellFoundedInduction, TLAPS

-----------------------------------------------------------------------------
(* The arithmetic.                                                         *)

\* A set of natural numbers has a least member, unless it is empty.
LEMMA LeastNatural ==
    ASSUME NEW S, S \subseteq Nat, S # {}
    PROVE  \E m \in S : \A k \in S : m <= k
<1>1. \E m \in S : \A k \in S : ~ (<<k, m>> \in OpToRel(<, Nat))
  BY NatLessThanWellFounded, WFMin
<1>2. \A k, m \in Nat : <<k, m>> \in OpToRel(<, Nat) <=> k < m
  BY DEF OpToRel
<1>3. PICK m \in S : \A k \in S : ~ (<<k, m>> \in OpToRel(<, Nat))
  BY <1>1
<1>4. \A k \in S : ~ (k < m)
  BY <1>2, <1>3
<1> QED
  BY <1>4

\* The laws that define a power of two, from the subsets of 1 .. n: those of
\* 1 .. n + 1 are those without n + 1 and as many with it.
LEMMA PowerOfTwo ==
    /\ 2^0 = 1
    /\ \A n \in Nat : 2^n \in Nat \ {0} /\ 2^(n + 1) = 2 * 2^n
<1>1. ASSUME NEW n \in Nat
      PROVE  /\ IsFiniteSet(SUBSET (1 .. n))
             /\ Cardinality(SUBSET (1 .. n)) = 2^n
  <2>1. IsFiniteSet(1 .. n) /\ Cardinality(1 .. n) = n
    BY FS_Interval
  <2> QED
    BY <2>1, FS_SUBSET
<1>2. 2^0 = 1
  <2>1. SUBSET (1 .. 0) = {{}}
    OBVIOUS
  <2> QED
    BY <1>1, <2>1, FS_Singleton
<1>3. ASSUME NEW n \in Nat PROVE 2^n \in Nat \ {0}
  <2>1. SUBSET (1 .. n) # {}
    OBVIOUS
  <2> QED
    BY <1>1, <2>1, FS_CardinalityType, FS_EmptySet
<1>4. ASSUME NEW n \in Nat PROVE 2^(n + 1) = 2 * 2^n
  <2> DEFINE S == SUBSET (1 .. n)
             T == {x \in SUBSET (1 .. n + 1) : n + 1 \in x}
             f == [x \in S |-> x \cup {n + 1}]
  <2>1. f \in [S -> T]
    OBVIOUS
  <2>2. \A x, y \in S : f[x] = f[y] => x = y
    OBVIOUS
  <2>3. \A t \in T : \E x \in S : f[x] = t
    <3> SUFFICES ASSUME NEW t \in T PROVE \E x \in S : f[x] = t
      OBVIOUS
    <3>1. t \ {n + 1} \in S
      OBVIOUS
    <3>2. f[t \ {n + 1}] = t
      BY <3>1
    <3> QED
      BY <3>1, <3>2
  <2>4. ExistsBijection(S, T)
    BY <2>1, <2>2, <2>3, Fun_IsBij DEF ExistsBijection
  <2>5. IsFiniteSet(T) /\ Cardinality(T) = 2^n
    BY <1>1, <2>4, FS_Bijection
  <2>6. S \cup T = SUBSET (1 .. n + 1) /\ S \cap T = {}
    OBVIOUS
  <2>7. IsFiniteSet(S) /\ Cardinality(S) = 2^n
    BY <1>1
  <2>8. Cardinality(SUBSET (1 .. n + 1)) = 2^(n + 1)
    BY <1>1
  <2> HIDE DEF S, T
  <2>9. Cardinality(S \cup T) = 2^n + 2^n - 0
    BY <2>5, <2>6, <2>7, FS_Union, FS_EmptySet
  <2>10. 2^(n + 1) = 2^n + 2^n - 0
    BY <2>6, <2>8, <2>9, Zenon
  <2>11. 2^n \in Nat
    BY <1>3
  <2> QED
    BY <2>10, <2>11
<1> QED
  BY <1>2, <1>3, <1>4

\* By a least b for which it is wrong.
LEMMA PowerSum == \A a, b \in Nat : 2^(a + b) = 2^a * 2^b
<1> SUFFICES ASSUME NEW a \in Nat PROVE \A b \in Nat : 2^(a + b) = 2^a * 2^b
  OBVIOUS
<1> DEFINE S == {b \in Nat : 2^(a + b) # 2^a * 2^b}
<1>1. 2^a \in Nat
  BY PowerOfTwo
<1>2. SUFFICES S = {}
  OBVIOUS
<1>3. SUFFICES ASSUME S # {} PROVE FALSE
  OBVIOUS
<1>4. PICK b \in S : \A k \in S : b <= k
  BY <1>3, LeastNatural
<1>5. b # 0
  <2>1. a + 0 = a /\ 2^0 = 1 /\ 2^a * 1 = 2^a
    BY <1>1, PowerOfTwo
  <2> QED
    BY <2>1
<1>6. PICK c \in Nat : b = c + 1
  <2>1. b - 1 \in Nat /\ b = (b - 1) + 1
    BY <1>5
  <2> QED
    BY <2>1
<1>7. 2^(a + c) = 2^a * 2^c
  <2>1. ~ (b <= c)
    BY <1>6
  <2> QED
    BY <1>4, <2>1
<1>8. 2^c \in Nat /\ 2^(c + 1) = 2 * 2^c /\ 2^((a + c) + 1) = 2 * 2^(a + c)
  BY PowerOfTwo
<1>9. \A x, y \in Nat : 2 * (x * y) = x * (2 * y)
  OBVIOUS
<1>10. a + (c + 1) = (a + c) + 1
  OBVIOUS
<1> HIDE DEF S
<1>11. 2^(a + (c + 1)) = 2^a * 2^(c + 1)
  BY <1>1, <1>7, <1>8, <1>9, <1>10
<1> QED
  BY <1>6, <1>11 DEF S

\* Powers of two grow with the exponent.
LEMMA PowerMonotone ==
    ASSUME NEW a \in Nat, NEW b \in Nat, a <= b
    PROVE  2^a <= 2^b
<1>1. b - a \in Nat /\ a + (b - a) = b
  OBVIOUS
<1>2. 2^b = 2^a * 2^(b - a)
  BY <1>1, PowerSum
<1>3. 2^a \in Nat \ {0} /\ 2^(b - a) \in Nat \ {0}
  BY <1>1, PowerOfTwo
<1>4. \A x, y \in Nat \ {0} : x <= x * y
  <2> SUFFICES ASSUME NEW x \in Nat \ {0}, NEW y \in Nat \ {0} PROVE x <= x * y
    OBVIOUS
  <2>1. y >= 1
    OBVIOUS
  <2> QED
    BY <2>1
<1> QED
  BY <1>2, <1>3, <1>4

\* Quotient and remainder.
LEMMA Division ==
    ASSUME NEW i \in Nat, NEW b \in Nat \ {0}
    PROVE  /\ i \div b \in Nat /\ i % b \in 0 .. b - 1
           /\ i = b * (i \div b) + (i % b)
<1>1. i \div b \in Int /\ i % b \in 0 .. b - 1
  OBVIOUS
<1>2. i = b * (i \div b) + (i % b)
  OBVIOUS
<1>3. i \div b \in Nat
  BY <1>1, <1>2
<1> QED
  BY <1>1, <1>2, <1>3

\* No other quotient and remainder will do.
LEMMA DivisionUnique ==
    ASSUME NEW b \in Nat \ {0}, NEW q \in Nat, NEW r \in 0 .. b - 1
    PROVE  (b * q + r) \div b = q /\ (b * q + r) % b = r
<1> DEFINE i == b * q + r
<1>1. i \in Nat
  OBVIOUS
<1>2. i \div b \in Nat /\ i % b \in 0 .. b - 1 /\ i = b * (i \div b) + (i % b)
  BY <1>1, Division
<1>3. ASSUME NEW x \in Nat, NEW y \in 0 .. b - 1, b * q + r = b * x + y
      PROVE  q = x
  <2>1. b * (q - x) = y - r
    BY <1>3
  <2>2. ~ (q - x >= 1)
    <3> SUFFICES ASSUME q - x >= 1 PROVE FALSE
      OBVIOUS
    <3>1. b * (q - x) >= b
      OBVIOUS
    <3> QED
      BY <2>1, <3>1
  <2>3. ~ (x - q >= 1)
    <3> SUFFICES ASSUME x - q >= 1 PROVE FALSE
      OBVIOUS
    <3>1. b * (x - q) >= b
      OBVIOUS
    <3>2. b * (x - q) = r - y
      BY <1>3
    <3> QED
      BY <3>1, <3>2
  <2> QED
    BY <2>2, <2>3
<1>4. i \div b = q
  BY <1>2, <1>3
<1>5. i % b = r
  BY <1>2, <1>4
<1> QED
  BY <1>4, <1>5

\* Dividing twice is dividing by the product.
LEMMA DivDiv ==
    ASSUME NEW i \in Nat, NEW b \in Nat \ {0}, NEW c \in Nat \ {0}
    PROVE  (i \div b) \div c = i \div (b * c)
<1> DEFINE q == i \div b
           s == q \div c
           r == i % b
           t == q % c
<1>1. q \in Nat /\ r \in 0 .. b - 1 /\ i = b * q + r
  BY Division
<1>2. s \in Nat /\ t \in 0 .. c - 1 /\ q = c * s + t
  BY <1>1, Division
<1> HIDE DEF q, s, r, t
<1>3. b * c \in Nat \ {0}
  OBVIOUS
<1>4. i = (b * c) * s + (b * t + r)
  BY <1>1, <1>2
<1>5. b * t + r \in 0 .. b * c - 1
  <2>1. b * t <= b * (c - 1)
    BY <1>2
  <2>2. b * (c - 1) = b * c - b
    OBVIOUS
  <2>3. b * t \in Nat
    BY <1>2
  <2> QED
    BY <1>1, <1>3, <2>1, <2>2, <2>3
<1>6. i \div (b * c) = s
  BY <1>2, <1>3, <1>4, <1>5, DivisionUnique
<1> QED
  BY <1>6 DEF q, s

-----------------------------------------------------------------------------
(* The tree.                                                               *)

\* What the assumptions say of the constants.
LEMMA Widths ==
    /\ MapShift \in Nat \ {0} /\ LongBits \in Nat \ {0} /\ IntBits \in Nat \ {0}
    /\ IntBits <= LongBits /\ PageIndices \subseteq Nat
    /\ \A h \in Nat : h * MapShift \in Nat
    /\ \A h, k \in Nat : h <= k => h * MapShift <= k * MapShift
<1>1. /\ MapShift \in Nat \ {0} /\ LongBits \in Nat \ {0} /\ IntBits \in Nat \ {0}
      /\ IntBits <= LongBits /\ PageIndices \subseteq Nat
  BY RadixAssumption
<1>2. \A h \in Nat : h * MapShift \in Nat
  BY <1>1
<1>3. ASSUME NEW h \in Nat, NEW k \in Nat, h <= k
      PROVE  h * MapShift <= k * MapShift
  <2>1. PICK d \in Nat : k = h + d
    <3>1. k - h \in Nat /\ k = h + (k - h)
      BY <1>3
    <3> QED
      BY <3>1
  <2>2. k * MapShift = h * MapShift + d * MapShift
    BY <1>1, <2>1
  <2> QED
    BY <1>2, <2>2
<1> QED
  BY <1>1, <1>2, <1>3

\* The highest tree reaches every index of an unsigned long.
LEMMA PathReaches ==
    /\ RADIX_TREE_MAX_PATH \in Nat
    /\ LongBits <= RADIX_TREE_MAX_PATH * MapShift
<1> DEFINE n == LongBits + MapShift - 1
<1>1. n \in Nat /\ MapShift \in Nat \ {0} /\ LongBits \in Nat
  BY Widths
<1>2. /\ n \div MapShift \in Nat /\ n % MapShift \in 0 .. MapShift - 1
      /\ n = MapShift * (n \div MapShift) + (n % MapShift)
  BY <1>1, Division
<1>3. RADIX_TREE_MAX_PATH = n \div MapShift
  BY DEF RADIX_TREE_MAX_PATH
<1>4. ASSUME NEW q \in Nat, NEW r \in 0 .. MapShift - 1, n = MapShift * q + r
      PROVE  LongBits <= q * MapShift
  <2>1. MapShift * q = q * MapShift /\ MapShift * q \in Nat
    BY <1>1
  <2> QED
    BY <1>1, <1>4, <2>1
<1> QED
  BY <1>2, <1>3, <1>4

\* A tree has the least height that all of its indices fit.
LEMMA TreeHeight ==
    ASSUME NEW is, is \subseteq PageIndices
    PROVE  /\ tree_height(is) \in Nat /\ tree_height(is) <= RADIX_TREE_MAX_PATH
           /\ Fits(is, tree_height(is))
           /\ \A k \in 0 .. tree_height(is) - 1 : ~ Fits(is, k)
<1> DEFINE P == RADIX_TREE_MAX_PATH
           S == {h \in 0 .. P : Fits(is, h)}
<1>1. P \in Nat /\ LongBits <= P * MapShift /\ P * MapShift \in Nat
  BY PathReaches, Widths
<1>2. 2^LongBits <= 2^(P * MapShift) /\ 2^LongBits \in Nat /\ 2^(P * MapShift) \in Nat
  BY <1>1, PowerMonotone, PowerOfTwo, Widths
<1>3. Fits(is, P)
  <2> SUFFICES ASSUME NEW i \in is PROVE i < 2^(P * MapShift)
    BY DEF Fits
  <2>1. i \in 0 .. 2^LongBits - 1
    BY RadixAssumption
  <2> QED
    BY <1>2, <2>1
<1>4. P \in S /\ S \subseteq Nat
  BY <1>1, <1>3
<1>5. PICK m \in S : \A k \in S : m <= k
  <2> HIDE DEF S
  <2> QED
    BY <1>4, LeastNatural
<1>6. m \in 0 .. P /\ Fits(is, m)
  BY <1>5
<1>7. \A k \in 0 .. m - 1 : ~ Fits(is, k)
  BY <1>1, <1>5, <1>6
<1>8. \E h \in 0 .. P : Fits(is, h) /\ \A k \in 0 .. h - 1 : ~ Fits(is, k)
  BY <1>6, <1>7
<1>9. /\ tree_height(is) \in 0 .. P /\ Fits(is, tree_height(is))
      /\ \A k \in 0 .. tree_height(is) - 1 : ~ Fits(is, k)
  BY <1>8 DEF tree_height
<1> QED
  BY <1>1, <1>9

\* What is less than b has no multiple of b in it, and what is not has one.
LEMMA SmallDiv ==
    ASSUME NEW n \in Nat, NEW b \in Nat \ {0}
    PROVE  n \div b = 0 <=> n < b
<1>1. ASSUME n < b PROVE n \div b = 0
  <2>1. b * 0 + n = n /\ n \in 0 .. b - 1
    BY <1>1
  <2> QED
    BY <2>1, DivisionUnique
<1>2. ASSUME n \div b = 0 PROVE n < b
  <2>1. n = b * 0 + (n % b) /\ n % b \in 0 .. b - 1
    BY <1>2, Division
  <2> QED
    BY <2>1
<1> QED
  BY <1>1, <1>2

\* What a node of this height spans.
Span(l) == 2^(l * MapShift)

\* A level multiplies the span.
LEMMA Spans ==
    /\ \A l \in Nat : Span(l) \in Nat \ {0}
    /\ \A l, k \in Nat : l <= k => Span(l) <= Span(k)
    /\ \A l \in Nat \ {0} : l - 1 \in Nat /\ Span(l) = Span(l - 1) * 2^MapShift
    /\ Span(0) = 1 /\ 2^MapShift \in Nat \ {0}
<1>1. \A l \in Nat : Span(l) \in Nat \ {0}
  BY Widths, PowerOfTwo DEF Span
<1>2. ASSUME NEW l \in Nat, NEW k \in Nat, l <= k PROVE Span(l) <= Span(k)
  <2>1. l * MapShift \in Nat /\ k * MapShift \in Nat /\ l * MapShift <= k * MapShift
    BY <1>2, Widths
  <2> QED
    BY <2>1, PowerMonotone DEF Span
<1>3. ASSUME NEW l \in Nat \ {0}
      PROVE  l - 1 \in Nat /\ Span(l) = Span(l - 1) * 2^MapShift
  <2>1. l - 1 \in Nat
    OBVIOUS
  <2>2. PICK c \in Nat : l - 1 = c /\ l = c + 1
    BY <2>1
  <2>3. (c + 1) * MapShift = c * MapShift + MapShift /\ c * MapShift \in Nat
    BY Widths
  <2>4. 2^(c * MapShift + MapShift) = 2^(c * MapShift) * 2^MapShift
    BY <2>3, Widths, PowerSum
  <2> QED
    BY <2>1, <2>2, <2>3, <2>4 DEF Span
<1>4. Span(0) = 1
  <2>1. 0 * MapShift = 0
    BY Widths
  <2> QED
    BY <2>1, PowerOfTwo DEF Span
<1>5. 2^MapShift \in Nat \ {0}
  BY Widths, PowerOfTwo
<1> QED
  BY <1>1, <1>2, <1>3, <1>4, <1>5

\* A slot is the next digit of the index: what the digits before it and the slot
\* make is the index without its lower digits.
LEMMA NextDigit ==
    ASSUME NEW i \in Nat, NEW l \in Nat \ {0}
    PROVE  /\ slot(i, l) \in Nat
           /\ i \div Span(l - 1) = (i \div Span(l)) * 2^MapShift + slot(i, l)
<1> DEFINE b == Span(l - 1)
           m == 2^MapShift
<1>1. b \in Nat \ {0} /\ m \in Nat \ {0} /\ Span(l) = b * m
  BY Spans
<1>2. slot(i, l) = (i \div b) % m
  BY DEF slot, Span
<1> HIDE DEF b, m
<1>3. i \div b \in Nat
  BY <1>1, Division
<1>4. /\ (i \div b) \div m \in Nat /\ (i \div b) % m \in 0 .. m - 1
      /\ i \div b = m * ((i \div b) \div m) + ((i \div b) % m)
  BY <1>1, <1>3, Division
<1>5. (i \div b) \div m = i \div Span(l)
  <2>1. (i \div b) \div m = i \div (b * m)
    BY <1>1, DivDiv
  <2> QED
    BY <1>1, <2>1
<1>6. \A x \in Nat : m * x = x * m
  BY <1>1
<1>7. i \div b = (i \div Span(l)) * m + slot(i, l)
  BY <1>2, <1>4, <1>5, <1>6
<1> QED
  BY <1>1, <1>2, <1>4, <1>7 DEF b, m

\* The bits of an index that a tree of height h reaches.
Reach(h) == IF h * MapShift < LongBits THEN h * MapShift ELSE LongBits

\* The lowest a of a + s bits that are all set.
LEMMA LowBits ==
    ASSUME NEW a \in Nat, NEW s \in Nat
    PROVE  /\ (2^(a + s) - 1) \div 2^s = 2^a - 1
           /\ (2^(a + s) - 1) % 2^s = 2^s - 1
<1> DEFINE A == 2^a
           B == 2^s
<1>1. A \in Nat \ {0} /\ B \in Nat \ {0} /\ 2^(a + s) = A * B
  BY PowerOfTwo, PowerSum
<1> HIDE DEF A, B
<1>2. A * B - 1 = B * (A - 1) + (B - 1) /\ A - 1 \in Nat /\ B - 1 \in 0 .. B - 1
  BY <1>1
<1>3. (A * B - 1) \div B = A - 1 /\ (A * B - 1) % B = B - 1
  BY <1>1, <1>2, DivisionUnique
<1> QED
  BY <1>1, <1>3 DEF A, B

\* height_to_maxindex is what the levels multiply to.
LEMMA TableRight ==
    ASSUME NEW h \in 0 .. RADIX_TREE_MAX_PATH
    PROVE  height_to_maxindex[h] = 2^Reach(h) - 1
<1>1. height_to_maxindex[h] = maxindex(h)
  BY DEF height_to_maxindex
<1> DEFINE w == h * MapShift
           shift == LongBits - w
<1>2. w \in Nat /\ LongBits \in Nat \ {0}
  BY Widths, PathReaches
<1>3. CASE w > LongBits
  <2>1. shift < 0 /\ ~ (shift >= LongBits) /\ Reach(h) = LongBits
    BY <1>2, <1>3 DEF Reach
  <2>2. maxindex(h) = 2^LongBits - 1
    BY <2>1 DEF maxindex, ULONG_MAX
  <2> QED
    BY <1>1, <2>1, <2>2
<1>4. CASE w = 0
  <2>1. ~ (shift < 0) /\ shift >= LongBits /\ Reach(h) = 0
    BY <1>2, <1>4 DEF Reach
  <2>2. maxindex(h) = 0
    BY <2>1 DEF maxindex
  <2>3. 2^Reach(h) - 1 = 0
    BY <2>1, PowerOfTwo
  <2> QED
    BY <1>1, <2>2, <2>3
<1>5. CASE 0 < w /\ w <= LongBits
  <2>1. ~ (shift < 0) /\ ~ (shift >= LongBits) /\ shift \in Nat /\ Reach(h) = w
    BY <1>2, <1>5 DEF Reach
  <2>2. maxindex(h) = (2^LongBits - 1) \div 2^shift
    BY <2>1 DEF maxindex, ULONG_MAX
  <2>3. w + shift = LongBits
    BY <1>2
  <2>4. (2^(w + shift) - 1) \div 2^shift = 2^w - 1
    BY <1>2, <2>1, LowBits
  <2> QED
    BY <1>1, <2>1, <2>2, <2>3, <2>4
<1> QED
  BY <1>2, <1>3, <1>4, <1>5

\* What the table and the unsigned int leave for the last index.
LEMMA LastIndex ==
    ASSUME NEW h \in 0 .. RADIX_TREE_MAX_PATH
    PROVE  height_to_maxindex[h] % 2^IntBits =
              2^(IF Reach(h) < IntBits THEN Reach(h) ELSE IntBits) - 1
<1>1. Reach(h) \in Nat /\ IntBits \in Nat
  BY Widths, PathReaches DEF Reach
<1>2. height_to_maxindex[h] = 2^Reach(h) - 1
  BY TableRight
<1>3. 2^IntBits \in Nat \ {0} /\ 2^Reach(h) \in Nat \ {0}
  BY <1>1, PowerOfTwo
<1>4. CASE Reach(h) < IntBits
  <2>1. 2^Reach(h) <= 2^IntBits
    BY <1>1, <1>4, PowerMonotone
  <2>2. 2^IntBits * 0 + (2^Reach(h) - 1) = 2^Reach(h) - 1
    BY <1>3
  <2>3. 2^Reach(h) - 1 \in 0 .. 2^IntBits - 1
    BY <1>3, <2>1
  <2>4. (2^Reach(h) - 1) % 2^IntBits = 2^Reach(h) - 1
    BY <1>3, <2>2, <2>3, DivisionUnique
  <2> QED
    BY <1>2, <1>4, <2>4
<1>5. CASE ~ (Reach(h) < IntBits)
  <2>1. PICK d \in Nat : Reach(h) = d + IntBits
    <3>1. Reach(h) - IntBits \in Nat /\ Reach(h) = (Reach(h) - IntBits) + IntBits
      BY <1>1, <1>5
    <3> QED
      BY <3>1
  <2>2. (2^(d + IntBits) - 1) % 2^IntBits = 2^IntBits - 1
    BY <1>1, LowBits
  <2> QED
    BY <1>2, <1>5, <2>1, <2>2
<1> QED
  BY <1>4, <1>5

-----------------------------------------------------------------------------
(* The walk.                                                               *)

WalkType ==
    /\ wstable \subseteq items /\ items \subseteq PageIndices /\ bufs \subseteq items
    /\ wseen \subseteq Nat /\ IsFiniteSet(wseen) /\ index \in 0 .. ULONG_MAX
    /\ max_index \in 0 .. 2^IntBits - 1
    /\ page_count \in Nat /\ buffer_head_count \in Nat /\ changes \in Nat
    /\ lvl \in 0 .. RADIX_TREE_MAX_PATH /\ foot \in 0 .. lvl /\ base \in Nat
    /\ wshrunk \in BOOLEAN /\ wgone \in BOOLEAN /\ wfreed \in BOOLEAN

\* Before the walk nothing has happened.
IdleInv ==
    wpc = "idle" =>
        /\ index = 0 /\ wseen = {} /\ page_count = 0 /\ buffer_head_count = 0
        /\ ~ wshrunk /\ changes = 0 /\ max_index = 0 /\ wstray = {}

\* What the walk holds: a chain of nodes of which those above foot were cut off.
HoldInv ==
    /\ wpc = "slot" => lvl > 0
    /\ wpc \in {"root", "page", "ring"} => lvl = 0
    /\ lvl > foot => wshrunk /\ base = 0
    /\ wfreed => wgone \/ lvl > foot

\* The way to a page that is there all the time stays open, wherever the walk is
\* on it.
WayInv ==
    index \in wstable =>
        /\ wpc = "slot" => /\ ~ wgone
                           /\ base = index \div Span(lvl)
                           /\ base = index \div Span(foot)
        /\ wpc \in {"page", "ring"} => base = index

Walking == {"root", "slot", "page", "ring"}

\* A tree that has not lost a level reaches all that the walk goes through, and
\* the walk is on the way to its index.
ReachInv ==
    /\ wpc \in Walking => index <= max_index
    /\ wpc = "begin" => index = 0 /\ max_index = 0
    /\ ~ wshrunk =>
          /\ wpc \in {"begin", "root", "slot"} => tree_height(items) > 0
          /\ wpc \in {"page", "ring"} => tree_height(items) > 0 \/ max_index = 0
          /\ lvl <= tree_height(items)
    /\ ~ wshrunk /\ wstray = {} =>
          /\ wpc \in Walking => max_index < Span(tree_height(items))
          /\ wpc = "slot" => base = index \div Span(lvl)
          /\ wpc \in {"page", "ring"} => base = index

\* The walk dies of nothing else.
OopsInv == wpc = "oops" => wshrunk \/ wstray # {} \/ wgone

\* Then each page is counted once, when the index is its own.
CountInv ==
    max_index # ULONG_MAX /\ ~ wshrunk /\ wstray = {} =>
        wseen \subseteq 0 .. index - 1 /\ page_count = Cardinality(wseen)

\* And without a change every page is counted.
QuietInv ==
    changes = 0 =>
        /\ ~ wshrunk /\ ~ wgone /\ wstray = {} /\ lvl = foot
        /\ wseen \subseteq items
        /\ max_index # ULONG_MAX =>
              /\ {i \in items : i < index} \subseteq wseen
              /\ buffer_head_count = BuffersPerPage * Cardinality(wseen \cap bufs)
        /\ wpc = "begin" => lvl = tree_height(items)
        /\ wpc \in Walking \cup {"done"} =>
              max_index = height_to_maxindex[tree_height(items)] % 2^IntBits
        /\ wpc \in {"page", "ring"} => base \in items
        /\ wpc = "ring" => base \in bufs
        /\ wpc = "done" => items = {} \/ (max_index # ULONG_MAX /\ index = max_index + 1)

\* The inductive invariant of the walk.
WalkInv ==
    /\ WalkType /\ IdleInv /\ HoldInv /\ WayInv /\ ReachInv /\ OopsInv
    /\ CountInv /\ QuietInv /\ StableSeen

\* The largest index, and that there are only so many pages.
LEMMA Limits ==
    /\ ULONG_MAX \in Nat \ {0} /\ 2^LongBits = ULONG_MAX + 1
    /\ 2^IntBits \in Nat \ {0} /\ 2^IntBits - 1 <= ULONG_MAX
    /\ PageIndices \subseteq 0 .. ULONG_MAX /\ IsFiniteSet(PageIndices)
<1>1. 2^1 = 2
  <2>1. 2^(0 + 1) = 2 * 2^0 /\ 2^0 = 1 /\ 0 + 1 = 1
    BY PowerOfTwo
  <2> QED
    BY <2>1
<1>2. 2^LongBits \in Nat /\ 2^IntBits \in Nat \ {0} /\ 2^IntBits <= 2^LongBits
  BY Widths, PowerOfTwo, PowerMonotone
<1>3. 2 <= 2^LongBits
  <2>1. 1 <= LongBits
    BY Widths
  <2>2. 2^1 <= 2^LongBits
    BY <2>1, Widths, PowerMonotone
  <2> QED
    BY <1>1, <2>2
<1>4. IsFiniteSet(0 .. 2^LongBits - 1)
  BY <1>2, FS_Interval
<1>5. PageIndices \subseteq 0 .. 2^LongBits - 1
  BY RadixAssumption
<1>6. IsFiniteSet(PageIndices)
  BY <1>4, <1>5, FS_Subset
<1> QED
  BY <1>2, <1>3, <1>5, <1>6 DEF ULONG_MAX

-----------------------------------------------------------------------------

\* A table entry is a last index that the tree reaches.
LEMMA LastReached ==
    ASSUME NEW h \in 0 .. RADIX_TREE_MAX_PATH
    PROVE  /\ height_to_maxindex[h] % 2^IntBits \in 0 .. 2^IntBits - 1
           /\ height_to_maxindex[h] % 2^IntBits < Span(h)
<1> DEFINE w == IF Reach(h) < IntBits THEN Reach(h) ELSE IntBits
<1>1. height_to_maxindex[h] % 2^IntBits = 2^w - 1
  BY LastIndex
<1>2. /\ w \in Nat /\ w <= IntBits /\ w <= h * MapShift
      /\ IntBits \in Nat /\ h * MapShift \in Nat
  BY Widths, PathReaches DEF Reach
<1> HIDE DEF w
<1>3. /\ 2^w \in Nat \ {0} /\ 2^w <= 2^IntBits /\ 2^w <= 2^(h * MapShift)
      /\ 2^IntBits \in Nat /\ 2^(h * MapShift) \in Nat
  BY <1>2, PowerMonotone, PowerOfTwo
<1> QED
  BY <1>1, <1>3 DEF Span

\* The height of the tree, and what it reaches.
LEMMA Height ==
    ASSUME WalkType
    PROVE  /\ tree_height(items) \in 0 .. RADIX_TREE_MAX_PATH
           /\ tree_height(items) \in Nat /\ items \subseteq Nat
           /\ \A i \in items : i < Span(tree_height(items))
           /\ items = {} => tree_height(items) = 0
           /\ tree_height(items) = 0 => items \subseteq {0}
<1>1. items \subseteq PageIndices
  BY DEF WalkType
<1>2. /\ tree_height(items) \in Nat /\ tree_height(items) <= RADIX_TREE_MAX_PATH
      /\ Fits(items, tree_height(items))
  BY <1>1, TreeHeight
<1>3. items \subseteq Nat
  BY <1>1, Widths
<1>4. \A i \in items : i < Span(tree_height(items))
  BY <1>2 DEF Fits, Span
<1>5. tree_height(items) \in 0 .. RADIX_TREE_MAX_PATH
  BY <1>2, PathReaches
<1>6. ASSUME items = {} PROVE tree_height(items) = 0
  <2>1. Fits(items, 0)
    BY <1>6 DEF Fits
  <2>2. \A k \in 0 .. tree_height(items) - 1 : ~ Fits(items, k)
    BY <1>1, TreeHeight
  <2> QED
    BY <1>2, <2>1, <2>2
<1>7. ASSUME tree_height(items) = 0 PROVE items \subseteq {0}
  BY <1>3, <1>4, <1>7, Spans
<1> QED
  BY <1>2, <1>3, <1>4, <1>5, <1>6, <1>7

LEMMA WalkInit == RInit => WalkInv
<1> SUFFICES ASSUME RInit PROVE WalkInv
  OBVIOUS
<1>1. 0 \in 0 .. 2^IntBits - 1 /\ 0 \in 0 .. ULONG_MAX /\ items \subseteq Nat
      /\ 0 \in 0 .. RADIX_TREE_MAX_PATH
  BY Limits, Widths, PathReaches DEF RInit
<1>2. \A i \in items : ~ (i < 0)
  BY <1>1
<1>3. Cardinality({}) = 0 /\ IsFiniteSet({})
  BY FS_EmptySet
<1>4. WalkType
  <2>1. wshrunk \in BOOLEAN /\ wgone \in BOOLEAN /\ wfreed \in BOOLEAN
    BY Zenon DEF RInit
  <2>2. wseen \subseteq Nat /\ IsFiniteSet(wseen)
    BY <1>3, Zenon DEF RInit
  <2>3. lvl \in 0 .. RADIX_TREE_MAX_PATH /\ foot \in 0 .. lvl /\ base \in Nat
    BY <1>1 DEF RInit
  <2> QED
    BY <1>1, <2>1, <2>2, <2>3 DEF RInit, WalkType
<1>5. IdleInv /\ HoldInv /\ OopsInv
  BY DEF RInit, IdleInv, HoldInv, OopsInv
<1>6. WayInv /\ ReachInv
  <2>1. 0 <= tree_height(items)
    BY <1>4, Height
  <2> QED
    BY <2>1 DEF RInit, WayInv, ReachInv, Walking
<1>7. CountInv
  BY <1>3 DEF RInit, CountInv
<1>8. QuietInv
  <2>1. {} \cap bufs = {} /\ BuffersPerPage * 0 = 0
    BY RadixAssumption
  <2> QED
    BY <1>2, <1>3, <2>1 DEF RInit, QuietInv, Walking
<1>9. StableSeen
  BY <1>2 DEF RInit, StableSeen
<1> QED
  BY <1>4, <1>5, <1>6, <1>7, <1>8, <1>9 DEF WalkInv

\* The end of a round keeps the invariant if the round has found what it should.
LEMMA NextKeeps ==
    ASSUME WalkInv, wpc \in {"slot", "page", "ring"}, UNCHANGED <<wtree, wghost>>,
           NEW pages \in {0, 1}, NEW found, NEW heads \in Nat,
           found \subseteq Nat, IsFiniteSet(found),
           walk_next(pages, found, heads), wstray \subseteq wstray',
           ~ wshrunk /\ wstray' = {} =>
               (pages = 0 /\ found = {}) \/ (pages = 1 /\ found = {index}),
           changes = 0 =>
               /\ wstray' = {} /\ found = items \cap {index}
               /\ heads = IF index \in bufs THEN BuffersPerPage ELSE 0,
           index \in wstable => index \in found \/ (wshrunk /\ index \in wstray')
    PROVE  WalkInv'
<1> DEFINE h == tree_height(items)
<1>1. /\ WalkType /\ HoldInv /\ ReachInv /\ CountInv /\ QuietInv /\ StableSeen
      /\ items' = items /\ bufs' = bufs /\ wstable' = wstable
      /\ wshrunk' = wshrunk /\ changes' = changes
      /\ page_count' = page_count + pages /\ wseen' = wseen \cup found
      /\ buffer_head_count' = buffer_head_count + heads
      /\ index' = (index + 1) % 2^LongBits /\ max_index' = max_index
      /\ wpc' = IF index' <= max_index THEN "root" ELSE "done"
      /\ lvl' = 0 /\ foot' = 0 /\ base' = 0 /\ wgone' = FALSE /\ wfreed' = FALSE
  BY DEF WalkInv, walk_next, Hold, wtree, wghost
<1>2. /\ index \in 0 .. ULONG_MAX /\ max_index \in 0 .. ULONG_MAX /\ index <= max_index
      /\ ULONG_MAX \in Nat \ {0} /\ h \in 0 .. RADIX_TREE_MAX_PATH /\ items \subseteq Nat
      /\ 0 \in 0 .. RADIX_TREE_MAX_PATH
  BY <1>1, Limits, Height, PathReaches DEF WalkType, ReachInv, Walking
<1>3. /\ index' = IF index = ULONG_MAX THEN 0 ELSE index + 1
      /\ index' \in 0 .. ULONG_MAX
  <2>1. index' = (index + 1) % (ULONG_MAX + 1)
    BY <1>1, Limits
  <2>2. CASE index = ULONG_MAX
    <3>1. index + 1 = (ULONG_MAX + 1) * 1 + 0 /\ 0 \in 0 .. (ULONG_MAX + 1) - 1
      BY <1>2, <2>2
    <3>2. ((ULONG_MAX + 1) * 1 + 0) % (ULONG_MAX + 1) = 0
      BY <1>2, <3>1, DivisionUnique
    <3> QED
      BY <1>2, <2>1, <2>2, <3>1, <3>2
  <2>3. CASE index # ULONG_MAX
    <3>1. /\ index + 1 = (ULONG_MAX + 1) * 0 + (index + 1)
          /\ index + 1 \in 0 .. (ULONG_MAX + 1) - 1
      BY <1>2, <2>3
    <3>2. ULONG_MAX + 1 \in Nat \ {0} /\ 0 \in Nat
      BY <1>2
    <3>3. ((ULONG_MAX + 1) * 0 + (index + 1)) % (ULONG_MAX + 1) = index + 1
      BY <3>1, <3>2, DivisionUnique
    <3> QED
      BY <1>2, <2>1, <2>3, <3>1, <3>3
  <2> QED
    BY <2>2, <2>3
<1>4. max_index # ULONG_MAX => index' = index + 1
  BY <1>2, <1>3
<1>5. wpc' = "root" => index' <= max_index'
  BY <1>1
<1>6. WalkType'
  <2>1. IsFiniteSet(wseen \cup found)
    BY <1>1, FS_Union DEF WalkType
  <2>2. page_count + pages \in Nat /\ buffer_head_count + heads \in Nat
    BY <1>1 DEF WalkType
  <2>3. wshrunk' \in BOOLEAN /\ wgone' \in BOOLEAN /\ wfreed' \in BOOLEAN
    BY <1>1, Zenon DEF WalkType
  <2>4. lvl' \in 0 .. RADIX_TREE_MAX_PATH /\ foot' \in 0 .. lvl' /\ base' \in Nat
    BY <1>1, <1>2
  <2>5. wseen' \subseteq Nat /\ IsFiniteSet(wseen')
    BY <1>1, <2>1 DEF WalkType
  <2> QED
    BY <1>1, <1>2, <1>3, <2>2, <2>3, <2>4, <2>5 DEF WalkType
<1>7. IdleInv' /\ HoldInv' /\ WayInv' /\ OopsInv'
  BY <1>1 DEF IdleInv, HoldInv, WayInv, OopsInv
<1>8. ReachInv'
  <2>1. wpc' # "begin" /\ wpc' \notin {"slot", "page", "ring"}
    BY <1>1
  <2>2. ASSUME wpc' = "root", ~ wshrunk PROVE tree_height(items) > 0
    <3>1. tree_height(items) > 0 \/ max_index = 0
      BY <1>1, <2>2 DEF ReachInv
    <3>2. ASSUME max_index = 0 PROVE FALSE
      <4>1. index = 0 /\ index' = 1
        BY <1>2, <1>3, <3>2
      <4> QED
        BY <1>5, <1>1, <2>2, <3>2, <4>1
    <3> QED
      BY <3>1, <3>2
  <2>3. ASSUME ~ wshrunk, wstray' = {} PROVE max_index < Span(tree_height(items))
    <3>1. wstray = {}
      BY <2>3
    <3> QED
      BY <1>1, <2>3, <3>1 DEF ReachInv, Walking
  <2>4. 0 <= tree_height(items)
    BY <1>2
  <2> QED
    BY <1>1, <1>5, <2>1, <2>2, <2>3, <2>4 DEF ReachInv, Walking
<1>9. ASSUME max_index # ULONG_MAX, ~ wshrunk, wstray' = {}
      PROVE  /\ wseen' \subseteq 0 .. index' - 1 /\ page_count' = Cardinality(wseen')
             /\ index \notin wseen
  <2>1. /\ wseen \subseteq 0 .. index - 1 /\ page_count = Cardinality(wseen)
        /\ index' = index + 1
    BY <1>1, <1>4, <1>9 DEF CountInv
  <2>2. wseen \subseteq 0 .. index' - 1 /\ index \in 0 .. index' - 1 /\ index \notin wseen
    BY <1>2, <2>1
  <2>3. CASE pages = 0 /\ found = {}
    <3>1. wseen' = wseen /\ page_count' = page_count
      BY <1>1, <2>3 DEF WalkType
    <3> QED
      BY <2>1, <2>2, <3>1
  <2>4. CASE pages = 1 /\ found = {index}
    <3>1. Cardinality(wseen \cup {index}) = Cardinality(wseen) + 1
      BY <1>1, <2>2, FS_AddElement DEF WalkType
    <3> QED
      BY <1>1, <2>1, <2>2, <2>4, <3>1
  <2> QED
    BY <1>9, <2>3, <2>4
<1>10. CountInv'
  BY <1>1, <1>9 DEF CountInv
<1>11. QuietInv'
  <2> SUFFICES ASSUME changes = 0 PROVE QuietInv'
    BY <1>1 DEF QuietInv
  <2>1. /\ ~ wshrunk /\ wstray' = {} /\ wseen \subseteq items
        /\ found = items \cap {index}
        /\ heads = IF index \in bufs THEN BuffersPerPage ELSE 0
        /\ max_index # ULONG_MAX =>
              /\ {i \in items : i < index} \subseteq wseen
              /\ buffer_head_count = BuffersPerPage * Cardinality(wseen \cap bufs)
        /\ max_index = height_to_maxindex[h] % 2^IntBits
    BY <1>1 DEF QuietInv, Walking
  <2>2. wseen' \subseteq items
    BY <1>1, <2>1
  <2>3. ASSUME max_index # ULONG_MAX
        PROVE  {i \in items : i < index'} \subseteq wseen'
    <3> SUFFICES ASSUME NEW i \in items, i < index' PROVE i \in wseen'
      OBVIOUS
    <3>1. i \in Nat
      BY <1>2
    <3>2. i < index \/ i = index
      BY <1>2, <1>4, <2>3, <3>1
    <3>3. i < index => i \in wseen
      BY <2>1, <2>3
    <3> QED
      BY <1>1, <2>1, <3>2, <3>3
  <2>4. ASSUME max_index # ULONG_MAX
        PROVE  buffer_head_count' = BuffersPerPage * Cardinality(wseen' \cap bufs)
    <3>1. index \notin wseen
      BY <1>9, <2>1, <2>4
    <3>2. IsFiniteSet(wseen \cap bufs) /\ Cardinality(wseen \cap bufs) \in Nat
      BY <1>1, FS_Intersection, FS_CardinalityType DEF WalkType
    <3>3. CASE index \in bufs
      <4>1. wseen' \cap bufs = (wseen \cap bufs) \cup {index}
        BY <1>1, <2>1, <3>3 DEF WalkType
      <4>2. Cardinality((wseen \cap bufs) \cup {index}) = Cardinality(wseen \cap bufs) + 1
        BY <3>1, <3>2, FS_AddElement
      <4>3. \A b, n \in Nat : b * n + b = b * (n + 1)
        OBVIOUS
      <4>4. BuffersPerPage * Cardinality(wseen \cap bufs) + BuffersPerPage =
               BuffersPerPage * (Cardinality(wseen \cap bufs) + 1)
        BY <3>2, <4>3, RadixAssumption
      <4>5. buffer_head_count' =
               BuffersPerPage * Cardinality(wseen \cap bufs) + BuffersPerPage
        BY <1>1, <2>1, <2>4, <3>3
      <4> QED
        BY <4>1, <4>2, <4>4, <4>5
    <3>4. CASE index \notin bufs
      <4>1. wseen' \cap bufs = wseen \cap bufs
        BY <1>1, <2>1, <3>4
      <4>2. buffer_head_count' = buffer_head_count
        BY <1>1, <2>1, <3>4 DEF WalkType
      <4> QED
        BY <2>1, <2>4, <4>1, <4>2
    <3> QED
      BY <3>3, <3>4
  <2>5. ASSUME wpc' = "done" PROVE max_index # ULONG_MAX /\ index' = max_index + 1
    <3>1. ~ (index' <= max_index)
      BY <1>1, <2>5
    <3> QED
      BY <1>2, <1>3, <3>1
  <2>6. wpc' \in {"root", "done"}
    BY <1>1
  <2> QED
    BY <1>1, <2>1, <2>2, <2>3, <2>4, <2>5, <2>6
    DEF QuietInv, height_to_maxindex, Walking
<1>12. StableSeen'
  <2> SUFFICES ASSUME NEW i \in wstable, i < index'
               PROVE  i \in wseen' \/ (wshrunk /\ i \in wstray')
    BY <1>1 DEF StableSeen
  <2>1. i \in Nat
    BY <1>1, <1>2 DEF WalkType
  <2>2. i < index \/ i = index
    BY <1>2, <1>3, <2>1
  <2>3. CASE i < index
    BY <1>1, <2>3 DEF StableSeen
  <2>4. CASE i = index
    BY <1>1, <2>4
  <2> QED
    BY <2>2, <2>3, <2>4
<1> QED
  BY <1>6, <1>7, <1>8, <1>10, <1>11, <1>12 DEF WalkInv

LEMMA BeginKeeps == WalkInv /\ walk_begin => WalkInv'
<1> SUFFICES ASSUME WalkInv, walk_begin PROVE WalkInv'
  OBVIOUS
<1> DEFINE h == tree_height(items)
<1>1. /\ WalkType /\ IdleInv /\ index = 0 /\ wseen = {} /\ page_count = 0
      /\ buffer_head_count = 0 /\ ~ wshrunk /\ changes = 0 /\ max_index = 0 /\ wstray = {}
      /\ wpc' = IF items = {} THEN "done" ELSE IF h = 0 THEN "page" ELSE "begin"
      /\ lvl' = h /\ foot' = h /\ base' = 0 /\ wgone' = FALSE /\ wfreed' = FALSE
      /\ wstable' = items
      /\ items' = items /\ bufs' = bufs /\ index' = index /\ max_index' = max_index
      /\ page_count' = page_count /\ buffer_head_count' = buffer_head_count
      /\ wseen' = wseen /\ wstray' = wstray /\ wshrunk' = wshrunk /\ changes' = changes
  BY DEF WalkInv, IdleInv, walk_begin, Hold, wtree, wloop
<1>2. /\ h \in 0 .. RADIX_TREE_MAX_PATH /\ h \in Nat /\ items \subseteq Nat
      /\ items = {} => h = 0
      /\ h = 0 => items \subseteq {0}
      /\ \A i \in items : ~ (i < 0)
  BY <1>1, Height
<1>3. \/ wpc' = "done" /\ items = {} /\ h = 0
      \/ wpc' = "page" /\ h = 0 /\ 0 \in items
      \/ wpc' = "begin" /\ h > 0
  <2>1. CASE items = {}
    BY <1>1, <1>2, <2>1
  <2>2. CASE items # {} /\ h = 0
    BY <1>1, <1>2, <2>2
  <2>3. CASE items # {} /\ h # 0
    BY <1>1, <1>2, <2>3
  <2> QED
    BY <2>1, <2>2, <2>3
<1>4. WalkType'
  <2>1. h \in 0 .. h /\ 0 \in Nat
    BY <1>2
  <2>2. wshrunk' \in BOOLEAN /\ wgone' \in BOOLEAN /\ wfreed' \in BOOLEAN
    BY <1>1, Zenon DEF WalkType
  <2> QED
    BY <1>1, <1>2, <2>1, <2>2 DEF WalkType
<1>5. IdleInv' /\ HoldInv' /\ OopsInv'
  <2>1. wpc' \notin {"idle", "slot", "ring", "oops"} /\ ~ (h > h)
        /\ (wpc' = "page" => h = 0)
    BY <1>2, <1>3
  <2> QED
    BY <1>1, <2>1 DEF IdleInv, HoldInv, OopsInv
<1>6. WayInv'
  <2>1. wpc' # "slot"
    BY <1>3
  <2> QED
    BY <1>1, <2>1 DEF WayInv
<1>7. ReachInv'
  <2>1. wpc' \notin {"root", "slot", "ring"}
    BY <1>3
  <2>2. wpc' = "page" => 0 < Span(h)
    BY <1>3, Spans
  <2>3. 0 <= 0 /\ h <= h
    BY <1>2
  <2> QED
    BY <1>1, <1>3, <2>1, <2>2, <2>3 DEF ReachInv, Walking
<1>8. CountInv' /\ StableSeen'
  BY <1>1, <1>2, FS_EmptySet DEF CountInv, StableSeen
<1>9. QuietInv'
  <2>1. {i \in items : i < index} = {} /\ {} \cap bufs = {}
    BY <1>1, <1>2
  <2>2. BuffersPerPage * Cardinality({}) = 0
    BY RadixAssumption, FS_EmptySet
  <2>3. h = 0 => height_to_maxindex[h] % 2^IntBits = 0
    BY <1>2, LastReached, Spans
  <2>4. wpc' # "begin" => h = 0
    BY <1>3
  <2>5. wpc' \notin {"root", "slot", "ring"}
    BY <1>3
  <2> QED
    BY <1>1, <1>3, <2>1, <2>2, <2>3, <2>4, <2>5 DEF QuietInv, Walking, height_to_maxindex
<1> QED
  BY <1>4, <1>5, <1>6, <1>7, <1>8, <1>9 DEF WalkInv

LEMMA HeightKeeps == WalkInv /\ walk_height => WalkInv'
<1> SUFFICES ASSUME WalkInv, walk_height PROVE WalkInv'
  OBVIOUS
<1> DEFINE h == tree_height(items)
<1>1. /\ WalkType /\ HoldInv /\ ReachInv /\ CountInv /\ QuietInv /\ StableSeen
      /\ wpc = "begin" /\ index = 0 /\ max_index = 0 /\ wpc' \in {"root", "oops"}
      /\ lvl' = 0 /\ foot' = 0 /\ base' = 0 /\ wgone' = FALSE /\ wfreed' = FALSE
      /\ items' = items /\ bufs' = bufs /\ index' = index
      /\ page_count' = page_count /\ buffer_head_count' = buffer_head_count
      /\ wseen' = wseen /\ wstable' = wstable /\ wshrunk' = wshrunk /\ changes' = changes
  BY DEF WalkInv, ReachInv, walk_height, Hold, wtree, wghost
<1>2. \/ /\ ~ wfreed /\ wpc' = "root" /\ wstray' = wstray
         /\ max_index' = height_to_maxindex[lvl] % 2^IntBits
      \/ wfreed /\ wstray' = {-1}
  BY DEF walk_height
<1>3. max_index' \in 0 .. 2^IntBits - 1
  <2>1. PICK k \in 0 .. RADIX_TREE_MAX_PATH :
           max_index' = height_to_maxindex[k] % 2^IntBits
    <3>1. lvl \in 0 .. RADIX_TREE_MAX_PATH
      BY <1>1 DEF WalkType
    <3> QED
      BY <3>1 DEF walk_height
  <2> QED
    BY <2>1, LastReached
<1>4. /\ h \in Nat /\ items \subseteq Nat /\ 0 \in 0 .. RADIX_TREE_MAX_PATH
      /\ ULONG_MAX # 0 /\ 0 <= max_index'
  BY <1>1, <1>3, Height, PathReaches, Limits
<1>5. WalkType'
  <2>1. wshrunk' \in BOOLEAN /\ wgone' \in BOOLEAN /\ wfreed' \in BOOLEAN
    BY <1>1, Zenon DEF WalkType
  <2>2. lvl' \in 0 .. RADIX_TREE_MAX_PATH /\ foot' \in 0 .. lvl' /\ base' \in Nat
    BY <1>1, <1>4
  <2> QED
    BY <1>1, <1>3, <2>1, <2>2 DEF WalkType
<1>6. IdleInv' /\ HoldInv' /\ WayInv'
  BY <1>1 DEF IdleInv, HoldInv, WayInv
<1>7. StableSeen'
  <2>1. \A i \in wstable : ~ (i < 0)
    BY <1>1, <1>4 DEF WalkType
  <2> QED
    BY <1>1, <2>1 DEF StableSeen
<1>8. OopsInv'
  BY <1>1, <1>2 DEF OopsInv
<1>9. ReachInv'
  <2>1. ~ wshrunk => h > 0
    BY <1>1 DEF ReachInv
  <2>2. ASSUME ~ wshrunk, wstray' = {} PROVE max_index' < Span(h)
    <3>1. max_index' = height_to_maxindex[lvl] % 2^IntBits
      BY <1>2, <2>2
    <3>2. lvl \in 0 .. RADIX_TREE_MAX_PATH /\ lvl \in Nat /\ lvl <= h
      BY <1>1, <2>2 DEF WalkType, ReachInv
    <3>3. max_index' < Span(lvl) /\ Span(lvl) <= Span(h)
      BY <1>4, <3>1, <3>2, LastReached, Spans
    <3>4. Span(lvl) \in Nat /\ Span(h) \in Nat /\ max_index' \in Nat
      BY <1>3, <1>4, <3>2, Spans, Limits
    <3> QED
      BY <3>3, <3>4
  <2> QED
    BY <1>1, <1>4, <2>1, <2>2 DEF ReachInv, Walking
<1>10. CountInv'
  <2>1. wstray' = {} => wstray = {}
    BY <1>2
  <2>2. max_index # ULONG_MAX
    BY <1>1, <1>4
  <2> QED
    BY <1>1, <2>1, <2>2 DEF CountInv
<1>11. QuietInv'
  <2> SUFFICES ASSUME changes = 0 PROVE QuietInv'
    BY <1>1 DEF QuietInv
  <2>1. /\ ~ wshrunk /\ ~ wgone /\ wstray = {} /\ lvl = foot /\ lvl = h
        /\ wseen \subseteq items /\ {i \in items : i < index} \subseteq wseen
        /\ buffer_head_count = BuffersPerPage * Cardinality(wseen \cap bufs)
    BY <1>1, <1>4 DEF QuietInv
  <2>2. ~ wfreed
    <3>1. ~ (lvl > foot)
      BY <1>1, <2>1 DEF WalkType
    <3> QED
      BY <1>1, <2>1, <3>1 DEF HoldInv
  <2>3. wpc' = "root" /\ wstray' = {} /\ max_index' = height_to_maxindex[h] % 2^IntBits
    BY <1>2, <2>1, <2>2
  <2> QED
    BY <1>1, <2>1, <2>3 DEF QuietInv, Walking, height_to_maxindex
<1> QED
  BY <1>5, <1>6, <1>7, <1>8, <1>9, <1>10, <1>11 DEF WalkInv

LEMMA RootKeeps == WalkInv /\ walk_root => WalkInv'
<1> SUFFICES ASSUME WalkInv, walk_root PROVE WalkInv'
  OBVIOUS
<1> DEFINE h == tree_height(items)
<1>1. /\ WalkType /\ ReachInv /\ CountInv /\ QuietInv /\ StableSeen
      /\ wpc = "root" /\ wpc' = IF h = 0 THEN "oops" ELSE "slot"
      /\ lvl' = h /\ foot' = h /\ base' = 0 /\ wgone' = FALSE /\ wfreed' = FALSE
      /\ items' = items /\ bufs' = bufs /\ index' = index /\ max_index' = max_index
      /\ page_count' = page_count /\ buffer_head_count' = buffer_head_count
      /\ wseen' = wseen /\ wstray' = wstray
      /\ wstable' = wstable /\ wshrunk' = wshrunk /\ changes' = changes
  BY DEF WalkInv, walk_root, Hold, wtree, wloop, wghost
<1>2. /\ h \in 0 .. RADIX_TREE_MAX_PATH /\ h \in Nat /\ items \subseteq Nat
      /\ \A i \in items : i < Span(h)
      /\ index \in Nat /\ max_index \in Nat /\ index <= max_index
      /\ Span(h) \in Nat \ {0}
  BY <1>1, Height, Spans, Limits DEF WalkType, ReachInv, Walking
<1>3. wpc' \in {"oops", "slot"} /\ (wpc' = "slot" => h > 0) /\ (wpc' = "oops" => h = 0)
  BY <1>1, <1>2
<1>4. WalkType'
  <2>1. wshrunk' \in BOOLEAN /\ wgone' \in BOOLEAN /\ wfreed' \in BOOLEAN
    BY <1>1, Zenon DEF WalkType
  <2>2. lvl' \in 0 .. RADIX_TREE_MAX_PATH /\ foot' \in 0 .. lvl' /\ base' \in Nat
    BY <1>1, <1>2
  <2> QED
    BY <1>1, <2>1, <2>2 DEF WalkType
<1>5. IdleInv' /\ HoldInv' /\ OopsInv'
  <2>1. ~ (h > h)
    BY <1>2
  <2>2. h = 0 => wshrunk
    BY <1>1, <1>2 DEF ReachInv
  <2> QED
    BY <1>1, <1>3, <2>1, <2>2 DEF IdleInv, HoldInv, OopsInv
<1>6. WayInv'
  <2>1. ASSUME index \in wstable PROVE index \div Span(h) = 0
    <3>1. index \in items
      BY <1>1, <2>1 DEF WalkType
    <3> QED
      BY <1>2, <3>1, SmallDiv
  <2> QED
    BY <1>1, <1>3, <2>1 DEF WayInv
<1>7. ReachInv'
  <2>1. ASSUME ~ wshrunk, wstray = {} PROVE max_index < Span(h) /\ index \div Span(h) = 0
    <3>1. max_index < Span(h)
      BY <1>1, <2>1 DEF ReachInv, Walking
    <3>2. index < Span(h)
      BY <1>2, <3>1
    <3> QED
      BY <1>2, <3>1, <3>2, SmallDiv
  <2> QED
    BY <1>1, <1>2, <1>3, <2>1 DEF ReachInv, Walking
<1>8. CountInv' /\ StableSeen'
  BY <1>1 DEF CountInv, StableSeen
<1>9. QuietInv'
  BY <1>1, <1>3 DEF QuietInv, Walking, height_to_maxindex
<1> QED
  BY <1>4, <1>5, <1>6, <1>7, <1>8, <1>9 DEF WalkInv

\* What a loaded slot leaves alone.
LEMMA SlotFrame ==
    ASSUME WalkInv, walk_slot
    PROVE  /\ WalkType /\ HoldInv /\ WayInv /\ ReachInv /\ CountInv /\ QuietInv
           /\ StableSeen /\ wpc = "slot" /\ UNCHANGED <<wtree, wghost>>
           /\ items' = items /\ bufs' = bufs
           /\ wstable' = wstable /\ wshrunk' = wshrunk /\ changes' = changes
           /\ lvl \in Nat \ {0} /\ lvl - 1 \in Nat /\ lvl <= RADIX_TREE_MAX_PATH
           /\ foot \in Nat /\ foot <= lvl /\ base \in Nat
           /\ index \in Nat /\ items \subseteq Nat /\ wstable \subseteq items
           /\ bufs \subseteq items /\ slot(index, lvl) \in Nat
           /\ index \div Span(lvl - 1) = (index \div Span(lvl)) * 2^MapShift + slot(index, lvl)
           /\ index \div Span(0) = index /\ 2^MapShift \in Nat
<1>1. /\ WalkType /\ HoldInv /\ WayInv /\ ReachInv /\ CountInv /\ QuietInv
      /\ StableSeen /\ wpc = "slot" /\ UNCHANGED <<wtree, wghost>>
      /\ items' = items /\ bufs' = bufs
      /\ wstable' = wstable /\ wshrunk' = wshrunk /\ changes' = changes
  BY DEF WalkInv, walk_slot, wtree, wghost
<1>2. /\ lvl \in Nat \ {0} /\ lvl - 1 \in Nat /\ lvl <= RADIX_TREE_MAX_PATH
      /\ foot \in Nat /\ foot <= lvl /\ base \in Nat
      /\ index \in Nat /\ wstable \subseteq items /\ bufs \subseteq items
  BY <1>1, Limits, PathReaches DEF WalkType, HoldInv
<1>3. items \subseteq Nat
  BY <1>1, Height
<1>4. /\ slot(index, lvl) \in Nat
      /\ index \div Span(lvl - 1) = (index \div Span(lvl)) * 2^MapShift + slot(index, lvl)
  BY <1>2, NextDigit
<1>5. index \div Span(0) = index
  <2>1. Span(0) = 1 /\ index \div 1 = index
    BY <1>2, Spans
  <2> QED
    BY <2>1
<1> QED
  BY <1>1, <1>2, <1>3, <1>4, <1>5, Spans

\* One level down.  These are the facts about the node or the page it comes to.
LEMMA DownKeeps ==
    ASSUME WalkInv, walk_slot,
           wpc' = IF lvl = 1 THEN "page" ELSE "slot",
           lvl' = lvl - 1, foot' \in 0 .. lvl', base' \in Nat, wgone' \in BOOLEAN,
           wfreed' = FALSE, wstray' = wstray,
           UNCHANGED <<index, max_index, page_count, buffer_head_count, wseen>>,
           lvl' > foot' => wshrunk /\ base' = 0,
           index \in wstable =>
               /\ lvl # 1 => ~ wgone' /\ base' = index \div Span(foot')
               /\ base' = index \div Span(lvl'),
           ~ wshrunk /\ wstray = {} => base' = index \div Span(lvl'),
           changes = 0 => ~ wgone' /\ lvl' = foot' /\ (lvl = 1 => base' \in items)
    PROVE  WalkInv'
<1>1. /\ WalkType /\ HoldInv /\ WayInv /\ ReachInv /\ CountInv /\ QuietInv
      /\ StableSeen /\ wpc = "slot"
      /\ items' = items /\ bufs' = bufs
      /\ wstable' = wstable /\ wshrunk' = wshrunk /\ changes' = changes
      /\ lvl \in Nat \ {0} /\ lvl - 1 \in Nat /\ lvl <= RADIX_TREE_MAX_PATH
      /\ index \div Span(0) = index
  BY SlotFrame
<1>2. /\ index' = index /\ max_index' = max_index /\ page_count' = page_count
      /\ buffer_head_count' = buffer_head_count /\ wseen' = wseen
  OBVIOUS
<1>3. wpc' \in {"page", "slot"} /\ (wpc' = "page" <=> lvl = 1)
  OBVIOUS
<1>4. lvl' = 0 <=> lvl = 1
  BY <1>1
<1>5. WalkType'
  <2>1. wshrunk' \in BOOLEAN /\ wgone' \in BOOLEAN /\ wfreed' \in BOOLEAN
    BY <1>1, Zenon DEF WalkType
  <2>2. lvl' \in 0 .. RADIX_TREE_MAX_PATH
    BY <1>1, PathReaches
  <2> QED
    BY <1>1, <1>2, <2>1, <2>2 DEF WalkType
<1>6. IdleInv' /\ HoldInv' /\ OopsInv'
  <2>1. wpc' = "slot" => lvl' > 0
    BY <1>1, <1>3
  <2> QED
    BY <1>1, <1>3, <1>4, <2>1 DEF IdleInv, HoldInv, OopsInv
<1>7. WayInv'
  BY <1>1, <1>2, <1>3, <1>4 DEF WayInv
<1>8. ReachInv'
  <2>1. tree_height(items) \in Nat
    BY <1>1, Height
  <2>2. lvl <= tree_height(items) => lvl - 1 <= tree_height(items)
    BY <1>1, <2>1
  <2> QED
    BY <1>1, <1>2, <1>3, <1>4, <2>2 DEF ReachInv, Walking
<1>9. CountInv' /\ StableSeen'
  BY <1>1, <1>2 DEF CountInv, StableSeen
<1>10. QuietInv'
  BY <1>1, <1>2, <1>3 DEF QuietInv, Walking, height_to_maxindex
<1> QED
  BY <1>5, <1>6, <1>7, <1>8, <1>9, <1>10 DEF WalkInv

LEMMA LiveKeeps == WalkInv /\ walk_slot /\ slot_live => WalkInv'
<1> SUFFICES ASSUME WalkInv, walk_slot, slot_live PROVE WalkInv'
  OBVIOUS
<1> DEFINE child == base * 2^MapShift + slot(index, lvl)
<1>1. /\ WalkType /\ WayInv /\ ReachInv /\ QuietInv
      /\ wpc = "slot" /\ UNCHANGED <<wtree, wghost>>
      /\ lvl \in Nat \ {0} /\ lvl - 1 \in Nat /\ lvl <= RADIX_TREE_MAX_PATH
      /\ base \in Nat /\ index \in Nat /\ items \subseteq Nat /\ wstable \subseteq items
      /\ bufs \subseteq items /\ slot(index, lvl) \in Nat /\ 2^MapShift \in Nat
      /\ index \div Span(lvl - 1) = (index \div Span(lvl)) * 2^MapShift + slot(index, lvl)
  BY SlotFrame
<1>2. lvl = foot /\ ~ wfreed /\ wstray' = wstray /\ child \in Nat
  BY <1>1 DEF slot_live
<1>3. \/ index \in wstable
      \/ ~ wshrunk /\ wstray = {}
      => child = index \div Span(lvl - 1)
  BY <1>1 DEF WayInv, ReachInv
<1>4. index \in wstable => ~ wgone
  BY <1>1 DEF WayInv
<1>5. changes = 0 => ~ wshrunk /\ wstray = {} /\ ~ wgone
  BY <1>1 DEF QuietInv
<1>6. CASE ~ wgone /\ InTree(items, lvl - 1, child)
  <2>1. /\ wpc' = IF lvl = 1 THEN "page" ELSE "slot"
        /\ lvl' = lvl - 1 /\ foot' = lvl - 1 /\ base' = child
        /\ wgone' = FALSE /\ wfreed' = FALSE
        /\ UNCHANGED <<index, max_index, page_count, buffer_head_count, wseen>>
    BY <1>6 DEF slot_live, Hold
  <2>2. lvl = 1 => child \in items
    <3>1. PICK j \in items : j \div Span(lvl - 1) = child
      BY <1>6 DEF InTree, Span
    <3>2. ASSUME lvl = 1 PROVE child = j
      <4>1. Span(0) = 1 /\ lvl - 1 = 0 /\ j \in Nat
        BY <1>1, <3>2, Spans
      <4>2. j \div 1 = j
        BY <4>1
      <4> QED
        BY <3>1, <4>1, <4>2
    <3> QED
      BY <3>2
  <2>3. foot' \in 0 .. lvl' /\ base' \in Nat /\ ~ (lvl' > foot')
    BY <1>1, <1>2, <2>1
  <2>4. wgone' \in BOOLEAN
    BY <2>1, Zenon
  <2> HIDE DEF child
  <2> QED
    BY <1>2, <1>3, <1>5, <2>1, <2>2, <2>3, <2>4, DownKeeps
<1>7. CASE ~ (~ wgone /\ InTree(items, lvl - 1, child))
  <2>1. walk_next(0, {}, 0)
    BY <1>7 DEF slot_live
  <2>2. ASSUME index \in items, ~ wgone, child = index \div Span(lvl - 1) PROVE FALSE
    BY <1>7, <2>2 DEF InTree, Span
  <2> HIDE DEF child
  <2>3. changes = 0 => index \notin items
    BY <1>3, <1>5, <2>2
  <2>4. index \notin wstable
    BY <1>1, <1>3, <1>4, <2>2
  <2>5. {} \subseteq Nat /\ IsFiniteSet({}) /\ 0 \in Nat /\ 0 \in {0, 1}
    BY FS_EmptySet
  <2>6. changes = 0 => wstray' = {} /\ {} = items \cap {index} /\ index \notin bufs
    BY <1>1, <1>2, <1>5, <2>3
  <2> QED
    BY <1>1, <1>2, <2>1, <2>4, <2>5, <2>6, NextKeeps
<1> QED
  BY <1>6, <1>7

LEMMA CutKeeps == WalkInv /\ walk_slot /\ slot_cut => WalkInv'
<1> SUFFICES ASSUME WalkInv, walk_slot, slot_cut PROVE WalkInv'
  OBVIOUS
<1>1. /\ WalkType /\ HoldInv /\ WayInv /\ ReachInv /\ QuietInv
      /\ wpc = "slot" /\ UNCHANGED <<wtree, wghost>>
      /\ lvl \in Nat \ {0} /\ lvl - 1 \in Nat /\ lvl <= RADIX_TREE_MAX_PATH
      /\ foot \in Nat /\ foot <= lvl /\ index \in Nat
      /\ slot(index, lvl) \in Nat /\ 2^MapShift \in Nat
      /\ index \div Span(lvl - 1) = (index \div Span(lvl)) * 2^MapShift + slot(index, lvl)
  BY SlotFrame
<1>2. lvl > foot /\ ~ wfreed /\ wstray' = wstray /\ wshrunk /\ base = 0 /\ foot <= lvl - 1
  BY <1>1 DEF slot_cut, HoldInv
<1>3. changes # 0
  BY <1>1, <1>2 DEF QuietInv
<1>4. ASSUME index \in wstable
      PROVE  /\ ~ wgone /\ index \div Span(foot) = 0
             /\ index \div Span(lvl - 1) = 0 /\ slot(index, lvl) = 0
  <2>1. ~ wgone /\ index \div Span(foot) = 0 /\ index \div Span(lvl) = 0
    BY <1>1, <1>2, <1>4 DEF WayInv
  <2>2. Span(foot) \in Nat \ {0} /\ Span(lvl - 1) \in Nat \ {0} /\ Span(foot) <= Span(lvl - 1)
    BY <1>1, <1>2, Spans
  <2>3. index < Span(foot)
    BY <1>1, <2>1, <2>2, SmallDiv
  <2>4. index \div Span(lvl - 1) = 0
    <3>1. index < Span(lvl - 1)
      BY <1>1, <2>2, <2>3
    <3> QED
      BY <1>1, <2>2, <3>1, SmallDiv
  <2>5. 0 * 2^MapShift + slot(index, lvl) = slot(index, lvl)
    BY <1>1
  <2> QED
    BY <1>1, <2>1, <2>4, <2>5
<1>5. CASE slot(index, lvl) = 0
  <2>1. /\ wpc' = IF lvl = 1 THEN "page" ELSE "slot"
        /\ lvl' = lvl - 1 /\ wgone' = (wgone \/ lvl = 1)
        /\ base' = base /\ foot' = foot /\ wfreed' = wfreed
        /\ UNCHANGED <<index, max_index, page_count, buffer_head_count, wseen>>
    BY <1>5 DEF slot_cut
  <2>2. foot' \in 0 .. lvl' /\ base' \in Nat
    BY <1>1, <1>2, <2>1
  <2>3. wgone' \in BOOLEAN /\ wfreed' = FALSE /\ (lvl # 1 => wgone' = wgone)
    BY <1>1, <1>2, <2>1, Zenon DEF WalkType
  <2> QED
    BY <1>2, <1>3, <1>4, <2>1, <2>2, <2>3, DownKeeps
<1>6. CASE slot(index, lvl) # 0
  <2>1. walk_next(0, {}, 0) /\ index \notin wstable
    BY <1>4, <1>6 DEF slot_cut
  <2>2. {} \subseteq Nat /\ IsFiniteSet({}) /\ 0 \in Nat /\ 0 \in {0, 1}
    BY FS_EmptySet
  <2> QED
    BY <1>1, <1>2, <1>3, <2>1, <2>2, NextKeeps
<1> QED
  BY <1>5, <1>6

LEMMA FreedKeeps == WalkInv /\ walk_slot /\ slot_freed => WalkInv'
<1> SUFFICES ASSUME WalkInv, walk_slot, slot_freed PROVE WalkInv'
  OBVIOUS
<1>1. /\ WalkType /\ HoldInv /\ WayInv /\ ReachInv /\ CountInv /\ QuietInv /\ StableSeen
      /\ wpc = "slot" /\ UNCHANGED <<wtree, wghost>>
      /\ items' = items /\ bufs' = bufs
      /\ wstable' = wstable /\ wshrunk' = wshrunk /\ changes' = changes
      /\ lvl \in Nat \ {0} /\ foot \in Nat
  BY SlotFrame
<1>2. wfreed /\ wstray' = wstray \cup {index} /\ (wgone \/ lvl > foot)
  BY <1>1 DEF slot_freed, HoldInv
<1>3. changes # 0
  BY <1>1, <1>2 DEF QuietInv
<1>4. index \in wstable => wshrunk
  BY <1>1, <1>2 DEF WayInv, HoldInv
<1>5. wstray' # {} /\ wstray \subseteq wstray' /\ index \in wstray'
  BY <1>2
<1>6. ASSUME NEW pages \in {0, 1}, NEW heads \in Nat, walk_next(pages, {}, heads)
      PROVE  WalkInv'
  <2>1. {} \subseteq Nat /\ IsFiniteSet({})
    BY FS_EmptySet
  <2> QED
    BY <1>1, <1>3, <1>4, <1>5, <1>6, <2>1, NextKeeps
<1>7. CASE /\ wpc' = "oops" /\ UNCHANGED whold
           /\ UNCHANGED <<index, max_index, page_count, buffer_head_count, wseen>>
  <2>1. /\ index' = index /\ max_index' = max_index /\ page_count' = page_count
        /\ buffer_head_count' = buffer_head_count /\ wseen' = wseen /\ lvl' = lvl
        /\ base' = base /\ foot' = foot /\ wgone' = wgone /\ wfreed' = wfreed
    BY <1>7 DEF whold
  <2>2. WalkType'
    BY <1>1, <2>1 DEF WalkType
  <2>3. IdleInv' /\ HoldInv' /\ WayInv' /\ OopsInv'
    BY <1>1, <1>5, <1>7, <2>1 DEF IdleInv, HoldInv, WayInv, OopsInv
  <2>4. ReachInv' /\ CountInv' /\ StableSeen'
    BY <1>1, <1>5, <1>7, <2>1 DEF ReachInv, Walking, CountInv, StableSeen
  <2>5. QuietInv'
    BY <1>1, <1>3 DEF QuietInv
  <2> QED
    BY <2>2, <2>3, <2>4, <2>5 DEF WalkInv
<1>8. 0 \in {0, 1} /\ 1 \in {0, 1} /\ 0 \in Nat /\ BuffersPerPage \in Nat
  BY RadixAssumption
<1> QED
  BY <1>6, <1>7, <1>8 DEF slot_freed

\* What a look at a page leaves alone.
LEMMA PageFrame ==
    ASSUME WalkInv, wpc \in {"page", "ring"}, UNCHANGED <<wtree, wghost>>, wstray' = wstray
    PROVE  /\ \A heads \in Nat :
                 /\ walk_next(1, {base}, heads)
                 /\ changes = 0 => heads = IF base \in bufs THEN BuffersPerPage ELSE 0
                 => WalkInv'
           /\ /\ wpc' \in {"ring", "oops"} /\ UNCHANGED whold
              /\ UNCHANGED <<index, max_index, page_count, buffer_head_count, wseen>>
              /\ wpc' = "ring" => (wgone \/ base \in bufs)
              /\ wpc' = "oops" => wgone
              => WalkInv'
<1>1. /\ WalkType /\ HoldInv /\ WayInv /\ ReachInv /\ CountInv /\ QuietInv /\ StableSeen
      /\ items' = items /\ bufs' = bufs
      /\ wstable' = wstable /\ wshrunk' = wshrunk /\ changes' = changes
  BY DEF WalkInv, wtree, wghost
<1>2. /\ index \in wstable => base = index
      /\ ~ wshrunk /\ wstray = {} => base = index
      /\ changes = 0 => ~ wshrunk /\ wstray = {} /\ ~ wgone /\ base \in items
  BY <1>1 DEF WayInv, ReachInv, QuietInv
<1>3. ASSUME NEW heads \in Nat, walk_next(1, {base}, heads),
             changes = 0 => heads = IF base \in bufs THEN BuffersPerPage ELSE 0
      PROVE  WalkInv'
  <2>1. {base} \subseteq Nat /\ IsFiniteSet({base}) /\ 1 \in {0, 1}
    BY <1>1, FS_Singleton DEF WalkType
  <2>2. ~ wshrunk /\ wstray' = {} => {base} = {index}
    BY <1>2
  <2>3. changes = 0 =>
           /\ wstray' = {} /\ {base} = items \cap {index}
           /\ heads = IF index \in bufs THEN BuffersPerPage ELSE 0
    BY <1>2, <1>3
  <2>4. index \in wstable => index \in {base}
    BY <1>2
  <2>5. wstray \subseteq wstray' /\ wpc \in {"slot", "page", "ring"}
    OBVIOUS
  <2> QED
    BY <1>3, <2>1, <2>2, <2>3, <2>4, <2>5, NextKeeps
<1>4. ASSUME wpc' \in {"ring", "oops"}, UNCHANGED whold,
             UNCHANGED <<index, max_index, page_count, buffer_head_count, wseen>>,
             wpc' = "ring" => (wgone \/ base \in bufs), wpc' = "oops" => wgone
      PROVE  WalkInv'
  <2>1. /\ index' = index /\ max_index' = max_index /\ page_count' = page_count
        /\ buffer_head_count' = buffer_head_count /\ wseen' = wseen /\ lvl' = lvl
        /\ base' = base /\ foot' = foot /\ wgone' = wgone /\ wfreed' = wfreed
    BY <1>4 DEF whold
  <2>2. WalkType'
    BY <1>1, <2>1 DEF WalkType
  <2>3. IdleInv' /\ HoldInv' /\ WayInv' /\ OopsInv'
    BY <1>1, <1>4, <2>1 DEF IdleInv, HoldInv, WayInv, OopsInv
  <2>4. ReachInv' /\ CountInv' /\ StableSeen'
    BY <1>1, <1>4, <2>1 DEF ReachInv, Walking, CountInv, StableSeen
  <2>5. QuietInv'
    BY <1>1, <1>2, <1>4, <2>1 DEF QuietInv, Walking, height_to_maxindex
  <2> QED
    BY <2>2, <2>3, <2>4, <2>5 DEF WalkInv
<1> QED
  BY <1>3, <1>4

LEMMA PageKeeps == WalkInv /\ page_has_buffers => WalkInv'
<1> SUFFICES ASSUME WalkInv, page_has_buffers PROVE WalkInv'
  OBVIOUS
<1>1. wpc \in {"page", "ring"} /\ UNCHANGED <<wtree, wghost>> /\ wstray' = wstray
  BY DEF page_has_buffers
<1>2. changes = 0 => ~ wgone
  BY DEF WalkInv, QuietInv
<1>3. CASE /\ wgone \/ base \in bufs
           /\ wpc' = "ring" /\ UNCHANGED whold
           /\ UNCHANGED <<index, max_index, page_count, buffer_head_count, wseen>>
  BY <1>1, <1>3, PageFrame
<1>4. CASE (wgone \/ base \notin bufs) /\ walk_next(1, {base}, 0)
  <2>1. changes = 0 => base \notin bufs
    BY <1>2, <1>4
  <2> QED
    BY <1>1, <1>4, <2>1, PageFrame
<1> QED
  BY <1>3, <1>4 DEF page_has_buffers

LEMMA RingKeeps == WalkInv /\ radix_node_has_buffer => WalkInv'
<1> SUFFICES ASSUME WalkInv, radix_node_has_buffer PROVE WalkInv'
  OBVIOUS
<1>1. wpc = "ring" /\ UNCHANGED <<wtree, wghost>> /\ wstray' = wstray
  BY DEF radix_node_has_buffer
<1>2. changes = 0 => base \in bufs
  BY <1>1 DEF WalkInv, QuietInv
<1>3. CASE walk_next(1, {base}, BuffersPerPage)
  BY <1>1, <1>2, <1>3, PageFrame, RadixAssumption
<1>4. CASE /\ wgone /\ wpc' = "oops" /\ UNCHANGED whold
           /\ UNCHANGED <<index, max_index, page_count, buffer_head_count, wseen>>
  BY <1>1, <1>4, PageFrame
<1> QED
  BY <1>3, <1>4 DEF radix_node_has_buffer

LEMMA ChangeKeeps ==
    ASSUME NEW i \in PageIndices
    PROVE  WalkInv /\ Change(i) => WalkInv'
<1> SUFFICES ASSUME WalkInv, Change(i) PROVE WalkInv'
  OBVIOUS
<1> DEFINE h == tree_height(items)
           k == tree_height(items')
<1>1. /\ WalkType /\ HoldInv /\ WayInv /\ ReachInv /\ CountInv /\ StableSeen
      /\ wpc \notin {"idle", "done", "oops"} /\ changes' = changes + 1
      /\ items' \subseteq PageIndices /\ bufs' \subseteq items'
      /\ wstable' = wstable \ {i} /\ wstable' \subseteq items'
      /\ wpc' = wpc /\ index' = index /\ max_index' = max_index
      /\ page_count' = page_count /\ buffer_head_count' = buffer_head_count
      /\ wseen' = wseen /\ wstray' = wstray
      /\ lvl' = lvl /\ base' = base /\ wfreed' = wfreed
  BY DEF WalkInv, WalkType, Change, Changing, wloop
<1>2. /\ wshrunk' = (wshrunk \/ k < h)
      /\ wgone' = (wgone \/ (wpc # "root" /\ ~ InTree(items', foot, base)))
      /\ foot' = IF ~ wgone' /\ k < foot THEN k ELSE foot
  BY DEF Change
<1>3. /\ h \in Nat /\ k \in Nat /\ lvl \in Nat /\ foot \in Nat /\ foot <= lvl
      /\ base \in Nat /\ index \in Nat /\ max_index \in Nat
      /\ items' \subseteq Nat /\ (\A j \in items' : j < Span(k))
  <2>1. h \in Nat
    BY <1>1, Height
  <2>2. k \in Nat /\ Fits(items', k) /\ items' \subseteq Nat
    BY <1>1, TreeHeight, Widths
  <2> QED
    BY <1>1, <2>1, <2>2, Limits, PathReaches DEF WalkType, Fits, Span
<1>4. /\ wshrunk' \in BOOLEAN /\ wgone' \in BOOLEAN
      /\ (wshrunk => wshrunk') /\ (~ wshrunk' => ~ wshrunk /\ ~ (k < h))
      /\ (wgone => wgone')
      /\ (~ wgone' /\ wpc # "root" => InTree(items', foot, base))
  BY <1>1, <1>2, Zenon DEF WalkType
<1>5. foot' \in Nat /\ foot' <= foot /\ (foot' # foot => ~ wgone' /\ k < foot /\ foot' = k)
  <2>1. CASE ~ wgone' /\ k < foot
    BY <1>2, <1>3, <2>1
  <2>2. CASE ~ (~ wgone' /\ k < foot)
    <3>1. foot' = foot
      BY <1>2, <2>2
    <3> QED
      BY <1>3, <3>1
  <2> QED
    BY <2>1, <2>2
<1>6. WalkType'
  <2>1. foot' \in 0 .. lvl'
    BY <1>1, <1>3, <1>5
  <2>2. changes' \in Nat /\ wfreed' \in BOOLEAN
    BY <1>1 DEF WalkType
  <2> QED
    BY <1>1, <1>4, <2>1, <2>2 DEF WalkType
<1>7. \A l \in Nat : Span(l) \in Nat \ {0}
  BY Spans
<1>8. ASSUME foot' # foot, wpc # "root" PROVE base = 0
  <2>1. ~ wgone' /\ k < foot
    BY <1>5, <1>8
  <2>2. PICK j \in items' : j \div Span(foot) = base
    BY <1>4, <1>8, <2>1 DEF InTree, Span
  <2>3. j \in Nat /\ j < Span(k) /\ Span(k) <= Span(foot)
    BY <1>3, <2>1, Spans
  <2>4. Span(k) \in Nat /\ Span(foot) \in Nat \ {0}
    BY <1>3, <1>7
  <2>5. j < Span(foot)
    BY <2>3, <2>4
  <2> QED
    BY <2>2, <2>3, <2>4, <2>5, SmallDiv
<1>9. wpc = "root" => foot' = foot
  <2>1. wpc = "root" => foot = 0
    BY <1>1, <1>3 DEF HoldInv
  <2> QED
    BY <1>3, <1>5, <2>1
<1>10. ASSUME foot' # foot PROVE wshrunk'
  <2>1. ASSUME ~ wshrunk' PROVE FALSE
    <3>1. ~ wshrunk /\ ~ (k < h) /\ k < foot
      BY <1>4, <1>5, <1>10, <2>1
    <3>2. lvl <= h
      BY <1>1, <3>1 DEF ReachInv
    <3> QED
      BY <1>3, <3>1, <3>2
  <2> QED
    BY <2>1
<1>11. IdleInv' /\ HoldInv' /\ OopsInv'
  <2>1. lvl' > foot' => wshrunk' /\ base' = 0
    <3>1. CASE foot' = foot
      BY <1>1, <1>4, <3>1 DEF HoldInv
    <3>2. CASE foot' # foot
      BY <1>1, <1>8, <1>9, <1>10, <3>2
    <3> QED
      BY <3>1, <3>2
  <2>2. wfreed' => wgone' \/ lvl' > foot'
    BY <1>1, <1>3, <1>4, <1>5 DEF HoldInv
  <2> QED
    BY <1>1, <2>1, <2>2 DEF IdleInv, HoldInv, OopsInv
<1>12. WayInv'
  <2> SUFFICES ASSUME index \in wstable'
               PROVE  WayInv'
    BY <1>1 DEF WayInv
  <2>1. index \in wstable /\ index \in items'
    BY <1>1
  <2>2. wpc \in {"page", "ring"} => base = index
    BY <1>1, <2>1 DEF WayInv
  <2>3. ASSUME wpc = "slot"
        PROVE  ~ wgone' /\ base = index \div Span(lvl) /\ base = index \div Span(foot')
    <3>1. ~ wgone /\ base = index \div Span(lvl) /\ base = index \div Span(foot)
      BY <1>1, <2>1, <2>3 DEF WayInv
    <3>2. InTree(items', foot, base)
      BY <2>1, <3>1 DEF InTree, Span
    <3>3. ~ wgone'
      BY <1>2, <3>1, <3>2, Zenon
    <3>4. CASE foot' = foot
      BY <3>1, <3>3, <3>4
    <3>5. CASE foot' # foot
      <4>1. base = 0 /\ foot' = k
        BY <1>5, <1>8, <2>3, <3>5
      <4>2. index \div Span(k) = 0
        BY <1>3, <1>7, <2>1, SmallDiv
      <4> QED
        BY <3>1, <3>3, <4>1, <4>2
    <3> QED
      BY <3>4, <3>5
  <2> QED
    BY <1>1, <2>2, <2>3 DEF WayInv
<1>13. ReachInv'
  <2>1. ASSUME ~ wshrunk'
        PROVE  /\ wpc \in {"begin", "root", "slot"} => k > 0
               /\ wpc \in {"page", "ring"} => k > 0 \/ max_index = 0
               /\ lvl <= k
    <3>1. ~ wshrunk /\ h <= k
      BY <1>3, <1>4, <2>1
    <3>2. /\ wpc \in {"begin", "root", "slot"} => h > 0
          /\ wpc \in {"page", "ring"} => h > 0 \/ max_index = 0
          /\ lvl <= h
      BY <1>1, <3>1 DEF ReachInv
    <3> QED
      BY <1>3, <3>1, <3>2
  <2>2. ASSUME ~ wshrunk', wstray = {}
        PROVE  /\ wpc \in Walking => max_index < Span(k)
               /\ wpc = "slot" => base = index \div Span(lvl)
               /\ wpc \in {"page", "ring"} => base = index
    <3>1. ~ wshrunk /\ h <= k
      BY <1>3, <1>4, <2>2
    <3>2. /\ wpc \in Walking => max_index < Span(h)
          /\ wpc = "slot" => base = index \div Span(lvl)
          /\ wpc \in {"page", "ring"} => base = index
      BY <1>1, <2>2, <3>1 DEF ReachInv
    <3>3. Span(h) <= Span(k) /\ Span(h) \in Nat /\ Span(k) \in Nat
      BY <1>3, <1>7, <3>1, Spans
    <3>4. max_index < Span(h) => max_index < Span(k)
      BY <1>3, <3>3
    <3> QED
      BY <3>2, <3>4
  <2> QED
    BY <1>1, <2>1, <2>2 DEF ReachInv
<1>14. CountInv' /\ StableSeen'
  BY <1>1, <1>4 DEF CountInv, StableSeen
<1>15. QuietInv'
  <2>1. changes' # 0
    BY <1>1 DEF WalkType
  <2> QED
    BY <2>1 DEF QuietInv
<1> QED
  BY <1>6, <1>11, <1>12, <1>13, <1>14, <1>15 DEF WalkInv

LEMMA BuffersKeeps ==
    ASSUME NEW i \in PageIndices
    PROVE  WalkInv /\ Buffers(i) => WalkInv'
<1> SUFFICES ASSUME WalkInv, Buffers(i) PROVE WalkInv'
  OBVIOUS
<1>1. /\ WalkType /\ HoldInv /\ WayInv /\ ReachInv /\ CountInv /\ StableSeen
      /\ wpc \notin {"idle", "done", "oops"} /\ changes' = changes + 1
      /\ items' = items /\ bufs' \subseteq items
      /\ wstable' = wstable /\ wshrunk' = wshrunk
      /\ wpc' = wpc /\ index' = index /\ max_index' = max_index
      /\ page_count' = page_count /\ buffer_head_count' = buffer_head_count
      /\ wseen' = wseen /\ wstray' = wstray
      /\ lvl' = lvl /\ base' = base /\ foot' = foot /\ wfreed' = wfreed
  BY DEF WalkInv, WalkType, Buffers, Changing, wloop
<1>2. wgone' \in BOOLEAN /\ (wgone => wgone') /\ (wpc # "ring" => wgone' = wgone)
  <2>1. wgone' = (wgone \/ (wpc = "ring" /\ base = i /\ i \in bufs))
    BY DEF Buffers
  <2> QED
    BY <1>1, <2>1, Zenon DEF WalkType
<1>3. changes' \in Nat /\ changes' # 0
  BY <1>1 DEF WalkType
<1>4. WalkType'
  BY <1>1, <1>2, <1>3 DEF WalkType
<1>5. IdleInv' /\ HoldInv' /\ WayInv' /\ OopsInv'
  BY <1>1, <1>2 DEF IdleInv, HoldInv, WayInv, OopsInv
<1>6. ReachInv' /\ CountInv' /\ StableSeen'
  BY <1>1 DEF ReachInv, CountInv, StableSeen
<1>7. QuietInv'
  BY <1>3 DEF QuietInv
<1> QED
  BY <1>4, <1>5, <1>6, <1>7 DEF WalkInv

LEMMA GraceKeeps == WalkInv /\ GracePeriod => WalkInv'
<1> SUFFICES ASSUME WalkInv, GracePeriod PROVE WalkInv'
  OBVIOUS
<1>1. /\ wpc' = wpc /\ items' = items /\ bufs' = bufs /\ wstable' = wstable
      /\ wshrunk' = wshrunk /\ changes' = changes
      /\ index' = index /\ max_index' = max_index
      /\ page_count' = page_count /\ buffer_head_count' = buffer_head_count
      /\ wseen' = wseen /\ wstray' = wstray
      /\ lvl' = lvl /\ base' = base /\ foot' = foot /\ wgone' = wgone
      /\ wfreed' \in BOOLEAN /\ (wgone \/ lvl > foot)
  BY DEF GracePeriod, wtree, wloop, wghost
<1>2. WalkType'
  BY <1>1 DEF WalkInv, WalkType
<1>3. IdleInv' /\ HoldInv' /\ WayInv' /\ OopsInv'
  BY <1>1 DEF WalkInv, IdleInv, HoldInv, WayInv, OopsInv
<1>4. ReachInv' /\ CountInv' /\ StableSeen'
  BY <1>1 DEF WalkInv, ReachInv, CountInv, StableSeen
<1>5. QuietInv'
  BY <1>1 DEF WalkInv, QuietInv, height_to_maxindex
<1> QED
  BY <1>2, <1>3, <1>4, <1>5 DEF WalkInv

\* WalkInv is inductive.
LEMMA WalkAlways == RSpec => []WalkInv
<1>1. WalkInv /\ [RNext]_wvars => WalkInv'
  <2>1. ASSUME WalkInv, UNCHANGED wvars PROVE WalkInv'
    <3>1. /\ wpc' = wpc /\ items' = items /\ bufs' = bufs /\ wstable' = wstable
          /\ wshrunk' = wshrunk /\ changes' = changes
          /\ index' = index /\ max_index' = max_index
          /\ page_count' = page_count /\ buffer_head_count' = buffer_head_count
          /\ wseen' = wseen /\ wstray' = wstray
          /\ lvl' = lvl /\ base' = base /\ foot' = foot /\ wgone' = wgone
          /\ wfreed' = wfreed
      BY <2>1 DEF wvars, wtree, wloop, whold, wghost
    <3> QED
      BY <2>1, <3>1 DEF WalkInv, WalkType, IdleInv, HoldInv, WayInv, ReachInv, OopsInv,
                        CountInv, QuietInv, StableSeen, height_to_maxindex
  <2>2. ASSUME WalkInv, walk_slot PROVE WalkInv'
    <3>1. slot_live \/ slot_cut \/ slot_freed
      BY <2>2 DEF walk_slot
    <3> QED
      BY <2>2, <3>1, LiveKeeps, CutKeeps, FreedKeeps
  <2> QED
    BY <2>1, <2>2, BeginKeeps, HeightKeeps, RootKeeps, PageKeeps, RingKeeps,
       ChangeKeeps, BuffersKeeps, GraceKeeps DEF RNext
<1> QED
  BY <1>1, WalkInit, PTL DEF RSpec

(***************************************************************************)
(* radix_tree_walk_through takes no lock; whatever pages come and go       *)
(* between any two of its loads, a page that was in the tree all the time  *)
(* has been found once the walk has passed its index, unless the tree lost *)
(* a level and the old root was freed while the walk was looking for that  *)
(* page in it (StableSeen).                                                *)
(***************************************************************************)
THEOREM StablePagesFound == RSpec => []StableSeen
  BY WalkAlways, PTL DEF WalkInv

(***************************************************************************)
(* The walk is right (WalkRight): its table of largest indices is, a walk  *)
(* that nothing disturbs counts each page within reach of an unsigned int  *)
(* once and each of its buffer heads once; only a tree that loses a level  *)
(* under the walk, a node that is freed under it, or an index without an   *)
(* end makes it count a page twice, and it dies of nothing but these and   *)
(* of buffer heads that are dropped under it.                              *)
(***************************************************************************)
THEOREM WalkIsRight == RSpec => []WalkRight
<1>1. WalkInv => WalkRight
  <2> SUFFICES ASSUME WalkInv PROVE WalkRight
    OBVIOUS
  <2>1. MaxindexRight
    BY TableRight DEF MaxindexRight, Reach
  <2>2. CountsRight
    <3> DEFINE h == tree_height(items)
               reached == {i \in items : i < 2^IntBits}
    <3> SUFFICES ASSUME wpc = "done", changes = 0
                 PROVE  /\ wseen = reached /\ page_count = Cardinality(reached)
                        /\ buffer_head_count =
                              BuffersPerPage * Cardinality(reached \cap bufs)
      BY DEF CountsRight
    <3>1. /\ ~ wshrunk /\ wstray = {} /\ wseen \subseteq items
          /\ max_index = height_to_maxindex[h] % 2^IntBits
          /\ items = {} \/ (max_index # ULONG_MAX /\ index = max_index + 1)
          /\ max_index # ULONG_MAX =>
                /\ {i \in items : i < index} \subseteq wseen
                /\ buffer_head_count = BuffersPerPage * Cardinality(wseen \cap bufs)
      BY DEF WalkInv, QuietInv
    <3>2. /\ h \in 0 .. RADIX_TREE_MAX_PATH /\ h \in Nat /\ Fits(items, h)
          /\ items = {} => h = 0
      BY Height, TreeHeight DEF WalkInv, WalkType
    <3>3. max_index # ULONG_MAX
      <4>1. CASE items = {}
        <5>1. max_index \in Nat /\ max_index < 1
          BY <3>1, <3>2, <4>1, LastReached, Spans, Limits
        <5> QED
          BY <5>1, Limits
      <4> QED
        BY <3>1, <4>1
    <3>4. wseen \subseteq 0 .. index - 1 /\ page_count = Cardinality(wseen)
      BY <3>1, <3>3 DEF WalkInv, CountInv
    <3>5. wseen = reached
      <4>1. CASE items = {}
        BY <3>1, <4>1
      <4>2. CASE items # {}
        <5>1. {i \in items : i < index} \subseteq wseen /\ index = max_index + 1
          BY <3>1, <3>3, <4>2
        <5> DEFINE w == IF Reach(h) < IntBits THEN Reach(h) ELSE IntBits
        <5>2. index = 2^w
          <6>1. w \in Nat
            BY <3>2, Widths DEF Reach
          <6>2. 2^w \in Nat /\ max_index = 2^w - 1
            BY <3>1, <3>2, <6>1, LastIndex, PowerOfTwo
          <6> HIDE DEF w
          <6> QED
            BY <5>1, <6>2
        <5>3. ASSUME NEW i \in items PROVE i < 2^w <=> i < 2^IntBits
          <6>1. i \in Nat /\ i < 2^(h * MapShift) /\ i < 2^LongBits
            BY <3>2, Limits DEF WalkInv, WalkType, Fits
          <6>2. i < 2^Reach(h) /\ Reach(h) \in Nat
            BY <3>2, <6>1, Widths DEF Reach
          <6>3. CASE Reach(h) < IntBits
            <7>1. 2^Reach(h) <= 2^IntBits /\ 2^Reach(h) \in Nat /\ 2^IntBits \in Nat
              BY <6>2, <6>3, Widths, PowerMonotone, PowerOfTwo
            <7>2. w = Reach(h)
              BY <6>3
            <7> QED
              BY <6>1, <6>2, <7>1, <7>2
          <6>4. CASE ~ (Reach(h) < IntBits)
            BY <6>4
          <6> QED
            BY <6>3, <6>4
        <5>4. \A i \in items : i < index <=> i < 2^IntBits
          BY <5>2, <5>3
        <5>5. \A i \in wseen : i < index
          <6>1. index \in Nat
            BY Limits DEF WalkInv, WalkType
          <6> QED
            BY <3>4, <6>1
        <5> QED
          BY <3>1, <5>1, <5>4, <5>5
      <4> QED
        BY <4>1, <4>2
    <3> QED
      BY <3>1, <3>3, <3>4, <3>5
  <2>3. ShrinkingOnly
    BY DEF WalkInv, CountInv, OopsInv, ShrinkingOnly
  <2> QED
    BY <2>1, <2>2, <2>3 DEF WalkRight, WalkInv
<1> QED
  BY <1>1, WalkAlways, PTL
=============================================================================
