------------------------ MODULE UnsignedBigInt_proofs ------------------------
(***************************************************************************)
(* What the operators of UnsignedBigInt compute, for numbers of any length *)
(* and octets of any width: the octets stay octets, the most significant   *)
(* one is not zero, and the number they stand for is the one of            *)
(* arithmetic.                                                             *)
(***************************************************************************)
EXTENDS UnsignedBigInt, TLAPS

HornerStep(d, v, i) == v * Base + At(d, i)
Horner == INSTANCE Folding WITH Op <- HornerStep

-----------------------------------------------------------------------------
(* Arithmetic. *)

LEMMA Distributes ==
  ASSUME NEW a \in Int, NEW b \in Int, NEW c \in Int
  PROVE  /\ (a + b) * c = a * c + b * c
         /\ c * (a + b) = c * a + c * b
         /\ (a - b) * c = a * c - b * c
         /\ a * (b * c) = (a * b) * c
         /\ a * b = b * a
         /\ a * b \in Int
  OBVIOUS

LEMMA Monotonic ==
  ASSUME NEW a \in Int, NEW b \in Int, NEW c \in Nat, a <= b
  PROVE  a * c <= b * c
<1>1. (b - a) * c >= 0
  OBVIOUS
<1>2. (b - a) * c = b * c - a * c
  BY Distributes
<1> QED
  BY <1>1, <1>2

LEMMA Division ==
  ASSUME NEW a \in Int, NEW b \in Nat \ {0}
  PROVE  /\ a \div b \in Int /\ a % b \in 0..(b - 1)
         /\ a = (b * (a \div b)) + (a % b)
         /\ a \in Nat => a \div b \in Nat
  OBVIOUS

LEMMA NatDivision ==
  ASSUME NEW a \in Nat, NEW b \in Nat \ {0}
  PROVE  /\ a \div b \in Nat /\ a % b \in 0..(b - 1)
         /\ a = (b * (a \div b)) + (a % b)
  OBVIOUS

\* Quotient and remainder are the only ones.
LEMMA DivisionUnique ==
  ASSUME NEW a \in Int, NEW b \in Nat \ {0}, NEW q \in Int, NEW r \in 0..(b - 1),
         a = (b * q) + r
  PROVE  a \div b = q /\ a % b = r
  OBVIOUS

-----------------------------------------------------------------------------
(* Octets, bits and their weights. *)

LEMMA Powers ==
  /\ \A k \in 0..OctetBits : 2^k \in Nat \ {0} /\ 2^(OctetBits - k) \in Nat \ {0}
  /\ \A k \in 0..OctetBits : 2^k * 2^(OctetBits - k) = Base
  /\ \A k \in 0..(OctetBits - 1) : 2^(k + 1) = 2 * 2^k
  /\ 2^0 = 1 /\ 2^OctetBits = Base
  /\ Base \in Nat /\ Base >= 2
<1> DEFINE n == OctetBits
           f == [k \in 0..n |-> 2^k]
           T == {k \in 0..n : f[k] \in Nat \ {0}}
           R == {k \in 0..n : f[k] * f[n - k] = f[n]}
<1>0. n \in Nat \ {0} /\ 0 \in Int /\ n \in Int /\ n - 1 \in 0..(n - 1) /\ (n - 1) + 1 = n
  BY OctetBitsAssumption
<1>1. f[0] = 1 /\ \A k \in 0..(n - 1) : f[k + 1] = 2 * f[k]
  BY PowersAssumption, <1>0 DEF PowersUpTo
<1>2. Base = f[n] /\ \A k \in 0..n : f[k] = 2^k /\ f[n - k] = 2^(n - k)
  BY <1>0 DEF Base
<1>3. 2^0 = 1 /\ \A k \in 0..(n - 1) : 2^(k + 1) = 2 * 2^k
  BY PowersAssumption DEF PowersUpTo
<1> HIDE DEF f, n
<1>4. \A k \in 0..n : f[k] \in Nat \ {0}
  <2>1. 0 \in T
    BY <1>0, <1>1
  <2>2. \A k \in 0..(n - 1) : k \in T => k + 1 \in T
    BY <1>0, <1>1
  <2> HIDE DEF T
  <2>3. \A k \in 0..n : k \in T
    BY <1>0, <2>1, <2>2, Horner!Induction
  <2> QED
    BY <2>3 DEF T
<1>5. \A k \in 0..n : f[k] * f[n - k] = f[n]
  <2>1. 0 \in T /\ 0 \in R
    BY <1>0, <1>1, <1>4
  <2>2. ASSUME NEW k \in 0..(n - 1), k \in R
        PROVE  k + 1 \in R
    <3>1. /\ k \in 0..n /\ k + 1 \in 0..n
          /\ n - (k + 1) \in 0..(n - 1) /\ n - (k + 1) \in 0..n
          /\ (n - (k + 1)) + 1 = n - k
      BY <1>0
    <3>2. f[k + 1] = 2 * f[k] /\ f[n - k] = 2 * f[n - (k + 1)]
      BY <1>1, <3>1
    <3>3. f[k] \in Int /\ f[n - (k + 1)] \in Int
      BY <1>4, <3>1
    <3>4. f[k] * f[n - k] = f[k + 1] * f[n - (k + 1)]
      BY <3>2, <3>3
    <3> QED
      BY <2>2, <3>1, <3>4
  <2> HIDE DEF R
  <2>3. \A k \in 0..n : k \in R
    BY <1>0, <2>1, <2>2, Horner!Induction
  <2> QED
    BY <2>3 DEF R
<1>6. Base \in Nat /\ Base >= 2
  BY <1>0, <1>1, <1>2, <1>4
<1>7. \A k \in 0..n : n - k \in 0..n
  BY <1>0
<1> QED
  BY <1>2, <1>3, <1>4, <1>5, <1>6, <1>7 DEF n, Base

LEMMA DivisionByBase ==
  ASSUME NEW a \in Int
  PROVE  /\ a \div Base \in Int /\ a % Base \in Int /\ a % Base \in Digit
         /\ a = (Base * (a \div Base)) + (a % Base)
         /\ 0 <= a % Base /\ a % Base < Base
<1>1. Base \in Nat \ {0}
  BY Powers
<1>2. /\ a \div Base \in Int /\ a % Base \in 0..(Base - 1)
      /\ a = (Base * (a \div Base)) + (a % Base)
  BY <1>1, Division
<1> DEFINE r == a % Base
<1> HIDE DEF r
<1>3. r \in 0..(Base - 1) => r \in Int /\ 0 <= r /\ r < Base
  BY <1>1
<1> QED
  BY <1>2, <1>3 DEF Digit, r

LEMMA AtDigit ==
  ASSUME NEW d \in Seq(Digit), NEW i \in Int
  PROVE  At(d, i) \in Digit /\ At(d, i) \in 0..(Base - 1) /\ At(d, i) \in Int
<1>1. 0 \in Digit /\ Digit \subseteq Int
  BY Powers DEF Digit
<1>2. CASE i \in 0..(Len(d) - 1)
  <2>1. i + 1 \in 1..Len(d)
    BY <1>2
  <2>2. d[i + 1] \in Digit
    BY <2>1
  <2> QED
    BY <1>1, <1>2, <2>2 DEF At, Digit
<1> QED
  BY <1>1, <1>2 DEF At, Digit

LEMMA AtNat ==
  ASSUME NEW d \in Seq(Digit), NEW i \in Nat
  PROVE  At(d, i) \in Nat /\ At(d, i) \in Int /\ At(d, i) < Base /\ At(d, i) <= Base - 1
<1>1. i \in Int
  OBVIOUS
<1>2. At(d, i) \in 0..(Base - 1)
  BY <1>1, AtDigit
<1> DEFINE x == At(d, i)
<1> HIDE DEF x
<1>3. x \in 0..(Base - 1) => x \in Nat /\ x \in Int /\ x < Base /\ x <= Base - 1
  BY Powers
<1> QED
  BY <1>2, <1>3 DEF x

\* The weight of the octet at position k.
Weight == CHOOSE g : Horner!RecursOn(g, Nat \ {0}, 1, [p \in Nat \X (Nat \ {0}) |-> p[2] * Base])

LEMMA Weights ==
  /\ \A k \in Nat : Weight[k] \in Nat \ {0} /\ Weight[k] \in Int
  /\ Weight[0] = 1
  /\ \A k \in Nat : Weight[k + 1] = Weight[k] * Base
<1> DEFINE S == Nat \ {0}
           G == [p \in Nat \X S |-> p[2] * Base]
<1>1. G \in [Nat \X S -> S]
  <2>1. \A p \in Nat \X S : p[2] * Base \in S
    BY Powers
  <2> QED
    BY <2>1
<1>2. 1 \in S
  OBVIOUS
<1>3. \E g : Horner!RecursOn(g, S, 1, G)
  <2> HIDE DEF S, G
  <2> QED
    BY <1>1, <1>2, Horner!RecursiveOnNat
<1>4. Horner!RecursOn(Weight, S, 1, G)
  BY <1>3 DEF Weight
<1>5. \A k \in Nat : Weight[k] \in S /\ G[<<k, Weight[k]>>] = Weight[k] * Base
  BY <1>4 DEF Horner!RecursOn
<1>6. \A w \in S : w \in Nat \ {0} /\ w \in Int
  OBVIOUS
<1> HIDE DEF S, G
<1> QED
  BY <1>4, <1>5, <1>6 DEF Horner!RecursOn

LEMMA WeightType ==
  ASSUME NEW k \in Nat
  PROVE  Weight[k] \in Nat \ {0} /\ Weight[k] \in Nat /\ Weight[k] \in Int
  BY Weights

LEMMA WeightStep ==
  ASSUME NEW k \in Nat
  PROVE  Weight[k + 1] = Weight[k] * Base
  BY Weights

\* The number that the octets of d below position k stand for.
Adds(d) == [p \in Nat \X Int |-> p[2] + At(d, p[1]) * Weight[p[1]]]
Part(d) == CHOOSE g : Horner!RecursOn(g, Int, 0, Adds(d))

LEMMA Parts ==
  ASSUME NEW d, \A i \in Nat : At(d, i) \in Int
  PROVE  /\ \A k \in Nat : Part(d)[k] \in Int
         /\ Part(d)[0] = 0
         /\ \A k \in Nat : Part(d)[k + 1] = Part(d)[k] + At(d, k) * Weight[k]
<1>1. Adds(d) \in [Nat \X Int -> Int]
  <2>1. \A p \in Nat \X Int : p[2] + At(d, p[1]) * Weight[p[1]] \in Int
    BY Weights
  <2> QED
    BY <2>1 DEF Adds
<1>2. \E g : Horner!RecursOn(g, Int, 0, Adds(d))
  BY <1>1, Horner!RecursiveOnNat, SMTT(30)
<1>3. Horner!RecursOn(Part(d), Int, 0, Adds(d))
  BY <1>2 DEF Part
<1>4. \A k \in Nat : /\ Part(d)[k] \in Int
                     /\ Adds(d)[<<k, Part(d)[k]>>] = Part(d)[k] + At(d, k) * Weight[k]
  BY <1>3 DEF Horner!RecursOn, Adds
<1> QED
  BY <1>3, <1>4 DEF Horner!RecursOn

\* Numbers with the same octets, up to zeros, have the same parts.
LEMMA SameParts ==
  ASSUME NEW d, NEW e, \A i \in Nat : At(d, i) = At(e, i)
  PROVE  Part(d) = Part(e)
<1>1. Adds(d) = Adds(e)
  BY DEF Adds
<1> QED
  BY <1>1 DEF Part

LEMMA DigitParts ==
  ASSUME NEW d \in Seq(Digit)
  PROVE  /\ \A k \in Nat : Part(d)[k] \in Int
         /\ Part(d)[0] = 0
         /\ \A k \in Nat : Part(d)[k + 1] = Part(d)[k] + At(d, k) * Weight[k]
<1>1. \A i \in Nat : At(d, i) \in Int
  BY AtDigit
<1> QED
  BY <1>1, Parts

\* Part, for a sequence of octets.
LEMMA PartBounds ==
  ASSUME NEW d \in Seq(Digit), NEW k \in Nat
  PROVE  Part(d)[k] \in 0..(Weight[k] - 1)
<1> DEFINE T == {i \in 0..k : Part(d)[i] \in 0..(Weight[i] - 1)}
<1>0. \A i \in Nat : At(d, i) \in Int
  BY AtDigit
<1>1. 0 \in T
  <2>1. Part(d)[0] = 0 /\ Weight[0] = 1
    BY <1>0, Parts, Weights
  <2> QED
    BY <2>1
<1>2. ASSUME NEW i \in 0..(k - 1), i \in T
      PROVE  i + 1 \in T
  <2> DEFINE w == Weight[i]
             x == At(d, i)
             a == Part(d)[i]
  <2>1. /\ w \in Nat \ {0} /\ x \in 0..(Base - 1) /\ a \in 0..(w - 1) /\ Base \in Nat
        /\ i \in Nat
    BY <1>2, Weights, AtDigit, Powers
  <2>2. Part(d)[i + 1] = a + x * w /\ Weight[i + 1] = w * Base
    BY <1>0, <2>1, Parts, Weights
  <2> HIDE DEF w, x, a
  <2>3. x * w <= (Base - 1) * w
    BY <2>1, Monotonic
  <2>4. (Base - 1) * w = w * Base - w
    BY <2>1
  <2>5. x * w \in Nat
    BY <2>1
  <2>6. a + x * w \in 0..(w * Base - 1)
    BY <2>1, <2>3, <2>4, <2>5
  <2> QED
    BY <2>2, <2>6
<1>3. k \in T
  <2>1. 0 \in Int /\ k \in Int /\ k \in 0..k
    OBVIOUS
  <2> HIDE DEF T
  <2> QED
    BY <1>1, <1>2, <2>1, Horner!Induction
<1> QED
  BY <1>3

LEMMA LenOf ==
  ASSUME NEW d \in Seq(Digit)
  PROVE  Len(d) \in Nat /\ DOMAIN d = 1..Len(d)
  OBVIOUS

\* Value() adds what the octets stand for (nu_unsigned_big_int.h).
LEMMA ValueIsPart ==
  ASSUME NEW d \in Seq(Digit)
  PROVE  Value(d) = Part(d)[Len(d)]
<1> DEFINE n == Len(d)
           q == Descending(n)
           P == Part(d)
<1>0. n \in Nat /\ n \in Int /\ 0 \in Int
  BY LenOf
<1>1. Value(d) = Horner!Folded(d, 0, q)
  BY DEF Value, HornerStep, Horner!Folded, Horner!FoldLeft, FoldLeft,
         Horner!MapThenFoldSet, MapThenFoldSet, Horner!Max, Max
<1>2. /\ DOMAIN q = 1..n
      /\ \A k \in 1..n : q[k] = n - k
  BY <1>0 DEF Descending
<1> HIDE DEF q
<1>3. \A a \in Int, k \in 1..n : HornerStep(d, a, q[k]) \in Int
  <2> SUFFICES ASSUME NEW a \in Int, NEW k \in 1..n PROVE HornerStep(d, a, q[k]) \in Int
    OBVIOUS
  <2>1. q[k] \in Int
    BY <1>0, <1>2
  <2>2. At(d, q[k]) \in Int
    BY <2>1, AtDigit
  <2> QED
    BY <2>2, Powers DEF HornerStep
<1>4. PICK g : Horner!FoldSteps(g, d, n, Int, 0, q)
  BY <1>0, <1>2, <1>3, Horner!Fold
<1>5. /\ \A k \in 0..n : g[k] \in Int
      /\ g[0] = 0 /\ g[n] = Value(d)
      /\ \A k \in 1..n : g[k] = g[k - 1] * Base + At(d, q[k])
  BY <1>1, <1>4 DEF Horner!FoldSteps, HornerStep
<1>6. /\ \A k \in Nat : P[k] \in Int
      /\ P[0] = 0
      /\ \A k \in Nat : P[k + 1] = P[k] + At(d, k) * Weight[k]
  BY DigitParts
<1> HIDE DEF P, n
<1> DEFINE T == {k \in 0..n : g[k] * Weight[n - k] + P[n - k] = P[n]}
<1>7. 0 \in T
  <2>1. n - 0 = n /\ n \in Nat /\ 0 \in 0..n /\ Weight[n] \in Int
    BY <1>0, WeightType
  <2>2. P[n] \in Int
    BY <1>6, <2>1
  <2>3. 0 * Weight[n] + P[n] = P[n]
    BY <2>1, <2>2
  <2> QED
    BY <1>5, <2>1, <2>3
<1>8. ASSUME NEW k \in 0..(n - 1), k \in T
      PROVE  k + 1 \in T
  <2> DEFINE m == n - (k + 1)
  <2>1. m \in Nat /\ m + 1 = n - k /\ k + 1 \in 1..n /\ (k + 1) - 1 = k /\ k \in 0..n
    BY <1>0
  <2> HIDE DEF m
  <2>2. P[m + 1] = P[m] + At(d, m) * Weight[m] /\ Weight[m + 1] = Weight[m] * Base
    BY <1>6, <2>1, Weights
  <2>3. g[k + 1] = g[k] * Base + At(d, m)
    <3>1. q[k + 1] = m
      BY <1>2, <2>1 DEF m
    <3> QED
      BY <1>5, <2>1, <3>1
  <2> DEFINE w == Weight[m]
             x == At(d, m)
             a == g[k]
             p == P[m]
  <2>4. w \in Int /\ x \in Int /\ a \in Int /\ p \in Int /\ Base \in Int
    <3>1. m \in Int /\ Weight[m] \in Int
      BY <2>1, WeightType
    <3>2. At(d, m) \in Int
      BY <3>1, AtDigit
    <3> QED
      BY <1>5, <1>6, <2>1, <3>1, <3>2, Powers
  <2>5. a * (w * Base) + (p + x * w) = P[n]
    BY <1>8, <2>1, <2>2
  <2>6. (a * Base + x) * w + p = P[n]
    <3> HIDE DEF w, x, a, p, m
    <3> QED
      BY <2>4, <2>5
  <2> QED
    BY <2>1, <2>3, <2>6 DEF m
<1>9. n \in T
  <2>1. n \in 0..n
    BY <1>0
  <2> HIDE DEF T
  <2> QED
    BY <1>0, <1>7, <1>8, <2>1, Horner!Induction
<1>10. g[n] * Weight[0] + P[0] = P[n] /\ n - n = 0
  BY <1>0, <1>9
<1>11. g[n] \in Int
  BY <1>0, <1>5
<1> QED
  BY <1>5, <1>6, <1>10, <1>11, Weights, SMTT(30) DEF P, n

\* Nothing is added behind the end.
LEMMA ValueIsAnyPart ==
  ASSUME NEW d \in Seq(Digit), NEW k \in Nat, Len(d) <= k
  PROVE  Value(d) = Part(d)[k]
<1> DEFINE n == Len(d)
           T == {i \in n..k : Part(d)[i] = Part(d)[n]}
<1>0. n \in Nat /\ n \in Int /\ k \in Int /\ n \in n..k /\ k \in n..k
  BY LenOf
<1>1. n \in T
  BY <1>0
<1>2. ASSUME NEW i \in n..(k - 1), i \in T
      PROVE  i + 1 \in T
  <2>1. i \in Nat /\ i + 1 \in n..k /\ i \notin 0..(n - 1)
    BY <1>0
  <2>2. At(d, i) = 0
    BY <2>1 DEF At
  <2>3. Part(d)[i + 1] = Part(d)[i] + At(d, i) * Weight[i] /\ Part(d)[i] \in Int
    BY <2>1, DigitParts
  <2>4. Weight[i] \in Int
    BY <2>1, WeightType
  <2>5. At(d, i) * Weight[i] = 0
    BY <2>2, <2>4
  <2> QED
    BY <1>2, <2>1, <2>3, <2>5
<1>3. k \in T
  <2> HIDE DEF T
  <2> QED
    BY <1>0, <1>1, <1>2, Horner!Induction
<1> QED
  BY <1>3, ValueIsPart

LEMMA ValueNat ==
  ASSUME NEW d \in Seq(Digit)
  PROVE  Value(d) \in 0..(Weight[Len(d)] - 1) /\ Value(d) \in Nat
<1>1. Len(d) \in Nat /\ Weight[Len(d)] \in Nat
  BY LenOf, Weights
<1> QED
  BY <1>1, ValueIsPart, PartBounds

\* Which octets there are decides about the number.
LEMMA SameValue ==
  ASSUME NEW d \in Seq(Digit), NEW e \in Seq(Digit), \A i \in Nat : At(d, i) = At(e, i)
  PROVE  Value(d) = Value(e)
<1>1. Part(d) = Part(e)
  BY SameParts
<1>2. PICK k \in Nat : Len(d) <= k /\ Len(e) <= k
  <2>1. Len(d) + Len(e) \in Nat /\ Len(d) <= Len(d) + Len(e) /\ Len(e) <= Len(d) + Len(e)
    BY LenOf
  <2> QED
    BY <2>1
<1> QED
  BY <1>1, <1>2, ValueIsAnyPart

-----------------------------------------------------------------------------
(* The canonical form. *)

\* Octets, the most significant one of which is not zero.
Normal(d) == d \in Seq(Digit) /\ (d # <<>> => Last(d) # 0)

\* ensure_minimum_data_size() keeps the octets below the last one that is not zero.
LEMMA MinimumCuts ==
  ASSUME NEW d \in Seq(Digit)
  PROVE  \E m \in 0..Len(d) :
           /\ Minimum(d) = SubSeq(d, 1, m)
           /\ m # 0 => d[m] # 0
           /\ \A i \in (m + 1)..Len(d) : d[i] = 0
<1> DEFINE n == Len(d)
           s == {i \in 1..n : d[i] # 0}
<1>0. n \in Nat /\ DOMAIN d = 1..n
  BY LenOf
<1>1. Minimum(d) = SubSeq(d, 1, Max({0} \cup s))
  BY <1>0 DEF Minimum
<1>2. \A T : Max(T) = Horner!Max(T)
  BY DEF Max, Horner!Max
<1>3. CASE s = {}
  <2>1. {0} \cup s = {0} /\ {0} \in SUBSET Nat /\ 0 \in {0} /\ \A k \in {0} : k <= 0
    BY <1>3
  <2>2. Horner!Max({0}) = 0
    BY <2>1, Horner!MaxIsGreatest
  <2>3. Max({0} \cup s) = 0
    BY <1>2, <2>1, <2>2
  <2>4. \A i \in (0 + 1)..n : d[i] = 0
    BY <1>3
  <2>5. 0 \in 0..n
    BY <1>0
  <2> QED
    BY <1>1, <2>3, <2>4, <2>5
<1>4. CASE s # {}
  <2>1. s \in SUBSET (1..n)
    OBVIOUS
  <2> DEFINE m == Horner!Max(s)
  <2>2. m \in s /\ \A k \in s : k <= m
    <3> HIDE DEF s
    <3> QED
      BY <1>0, <1>4, <2>1, Horner!FiniteMax
  <2> HIDE DEF m
  <2>3. {0} \cup s \in SUBSET Nat /\ m \in {0} \cup s /\ \A k \in {0} \cup s : k <= m
    BY <1>0, <2>2
  <2>4. Max({0} \cup s) = m
    <3> HIDE DEF s
    <3> QED
      BY <1>2, <2>3, Horner!MaxIsGreatest
  <2>5. \A i \in (m + 1)..n : d[i] = 0
    BY <1>0, <2>2
  <2>6. m \in 0..n /\ d[m] # 0
    BY <1>0, <2>2
  <2> QED
    BY <1>1, <2>4, <2>5, <2>6
<1> QED
  BY <1>3, <1>4

LEMMA MinimumNormal ==
  ASSUME NEW d \in Seq(Digit)
  PROVE  /\ Normal(Minimum(d)) /\ Minimum(d) \in Seq(Digit)
         /\ \A i \in Nat : At(Minimum(d), i) = At(d, i)
         /\ Value(Minimum(d)) = Value(d)
         /\ Len(Minimum(d)) <= Len(d)
<1> DEFINE n == Len(d)
<1>0. n \in Nat
  BY LenOf
<1>1. PICK m \in 0..n : /\ Minimum(d) = SubSeq(d, 1, m)
                        /\ m # 0 => d[m] # 0
                        /\ \A i \in (m + 1)..n : d[i] = 0
  BY MinimumCuts
<1> DEFINE c == SubSeq(d, 1, m)
<1>2. /\ c \in Seq(Digit) /\ Len(c) = m /\ \A i \in 1..m : c[i] = d[i]
  BY <1>0
<1> HIDE DEF c, n
<1>3. Normal(c)
  <2>1. CASE m = 0
    <3>1. c = <<>>
      BY <1>2, <2>1
    <3> QED
      BY <1>2, <3>1 DEF Normal
  <2>2. CASE m # 0
    <3>1. Last(c) = c[m] /\ m \in 1..m
      BY <1>2, <2>2 DEF Last
    <3> QED
      BY <1>1, <1>2, <2>2, <3>1 DEF Normal
  <2> QED
    BY <2>1, <2>2
<1>4. ASSUME NEW i \in Nat PROVE At(c, i) = At(d, i)
  <2>1. CASE i < m
    <3>1. i \in 0..(m - 1) /\ i \in 0..(n - 1) /\ i + 1 \in 1..m
      BY <1>0, <2>1
    <3> QED
      BY <1>2, <3>1 DEF At, n
  <2>2. CASE i >= m /\ i < n
    <3>1. i \notin 0..(m - 1) /\ i \in 0..(n - 1) /\ i + 1 \in (m + 1)..n
      BY <1>0, <2>2
    <3> QED
      BY <1>1, <1>2, <3>1 DEF At, n
  <2>3. CASE i >= n
    <3>1. i \notin 0..(m - 1) /\ i \notin 0..(n - 1)
      BY <1>0, <2>3
    <3> QED
      BY <1>2, <3>1 DEF At, n
  <2> QED
    BY <1>0, <2>1, <2>2, <2>3
<1>5. Value(c) = Value(d)
  BY <1>2, <1>4, SameValue
<1>6. Minimum(d) = c /\ m <= n
  BY <1>0, <1>1 DEF c
<1> QED
  BY <1>2, <1>3, <1>4, <1>5, <1>6 DEF n

LEMMA ZeroNormal == Normal(Zero) /\ Zero \in Seq(Digit) /\ Value(Zero) = 0
<1>1. Zero \in Seq(Digit) /\ Len(Zero) = 0
  BY DEF Zero
<1>2. Value(Zero) = Part(Zero)[0]
  BY <1>1, ValueIsPart
<1> QED
  BY <1>1, <1>2, DigitParts DEF Normal, Zero

\* A most significant octet that is not zero makes the number as large as its weight.
LEMMA NormalBounds ==
  ASSUME NEW d, Normal(d), d # <<>>
  PROVE  /\ Len(d) - 1 \in Nat
         /\ Weight[Len(d) - 1] <= Value(d)
<1> DEFINE m == Len(d) - 1
           x == At(d, m)
           w == Weight[m]
           p == Part(d)[m]
<1>1. d \in Seq(Digit) /\ m \in Nat /\ Last(d) # 0 /\ m + 1 = Len(d)
  BY DEF Normal
<1> HIDE DEF m
<1>2. x # 0
  <2>1. m \in 0..(Len(d) - 1)
    BY <1>1
  <2> QED
    BY <1>1, <2>1 DEF At, Last
<1>3. x \in Nat
  BY <1>1, AtNat
<1>4. w \in Nat /\ p \in 0..(w - 1)
  BY <1>1, WeightType, PartBounds
<1>5. Value(d) = p + x * w
  <2>1. Value(d) = Part(d)[m + 1]
    BY <1>1, ValueIsPart
  <2> QED
    BY <1>1, <2>1, DigitParts
<1> HIDE DEF x, w, p
<1>6. 1 * w <= x * w /\ 1 * w = w
  <2>1. x \in Int /\ 1 \in Int /\ 1 <= x
    BY <1>2, <1>3
  <2> QED
    BY <1>4, <2>1, Monotonic
<1>7. x * w \in Int
  BY <1>3, <1>4
<1>8. w <= Value(d)
  BY <1>4, <1>5, <1>6, <1>7
<1> QED
  BY <1>1, <1>8 DEF m, w

LEMMA WeightGrows ==
  ASSUME NEW m \in Nat, NEW n \in Nat, m <= n
  PROVE  Weight[m] <= Weight[n]
<1> DEFINE T == {k \in m..n : Weight[m] <= Weight[k]}
<1>1. m \in T
  BY WeightType
<1>2. ASSUME NEW k \in m..(n - 1), k \in T
      PROVE  k + 1 \in T
  <2>1. k \in Nat /\ k + 1 \in m..n
    OBVIOUS
  <2>2. Weight[k + 1] = Weight[k] * Base /\ Weight[k] \in Nat /\ Weight[m] \in Nat
    BY <2>1, WeightStep, WeightType
  <2>3. Weight[k] <= Weight[k] * Base
    <3> DEFINE w == Weight[k]
    <3>1. w \in Nat
      BY <2>2
    <3> HIDE DEF w
    <3>2. w <= w * Base
      <4>1. Base - 2 \in Nat
        BY Powers
      <4> DEFINE e == Base - 2
      <4>2. w * Base = w * e + w + w
        BY <3>1, <4>1, Powers
      <4>3. w * e \in Nat
        BY <3>1, <4>1
      <4> QED
        BY <3>1, <4>2, <4>3
    <3> QED
      BY <3>2 DEF w
  <2>4. Weight[k] * Base \in Int
    BY <2>2, Powers
  <2>5. Weight[m] <= Weight[k + 1]
    BY <1>2, <2>2, <2>3, <2>4
  <2> QED
    BY <2>1, <2>5
<1>3. n \in T
  <2>1. m \in Int /\ n \in Int /\ n \in m..n
    OBVIOUS
  <2> HIDE DEF T
  <2> QED
    BY <1>1, <1>2, <2>1, Horner!Induction
<1> QED
  BY <1>3
-----------------------------------------------------------------------------
(* Comparison. *)

\* Numbers with the same octets from position i on differ by what is below it.
LEMMA SameAbove ==
  ASSUME NEW a \in Seq(Digit), NEW b \in Seq(Digit), NEW i \in Nat, NEW n \in Nat, i <= n,
         \A j \in i..(n - 1) : At(a, j) = At(b, j)
  PROVE  Part(a)[n] - Part(a)[i] = Part(b)[n] - Part(b)[i]
<1> DEFINE T == {k \in i..n : Part(a)[k] - Part(a)[i] = Part(b)[k] - Part(b)[i]}
<1>1. \A k \in Nat : Part(a)[k] \in Int /\ Part(b)[k] \in Int
  BY DigitParts
<1>2. i \in T
  BY <1>1
<1>3. ASSUME NEW k \in i..(n - 1), k \in T
      PROVE  k + 1 \in T
  <2>1. k \in Nat /\ k + 1 \in i..n
    OBVIOUS
  <2>2. /\ Part(a)[k + 1] = Part(a)[k] + At(a, k) * Weight[k]
        /\ Part(b)[k + 1] = Part(b)[k] + At(a, k) * Weight[k]
    BY <2>1, DigitParts
  <2> DEFINE x == At(a, k) * Weight[k]
  <2>3. x \in Int
    <3>1. At(a, k) \in Int /\ Weight[k] \in Int
      BY <2>1, AtNat, WeightType
    <3> QED
      BY <3>1
  <2> HIDE DEF x
  <2>4. Part(a)[k + 1] = Part(a)[k] + x /\ Part(b)[k + 1] = Part(b)[k] + x
    BY <2>2 DEF x
  <2> DEFINE ak == Part(a)[k]
             ai == Part(a)[i]
             an == Part(a)[k + 1]
             bk == Part(b)[k]
             bi == Part(b)[i]
             bn == Part(b)[k + 1]
  <2>5. /\ ak \in Int /\ ai \in Int /\ bk \in Int /\ bi \in Int
        /\ ak - ai = bk - bi /\ an = ak + x /\ bn = bk + x
    BY <1>1, <1>3, <2>1, <2>4
  <2> HIDE DEF ak, ai, an, bk, bi, bn
  <2>6. an - ai = bn - bi
    BY <2>3, <2>5
  <2> QED
    BY <2>1, <2>6 DEF an, ai, bn, bi
<1>4. n \in T
  <2>1. i \in Int /\ n \in Int /\ n \in i..n
    OBVIOUS
  <2> HIDE DEF T
  <2> QED
    BY <1>2, <1>3, <2>1, Horner!Induction
<1> QED
  BY <1>4

\* The octet at i decides when all above it are the same.
LEMMA LargerOctet ==
  ASSUME NEW a \in Seq(Digit), NEW b \in Seq(Digit), NEW i \in Nat, NEW n \in Nat, i < n,
         At(a, i) < At(b, i),
         \A j \in (i + 1)..(n - 1) : At(a, j) = At(b, j)
  PROVE  Part(a)[n] < Part(b)[n]
<1> DEFINE x == At(a, i)
           y == At(b, i)
           w == Weight[i]
           p == Part(a)[i]
           q == Part(b)[i]
<1>0. x \in Int /\ y \in Int /\ x < y /\ w \in Nat
  BY AtNat, WeightType
<1>2. p \in 0..(w - 1) /\ q \in 0..(w - 1)
  BY PartBounds
<1>3. Part(a)[i + 1] = p + x * w /\ Part(b)[i + 1] = q + y * w
  BY DigitParts
<1>4. Part(a)[n] - Part(a)[i + 1] = Part(b)[n] - Part(b)[i + 1]
  BY SameAbove
<1>5. Part(a)[n] \in Int /\ Part(b)[n] \in Int
  BY DigitParts
<1> HIDE DEF x, y, w, p, q
<1>1. x \in Int /\ y \in Int /\ x + 1 \in Int /\ x + 1 <= y /\ w \in Nat
  BY <1>0
<1>6. (x + 1) * w <= y * w /\ (x + 1) * w = x * w + w
  BY <1>1, Monotonic
<1>7. x * w \in Int /\ y * w \in Int
  BY <1>1
<1> DEFINE an == Part(a)[n]
           ai == Part(a)[i + 1]
           bn == Part(b)[n]
           bi == Part(b)[i + 1]
           xw == x * w
           yw == y * w
<1>8. /\ an - ai = bn - bi /\ an \in Int /\ bn \in Int
      /\ ai = p + xw /\ bi = q + yw /\ xw \in Int /\ yw \in Int
      /\ xw + w <= yw
  BY <1>3, <1>4, <1>5, <1>6, <1>7
<1> HIDE DEF an, ai, bn, bi, xw, yw
<1>9. an < bn
  BY <1>1, <1>2, <1>8
<1> QED
  BY <1>9 DEF an, bn

LEMMA LessSmaller ==
  ASSUME NEW a, NEW b, Normal(a), Normal(b), Less(a, b)
  PROVE  Value(a) < Value(b)
<1>1. a \in Seq(Digit) /\ b \in Seq(Digit) /\ Len(a) \in Nat /\ Len(b) \in Nat
  BY LenOf DEF Normal
<1>2. CASE Len(a) < Len(b)
  <2> DEFINE n == Len(a)
             m == Len(b) - 1
  <2>1. b # <<>>
    BY <1>1, <1>2
  <2>2. m \in Nat /\ Weight[m] <= Value(b)
    BY <2>1, NormalBounds
  <2>3. n \in Nat /\ n <= m
    BY <1>1, <1>2, <2>2
  <2>4. Value(a) \in 0..(Weight[n] - 1) /\ Value(b) \in Nat
    BY <1>1, ValueNat
  <2> HIDE DEF n, m
  <2>5. Weight[n] <= Weight[m] /\ Weight[n] \in Nat /\ Weight[m] \in Nat
    BY <2>2, <2>3, WeightGrows, WeightType
  <2> QED
    BY <2>2, <2>4, <2>5
<1>3. CASE Len(a) >= Len(b)
  <2> DEFINE n == Len(a)
  <2>1. n = Len(b)
    BY <1>1, <1>3 DEF Less
  <2>2. PICK k \in 1..n : a[k] < b[k] /\ \A j \in (k + 1)..n : a[j] = b[j]
    BY <1>1, <1>3, LenOf DEF Less
  <2>3. n \in Nat
    BY <1>1
  <2>4. /\ \A j \in 0..(n - 1) : At(a, j) = a[j + 1] /\ At(b, j) = b[j + 1]
    BY <2>1 DEF At
  <2> HIDE DEF n
  <2> DEFINE i == k - 1
  <2>5. i \in Nat /\ i < n /\ i + 1 = k /\ i \in 0..(n - 1)
    BY <2>3
  <2>6. At(a, i) < At(b, i)
    BY <2>2, <2>4, <2>5
  <2>7. ASSUME NEW j \in (i + 1)..(n - 1) PROVE At(a, j) = At(b, j)
    <3>1. j + 1 \in (k + 1)..n /\ j \in 0..(n - 1)
      BY <2>3, <2>5
    <3> QED
      BY <2>2, <2>4, <3>1
  <2> HIDE DEF i
  <2>8. Part(a)[n] < Part(b)[n]
    BY <1>1, <2>3, <2>5, <2>6, <2>7, LargerOctet
  <2> QED
    BY <1>1, <2>1, <2>8, ValueIsPart DEF n
<1> QED
  BY <1>1, <1>2, <1>3

LEMMA Trichotomy ==
  ASSUME NEW a, NEW b, Normal(a), Normal(b)
  PROVE  Less(a, b) \/ Less(b, a) \/ a = b
<1>1. a \in Seq(Digit) /\ b \in Seq(Digit) /\ Len(a) \in Nat /\ Len(b) \in Nat
  BY LenOf DEF Normal
<1>2. SUFFICES ASSUME Len(a) = Len(b), a # b
      PROVE  Less(a, b) \/ Less(b, a)
  BY <1>1 DEF Less
<1> DEFINE n == Len(a)
           s == {k \in 1..n : a[k] # b[k]}
<1>3. n \in Nat /\ DOMAIN a = 1..n /\ DOMAIN b = 1..n
  BY <1>1, <1>2, LenOf
<1>4. s # {}
  BY <1>1, <1>2, <1>3
<1> DEFINE k == Horner!Max(s)
<1>5. k \in s /\ \A j \in s : j <= k
  <2>1. s \in SUBSET (1..n)
    OBVIOUS
  <2> HIDE DEF s
  <2> QED
    BY <1>3, <1>4, <2>1, Horner!FiniteMax
<1> HIDE DEF k
<1>6. \A j \in (k + 1)..n : a[j] = b[j]
  BY <1>3, <1>5
<1>7. a[k] < b[k] \/ b[k] < a[k]
  <2>1. a[k] \in Digit /\ b[k] \in Digit
    BY <1>1, <1>3, <1>5
  <2> QED
    BY <1>5, <2>1, Powers DEF Digit
<1> QED
  BY <1>2, <1>3, <1>5, <1>6, <1>7 DEF Less

\* operator<=> compares the numbers, and equal numbers have equal octets: for that
\* the octets must be in the canonical form (nu_unsigned_big_int.h, operator<=>).
THEOREM LessCompares ==
  ASSUME NEW a, NEW b, Normal(a), Normal(b)
  PROVE  /\ Less(a, b) <=> Value(a) < Value(b)
         /\ a = b <=> Value(a) = Value(b)
<1>1. Value(a) \in Nat /\ Value(b) \in Nat
  BY ValueNat DEF Normal
<1>2. /\ Less(a, b) => Value(a) < Value(b)
      /\ Less(b, a) => Value(b) < Value(a)
  BY LessSmaller
<1> QED
  BY <1>1, <1>2, Trichotomy
-----------------------------------------------------------------------------
(* Addition and subtraction. *)

\* The result of the column at position i, for c = <<a, b, sign>>.
Column(c, i, carry) == At(c[1], i) + c[3] * At(c[2], i) + carry
ColumnStep(c, s, i) == [cache |-> Append(s.cache, Column(c, i, s.carry) % Base),
                        carry |-> Column(c, i, s.carry) \div Base]
Adding == INSTANCE Folding WITH Op <- ColumnStep

LEMMA SameBelow ==
  ASSUME NEW a \in Seq(Digit), NEW b \in Seq(Digit), NEW k \in Nat,
         \A j \in 0..(k - 1) : At(a, j) = At(b, j)
  PROVE  Part(a)[k] = Part(b)[k]
<1>1. Part(a)[k] - Part(a)[0] = Part(b)[k] - Part(b)[0]
  BY SameAbove
<1>2. Part(a)[0] = 0 /\ Part(b)[0] = 0 /\ Part(a)[k] \in Int /\ Part(b)[k] \in Int
  BY DigitParts
<1> QED
  BY <1>1, <1>2

LEMMA PartAppend ==
  ASSUME NEW c \in Seq(Digit), NEW x \in Digit
  PROVE  /\ Append(c, x) \in Seq(Digit) /\ Len(Append(c, x)) = Len(c) + 1
         /\ Part(Append(c, x))[Len(c) + 1] = Part(c)[Len(c)] + x * Weight[Len(c)]
         /\ Value(Append(c, x)) = Value(c) + x * Weight[Len(c)]
<1> DEFINE e == Append(c, x)
           k == Len(c)
<1>1. k \in Nat /\ e \in Seq(Digit) /\ Len(e) = k + 1
  OBVIOUS
<1>2. /\ \A j \in 1..k : e[j] = c[j]
      /\ e[k + 1] = x
  OBVIOUS
<1> HIDE DEF e
<1>3. \A j \in 0..(k - 1) : At(e, j) = At(c, j)
  <2> SUFFICES ASSUME NEW j \in 0..(k - 1) PROVE At(e, j) = At(c, j)
    OBVIOUS
  <2>1. j + 1 \in 1..k /\ j \in 0..(Len(e) - 1)
    BY <1>1
  <2> QED
    BY <1>2, <2>1 DEF At
<1>4. At(e, k) = x
  <2>1. k \in 0..(Len(e) - 1)
    BY <1>1
  <2> QED
    BY <1>2, <2>1 DEF At
<1> HIDE DEF k
<1>5. Part(e)[k] = Part(c)[k]
  BY <1>1, <1>3, SameBelow DEF k
<1>6. Part(e)[k + 1] = Part(e)[k] + At(e, k) * Weight[k]
  BY <1>1, DigitParts
<1>7. Value(e) = Part(e)[k + 1] /\ Value(c) = Part(c)[k]
  BY <1>1, ValueIsPart DEF k
<1> QED
  BY <1>1, <1>4, <1>5, <1>6, <1>7 DEF e, k

\* The columns so far: what is in the cache, and the carry, are the sum so far.
Summed(s, a, b, sign, k) ==
  /\ s.cache \in Seq(Digit) /\ Len(s.cache) = k
  /\ s.carry \in {0, sign}
  /\ Part(a)[k] + sign * Part(b)[k] = Part(s.cache)[k] + s.carry * Weight[k]

LEMMA ColumnSummed ==
  ASSUME NEW a \in Seq(Digit), NEW b \in Seq(Digit), NEW sign \in {1, -1},
         NEW i \in Nat, NEW s, Summed(s, a, b, sign, i)
  PROVE  Summed(ColumnStep(<<a, b, sign>>, s, i), a, b, sign, i + 1)
<1> DEFINE x == At(a, i)
           y == At(b, i)
           carry == s.carry
           res == x + sign * y + carry
           m == res % Base
           d == res \div Base
           t == ColumnStep(<<a, b, sign>>, s, i)
           w == Weight[i]
           p == Part(a)[i]
           q == Part(b)[i]
           r == Part(s.cache)[i]
<1>1. x \in Nat /\ y \in Nat /\ x <= Base - 1 /\ y <= Base - 1 /\ Base \in Nat /\ Base >= 2
  BY AtNat, Powers
<1>2. w \in Int /\ p \in Int /\ q \in Int /\ r \in Int
  <2>1. s.cache \in Seq(Digit)
    BY DEF Summed
  <2> QED
    BY <2>1, WeightType, DigitParts
<1>3. carry \in {0, sign} /\ p + sign * q = r + carry * w /\ carry \in Int /\ sign \in Int
  BY DEF Summed
<1>4. t.cache = Append(s.cache, m) /\ t.carry = d
  BY DEF ColumnStep, Column
<1>5. /\ Part(a)[i + 1] = p + x * w /\ Part(b)[i + 1] = q + y * w
      /\ Weight[i + 1] = w * Base
  BY DigitParts, WeightStep
<1> HIDE DEF x, y, carry, t, w, p, q, r
<1>6. (p + x * w) + sign * (q + y * w) = (r + m * w) + d * (w * Base)
  <2>1. x \in Int /\ y \in Int /\ res \in Int
    BY <1>1, <1>3
  <2>2. (p + x * w) + sign * (q + y * w) = (p + sign * q) + (x + sign * y) * w
    BY <1>2, <1>3, <2>1
  <2>3. (p + sign * q) + (x + sign * y) * w = r + res * w
    BY <1>2, <1>3, <2>1
  <2> HIDE DEF res
  <2>4. res = (Base * d) + m /\ d \in Int /\ m \in Int
    BY <2>1, DivisionByBase
  <2> HIDE DEF m, d
  <2>5. (r + m * w) + d * (w * Base) = r + ((Base * d) + m) * w
    BY <1>1, <1>2, <2>4
  <2> QED
    BY <2>2, <2>3, <2>4, <2>5
<1>7. res \in Int
  BY <1>1, <1>3
<1>8. d \in {0, sign}
  <2>1. CASE sign = 1
    <3>1. 0 <= res /\ res < Base + Base
      BY <1>1, <1>3, <2>1
    <3> HIDE DEF res
    <3>2. res = (Base * d) + m /\ d \in Int /\ m \in Int /\ 0 <= m /\ m < Base
      BY <1>7, DivisionByBase
    <3> HIDE DEF m, d
    <3>3. CASE d >= 2
      <4>1. 2 * Base <= d * Base
        BY <1>1, <3>2, <3>3, Monotonic
      <4> QED
        BY <1>1, <3>1, <3>2, <4>1
    <3>4. CASE d <= -1
      <4>1. d * Base <= (-1) * Base
        BY <1>1, <3>2, <3>4, Monotonic
      <4> QED
        BY <1>1, <3>1, <3>2, <4>1
    <3> QED
      BY <2>1, <3>2, <3>3, <3>4
  <2>2. CASE sign = -1
    <3>1. -Base <= res /\ res < Base
      BY <1>1, <1>3, <2>2
    <3> HIDE DEF res
    <3>2. res = (Base * d) + m /\ d \in Int /\ m \in Int /\ 0 <= m /\ m < Base
      BY <1>7, DivisionByBase
    <3> HIDE DEF m, d
    <3>3. CASE d >= 1
      <4>1. 1 * Base <= d * Base
        BY <1>1, <3>2, <3>3, Monotonic
      <4> QED
        BY <1>1, <3>1, <3>2, <4>1
    <3>4. CASE d <= -2
      <4>1. d * Base <= (-2) * Base
        BY <1>1, <3>2, <3>4, Monotonic
      <4> QED
        BY <1>1, <3>1, <3>2, <4>1
    <3> QED
      BY <2>2, <3>2, <3>3, <3>4
  <2> QED
    BY <2>1, <2>2
<1>9. m \in Digit
  <2> HIDE DEF res
  <2> QED
    BY <1>7, DivisionByBase
<1> HIDE DEF m, d, res
<1>10. /\ t.cache \in Seq(Digit) /\ Len(t.cache) = i + 1
       /\ Part(t.cache)[i + 1] = r + m * w
  <2>1. s.cache \in Seq(Digit) /\ Len(s.cache) = i
    BY DEF Summed
  <2> QED
    BY <1>4, <1>9, <2>1, PartAppend DEF r, w
<1>11. Part(a)[i + 1] + sign * Part(b)[i + 1]
         = Part(t.cache)[i + 1] + t.carry * Weight[i + 1]
  BY <1>4, <1>5, <1>6, <1>10
<1> QED
  BY <1>4, <1>8, <1>10, <1>11 DEF Summed, t

\* What the columns of two numbers give.
LEMMA ColumnsSum ==
  ASSUME NEW a \in Seq(Digit), NEW b \in Seq(Digit), NEW sign \in {1, -1}
  PROVE  LET s == Columns(a, b, sign) IN
           /\ s.cache \in Seq(Digit) /\ Len(s.cache) = Longer(a, b)
           /\ s.carry \in {0, sign}
           /\ Value(a) + sign * Value(b)
                = Value(s.cache) + s.carry * Weight[Longer(a, b)]
<1> DEFINE n == Longer(a, b)
           c == <<a, b, sign>>
           start == [cache |-> <<>>, carry |-> 0]
           S == [cache : Seq(Digit), carry : Int]
           q == Ascending(n)
<1>1. n \in Nat /\ Len(a) <= n /\ Len(b) <= n
  BY LenOf DEF Longer
<1>2. Columns(a, b, sign) = Adding!Folded(c, start, q)
  BY DEF Columns, ColumnStep, Column, Adding!Folded, Adding!FoldLeft, FoldLeft,
         Adding!MapThenFoldSet, MapThenFoldSet, Adding!Max, Max
<1> HIDE DEF n
<1>3. DOMAIN q = 1..n /\ \A k \in 1..n : q[k] = k - 1
  BY DEF Ascending
<1> HIDE DEF q
<1>4. start \in S
  OBVIOUS
<1>5. \A s \in S, k \in 1..n : ColumnStep(c, s, q[k]) \in S
  <2> SUFFICES ASSUME NEW s \in S, NEW k \in 1..n PROVE ColumnStep(c, s, q[k]) \in S
    OBVIOUS
  <2> DEFINE i == k - 1
             res == At(a, i) + sign * At(b, i) + s.carry
  <2>0. s.cache \in Seq(Digit) /\ s.carry \in Int /\ sign \in Int
    OBVIOUS
  <2>1. q[k] = i /\ i \in Nat
    BY <1>3
  <2> HIDE DEF i, S
  <2>2. res \in Int
    <3>1. At(a, i) \in Int /\ At(b, i) \in Int
      BY <2>1, AtNat
    <3> QED
      BY <2>0, <3>1
  <2>3. ColumnStep(c, s, i) = [cache |-> Append(s.cache, res % Base), carry |-> res \div Base]
    BY DEF ColumnStep, Column
  <2> HIDE DEF res
  <2>4. res % Base \in Digit /\ res \div Base \in Int
    BY <2>2, DivisionByBase
  <2>5. Append(s.cache, res % Base) \in Seq(Digit)
    BY <2>0, <2>4
  <2>6. \A x \in Seq(Digit), y \in Int : [cache |-> x, carry |-> y] \in S
    BY DEF S
  <2> QED
    BY <2>1, <2>3, <2>4, <2>5, <2>6
<1> HIDE DEF S, start, c
<1>6. PICK g : Adding!FoldSteps(g, c, n, S, start, q)
  BY <1>1, <1>3, <1>4, <1>5, Adding!Fold
<1>7. /\ g[0] = start /\ g[n] = Columns(a, b, sign)
      /\ \A k \in 1..n : g[k] = ColumnStep(c, g[k - 1], q[k])
  BY <1>2, <1>6 DEF Adding!FoldSteps
<1> DEFINE T == {k \in 0..n : Summed(g[k], a, b, sign, k)}
<1>8. 0 \in T
  <2>1. start.cache = <<>> /\ start.carry = 0 /\ <<>> \in Seq(Digit) /\ Len(<<>>) = 0
    BY DEF start
  <2>2. Part(a)[0] = 0 /\ Part(b)[0] = 0 /\ Part(<<>>)[0] = 0 /\ Weight[0] = 1
    BY <2>1, DigitParts, Weights
  <2>3. 0 + sign * 0 = 0 + 0 * 1
    OBVIOUS
  <2>4. Summed(start, a, b, sign, 0)
    BY <2>1, <2>2, <2>3 DEF Summed
  <2> QED
    BY <1>1, <1>7, <2>4
<1>9. ASSUME NEW k \in 0..(n - 1), k \in T
      PROVE  k + 1 \in T
  <2>1. k \in Nat /\ k + 1 \in 1..n /\ k + 1 \in 0..n /\ (k + 1) - 1 = k
    BY <1>1
  <2>2. q[k + 1] = k /\ g[k + 1] = ColumnStep(c, g[k], k)
    BY <1>3, <1>7, <2>1
  <2>3. Summed(ColumnStep(c, g[k], k), a, b, sign, k + 1)
    BY <1>9, <2>1, ColumnSummed DEF c
  <2> QED
    BY <2>1, <2>2, <2>3
<1>10. Summed(g[n], a, b, sign, n)
  <2>1. 0 \in Int /\ n \in Int /\ n \in 0..n
    BY <1>1
  <2>2. \A k \in 0..n : k \in T
    <3> HIDE DEF T
    <3> QED
      BY <1>8, <1>9, <2>1, Adding!Induction
  <2> QED
    BY <2>1, <2>2
<1> DEFINE s == Columns(a, b, sign)
<1>11. /\ s.cache \in Seq(Digit) /\ Len(s.cache) = n /\ s.carry \in {0, sign}
       /\ Part(a)[n] + sign * Part(b)[n] = Part(s.cache)[n] + s.carry * Weight[n]
  BY <1>7, <1>10 DEF Summed
<1> HIDE DEF s
<1>12. Value(a) = Part(a)[n] /\ Value(b) = Part(b)[n] /\ Value(s.cache) = Part(s.cache)[n]
  BY <1>1, <1>11, ValueIsAnyPart, ValueIsPart
<1> QED
  BY <1>11, <1>12 DEF n, s

\* operator+ adds, and its result is canonical (nu_unsigned_big_int.cpp, operator+).
THEOREM AddAdds ==
  ASSUME NEW a \in Seq(Digit), NEW b \in Seq(Digit)
  PROVE  Normal(Add(a, b)) /\ Value(Add(a, b)) = Value(a) + Value(b)
<1> DEFINE s == Columns(a, b, 1)
           c == s.cache
           n == Longer(a, b)
           e == IF s.carry > 0 THEN Append(c, 1) ELSE c
<1>1. /\ c \in Seq(Digit) /\ Len(c) = n /\ s.carry \in {0, 1}
      /\ Value(a) + 1 * Value(b) = Value(c) + s.carry * Weight[n]
  BY ColumnsSum
<1>2. Value(a) \in Nat /\ Value(b) \in Nat /\ Value(c) \in Nat
  BY <1>1, ValueNat
<1>3. n \in Nat /\ Weight[n] \in Int
  <2>1. n \in Nat
    BY LenOf DEF Longer
  <2> QED
    BY <2>1, WeightType
<1>4. Add(a, b) = Minimum(e)
  BY DEF Add
<1> HIDE DEF s, n
<1>5. e \in Seq(Digit) /\ Value(e) = Value(a) + Value(b)
  <2>1. CASE s.carry = 1
    <3>1. 1 \in Digit
      BY Powers DEF Digit
    <3>2. e = Append(c, 1)
      BY <2>1
    <3> HIDE DEF c, e
    <3>3. e \in Seq(Digit) /\ Value(e) = Value(c) + 1 * Weight[n]
      BY <1>1, <3>1, <3>2, PartAppend
    <3> QED
      BY <1>1, <1>2, <1>3, <2>1, <3>3
  <2>2. CASE s.carry = 0
    <3>1. e = c
      BY <2>2
    <3> HIDE DEF c, e
    <3> QED
      BY <1>1, <1>2, <1>3, <2>2, <3>1
  <2> QED
    BY <1>1, <2>1, <2>2
<1> HIDE DEF e
<1> QED
  BY <1>4, <1>5, MinimumNormal

\* operator- subtracts what is not larger (nu_unsigned_big_int.cpp, operator-).
THEOREM SubtractSubtracts ==
  ASSUME NEW a \in Seq(Digit), NEW b \in Seq(Digit), Value(b) <= Value(a)
  PROVE  Normal(Subtract(a, b)) /\ Value(Subtract(a, b)) = Value(a) - Value(b)
<1> DEFINE s == Columns(a, b, -1)
           c == s.cache
           n == Longer(a, b)
           w == Weight[n]
           x == Value(a)
           y == Value(b)
           v == Value(c)
<1>1. /\ c \in Seq(Digit) /\ Len(c) = n /\ s.carry \in {0, -1}
      /\ x + (-1) * y = v + s.carry * w
  BY ColumnsSum
<1>2. x \in Nat /\ y \in Nat /\ v \in 0..(w - 1)
  BY <1>1, ValueNat
<1>3. w \in Nat
  <2>1. n \in Nat
    BY LenOf DEF Longer
  <2> QED
    BY <2>1, WeightType
<1>4. Subtract(a, b) = Minimum(c)
  BY DEF Subtract
<1>5. y <= x
  OBVIOUS
<1> HIDE DEF s, c, n, w, x, y, v
<1>6. v = x - y
  BY <1>1, <1>2, <1>3, <1>5
<1> QED
  BY <1>1, <1>4, <1>6, MinimumNormal DEF x, y, v
-----------------------------------------------------------------------------
(* Shifting. *)

\* The octet that operator<<= writes at position i.
Here(amount, m, i) ==
  LET whole == amount \div OctetBits
      sub   == amount % OctetBits
  IN IF i < whole THEN 0
     ELSE ((At(m, i - whole) * 2^sub) % Base)
            + (At(m, i - whole - 1) \div 2^(OctetBits - sub))
ShiftStep(amount, m, i) == [m EXCEPT ![i + 1] = Here(amount, m, i)]
Shifting == INSTANCE Folding WITH Op <- ShiftStep

\* A bit position is an octet's and one in the octet.
LEMMA BitPosition ==
  ASSUME NEW p \in Nat
  PROVE  /\ p \div OctetBits \in Nat
         /\ p % OctetBits \in 0..(OctetBits - 1) /\ p % OctetBits \in 0..OctetBits
         /\ p % OctetBits \in Nat
         /\ p = (OctetBits * (p \div OctetBits)) + (p % OctetBits)
<1>1. /\ p \div OctetBits \in Nat /\ p % OctetBits \in 0..(OctetBits - 1)
      /\ p = (OctetBits * (p \div OctetBits)) + (p % OctetBits)
  BY OctetBitsAssumption, NatDivision
<1> DEFINE s == p % OctetBits
<1> HIDE DEF s
<1>2. s \in 0..(OctetBits - 1) => s \in 0..OctetBits /\ s \in Nat
  BY OctetBitsAssumption
<1> QED
  BY <1>1, <1>2 DEF s

\* The two halves of an octet moved up by less than an octet.
LEMMA ShiftedOctet ==
  ASSUME NEW t \in Nat \ {0}, NEW u \in Nat \ {0}, t * u = Base,
         NEW x \in Nat, x < Base, NEW y \in Nat, y < Base
  PROVE  /\ (x * t) % Base \in Nat /\ y \div u \in Nat /\ x \div u \in Nat
         /\ (x * t) % Base = x * t - Base * (x \div u)
         /\ ((x * t) % Base) + (y \div u) < Base
<1> DEFINE q == x \div u
           r == x % u
           h == y \div u
           l == y % u
<1>1. /\ q \in Nat /\ r \in 0..(u - 1) /\ x = (u * q) + r
      /\ h \in Nat /\ l \in 0..(u - 1) /\ y = (u * h) + l
  BY NatDivision
<1> HIDE DEF q, r, h, l
<1>2. Base \in Nat \ {0}
  BY Powers
<1>3. x * t = (Base * q) + t * r /\ t * r \in Nat
  <2>1. x * t = (t * u) * q + t * r
    BY <1>1
  <2> QED
    BY <1>1, <2>1
<1>4. t * r + t <= Base
  <2>1. r + 1 <= u /\ r + 1 \in Int /\ u \in Int /\ t \in Nat
    BY <1>1
  <2>2. (r + 1) * t <= u * t
    BY <2>1, Monotonic
  <2>3. (r + 1) * t = t * r + t /\ u * t = t * u
    BY <1>1
  <2> QED
    BY <2>2, <2>3
<1>5. h < t
  <2>1. CASE h >= t
    <3>1. t * u <= h * u /\ h * u = u * h
      BY <1>1, <2>1, Monotonic
    <3>2. u * h \in Int
      BY <1>1
    <3> QED
      BY <1>1, <1>2, <3>1, <3>2
  <2> QED
    BY <1>1, <2>1
<1> DEFINE z == t * r
           xt == x * t
<1>6. z \in Nat /\ z + t <= Base /\ xt = (Base * q) + z /\ xt \in Int
  BY <1>3, <1>4
<1> HIDE DEF z, xt
<1>7. z \in 0..(Base - 1)
  BY <1>2, <1>6
<1>8. xt % Base = z
  BY <1>1, <1>2, <1>6, <1>7, DivisionUnique
<1>9. Base * q \in Int
  BY <1>1, <1>2
<1>10. z = xt - Base * q
  BY <1>6, <1>9
<1>11. z + h < Base
  BY <1>1, <1>2, <1>5, <1>6
<1> QED
  BY <1>1, <1>6, <1>8, <1>10, <1>11 DEF xt, q, h

LEMMA HereDigit ==
  ASSUME NEW m \in Seq(Digit), NEW amount \in Nat, NEW i \in Nat
  PROVE  Here(amount, m, i) \in Digit
<1> DEFINE whole == amount \div OctetBits
           sub == amount % OctetBits
           t == 2^sub
           u == 2^(OctetBits - sub)
           x == At(m, i - whole)
           y == At(m, i - whole - 1)
<1>1. whole \in Nat /\ t \in Nat \ {0} /\ u \in Nat \ {0} /\ t * u = Base
  BY BitPosition, Powers
<1>2. i - whole \in Int /\ i - whole - 1 \in Int
  BY <1>1
<1>3. x \in 0..(Base - 1) /\ y \in 0..(Base - 1)
  BY <1>2, AtDigit
<1>4. Here(amount, m, i) = IF i < whole THEN 0 ELSE ((x * t) % Base) + (y \div u)
  BY DEF Here
<1> HIDE DEF whole, sub, t, u, x, y
<1>5. x \in Nat /\ x < Base /\ y \in Nat /\ y < Base
  BY <1>3, Powers
<1> DEFINE h == (x * t) % Base
           l == y \div u
<1>6. h \in Nat /\ l \in Nat /\ h + l < Base
  BY <1>1, <1>5, ShiftedOctet
<1> HIDE DEF h, l
<1>7. h + l \in Digit /\ 0 \in Digit
  BY <1>6, Powers DEF Digit
<1> QED
  BY <1>4, <1>7 DEF h, l

\* An octet written leaves the others.
Put(d, j, x) == [d EXCEPT ![j + 1] = x]

LEMMA AtPut ==
  ASSUME NEW d \in Seq(Digit), NEW n \in Nat, Len(d) = n, NEW j \in 0..(n - 1),
         NEW x \in Digit
  PROVE  /\ Put(d, j, x) \in Seq(Digit) /\ Len(Put(d, j, x)) = n
         /\ \A i \in Int : At(Put(d, j, x), i) = IF i = j THEN x ELSE At(d, i)
<1> DEFINE e == Put(d, j, x)
<1>1. DOMAIN d = 1..n /\ j + 1 \in 1..n
  BY LenOf
<1>2. e \in Seq(Digit) /\ Len(e) = n
  BY <1>1 DEF Put
<1>3. \A k \in 1..n : e[k] = IF k = j + 1 THEN x ELSE d[k]
  BY <1>1 DEF Put
<1> HIDE DEF e
<1>4. ASSUME NEW i \in Int
      PROVE  At(e, i) = IF i = j THEN x ELSE At(d, i)
  <2>1. CASE i \in 0..(n - 1)
    <3>1. i + 1 \in 1..n /\ (i = j <=> i + 1 = j + 1)
      BY <1>1, <2>1
    <3> QED
      BY <1>2, <1>3, <2>1, <3>1 DEF At
  <2>2. CASE i \notin 0..(n - 1)
    BY <1>2, <2>2 DEF At
  <2> QED
    BY <2>1, <2>2
<1> QED
  BY <1>2, <1>4 DEF e

\* The loop reads every octet before it overwrites it: going down, it reads only
\* what it has still to write.
LEMMA ShiftedOctets ==
  ASSUME NEW wide \in Seq(Digit), NEW amount \in Nat
  PROVE  \E e \in Seq(Digit) :
           /\ Len(e) = Len(wide)
           /\ Shifted(wide, amount, Descending(Len(wide))) = Minimum(e)
           /\ \A i \in 0..(Len(wide) - 1) : At(e, i) = Here(amount, wide, i)
<1> DEFINE n == Len(wide)
           q == Descending(n)
           S == {d \in Seq(Digit) : Len(d) = n}
           whole == amount \div OctetBits
<1>1. n \in Nat /\ whole \in Nat
  BY LenOf, BitPosition
<1>2. Shifted(wide, amount, q) = Minimum(Shifting!Folded(amount, wide, q))
  BY DEF Shifted, ShiftStep, Here, Shifting!Folded, Shifting!FoldLeft, FoldLeft,
         Shifting!MapThenFoldSet, MapThenFoldSet, Shifting!Max, Max
<1>3. wide \in S
  OBVIOUS
<1> HIDE DEF n
<1>4. DOMAIN q = 1..n /\ \A k \in 1..n : q[k] = n - k
  BY DEF Descending
<1> HIDE DEF q, whole
<1>5. \A d \in S, k \in 1..n : ShiftStep(amount, d, q[k]) \in S
  <2> SUFFICES ASSUME NEW d \in S, NEW k \in 1..n PROVE ShiftStep(amount, d, q[k]) \in S
    OBVIOUS
  <2> DEFINE j == n - k
  <2>1. q[k] = j /\ j \in Nat /\ j \in 0..(n - 1) /\ d \in Seq(Digit) /\ Len(d) = n
    BY <1>1, <1>4
  <2> HIDE DEF j
  <2>2. Here(amount, d, j) \in Digit
    BY <2>1, HereDigit
  <2>3. ShiftStep(amount, d, q[k]) = Put(d, j, Here(amount, d, j))
    BY <2>1 DEF ShiftStep, Put
  <2> DEFINE x == Here(amount, d, j)
  <2>4. x \in Digit /\ j \in 0..(n - 1)
    BY <2>1, <2>2
  <2> HIDE DEF x, S
  <2>5. Put(d, j, x) \in Seq(Digit) /\ Len(Put(d, j, x)) = n
    BY <1>1, <2>1, <2>4, AtPut
  <2> QED
    BY <2>3, <2>5 DEF x, S
<1> HIDE DEF S
<1>6. PICK g : Shifting!FoldSteps(g, amount, n, S, wide, q)
  BY <1>1, <1>3, <1>4, <1>5, Shifting!Fold
<1>7. /\ \A k \in 0..n : g[k] \in Seq(Digit) /\ Len(g[k]) = n
      /\ g[0] = wide /\ g[n] = Shifting!Folded(amount, wide, q)
      /\ \A k \in 1..n : g[k] = ShiftStep(amount, g[k - 1], q[k])
  BY <1>6 DEF Shifting!FoldSteps, S
<1> DEFINE Written(d, k) ==
             \A i \in Int : At(d, i) = IF i \in (n - k)..(n - 1) THEN Here(amount, wide, i)
                                       ELSE At(wide, i)
           T == {k \in 0..n : Written(g[k], k)}
<1>8. 0 \in T
  <2>1. \A i \in Int : i \notin (n - 0)..(n - 1)
    BY <1>1
  <2> QED
    BY <1>1, <1>7, <2>1
<1>9. ASSUME NEW k \in 0..(n - 1), k \in T
      PROVE  k + 1 \in T
  <2> DEFINE j == n - (k + 1)
             d == g[k]
  <2>1. /\ k + 1 \in 1..n /\ k + 1 \in 0..n /\ (k + 1) - 1 = k /\ k \in 0..n
        /\ j \in Nat /\ j \in 0..(n - 1) /\ j = n - (k + 1) /\ j < n - k
    BY <1>1
  <2>2. d \in Seq(Digit) /\ Len(d) = n /\ Written(d, k)
    BY <1>7, <1>9, <2>1
  <2>3. g[k + 1] = ShiftStep(amount, d, j)
    BY <1>4, <1>7, <2>1
  <2> HIDE DEF j, d
  <2>4. Here(amount, d, j) = Here(amount, wide, j)
    <3>1. \A i \in Int : i <= j => At(d, i) = At(wide, i)
      BY <1>1, <2>1, <2>2
    <3>2. j - whole \in Int /\ j - whole <= j /\ j - whole - 1 \in Int /\ j - whole - 1 <= j
      BY <1>1, <2>1
    <3>3. At(d, j - whole) = At(wide, j - whole) /\ At(d, j - whole - 1) = At(wide, j - whole - 1)
      BY <3>1, <3>2
    <3> QED
      BY <3>3 DEF Here, whole
  <2>5. Here(amount, d, j) \in Digit
    BY <2>1, <2>2, HereDigit
  <2>6. \A i \in Int : At(g[k + 1], i) = IF i = j THEN Here(amount, wide, j) ELSE At(d, i)
    <3> DEFINE x == Here(amount, wide, j)
    <3>1. x \in Digit /\ g[k + 1] = Put(d, j, x)
      BY <2>1, <2>2, <2>3, <2>4, <2>5 DEF ShiftStep, Put
    <3> HIDE DEF x
    <3>2. \A i \in Int : At(Put(d, j, x), i) = IF i = j THEN x ELSE At(d, i)
      BY <1>1, <2>1, <2>2, <3>1, AtPut
    <3>3. \A i \in Int : At(g[k + 1], i) = IF i = j THEN x ELSE At(d, i)
      BY <3>1, <3>2
    <3> QED
      BY <3>3 DEF x
  <2>7. \A i \in Int : i \in (n - (k + 1))..(n - 1) <=> i = j \/ i \in (n - k)..(n - 1)
    BY <1>1, <2>1
  <2>8. Written(g[k + 1], k + 1)
    BY <2>2, <2>6, <2>7
  <2> QED
    BY <2>1, <2>8
<1>10. Written(g[n], n)
  <2>1. 0 \in Int /\ n \in Int /\ n \in 0..n
    BY <1>1
  <2>2. \A k \in 0..n : k \in T
    <3> HIDE DEF T
    <3> QED
      BY <1>8, <1>9, <2>1, Shifting!Induction
  <2> QED
    BY <2>1, <2>2
<1>11. \A i \in 0..(n - 1) : At(g[n], i) = Here(amount, wide, i)
  <2>1. n - n = 0
    BY <1>1
  <2> QED
    BY <1>10, <2>1
<1>12. g[n] \in Seq(Digit) /\ Len(g[n]) = n
  <2>1. n \in 0..n
    BY <1>1
  <2> QED
    BY <1>7, <2>1
<1> QED
  BY <1>2, <1>7, <1>11, <1>12 DEF n, q

\* Zeros in front change no octet.
LEMMA WidenedAt ==
  ASSUME NEW d \in Seq(Digit), NEW z \in Nat
  PROVE  /\ d \o Zeros(z) \in Seq(Digit) /\ Len(d \o Zeros(z)) = Len(d) + z
         /\ \A i \in Int : At(d \o Zeros(z), i) = At(d, i)
<1> DEFINE o == Zeros(z)
           e == d \o o
           n == Len(d)
<1>1. o \in Seq(Digit) /\ Len(o) = z /\ \A k \in 1..z : o[k] = 0
  <2>1. 0 \in Digit
    BY Powers DEF Digit
  <2> QED
    BY <2>1 DEF Zeros
<1> HIDE DEF o
<1>2. n \in Nat /\ e \in Seq(Digit) /\ Len(e) = n + z
  BY <1>1
<1>3. /\ \A k \in 1..n : e[k] = d[k]
      /\ \A k \in (n + 1)..(n + z) : e[k] = 0
  <2>1. \A k \in 1..n : e[k] = d[k]
    BY <1>1
  <2>2. ASSUME NEW k \in (n + 1)..(n + z) PROVE e[k] = 0
    <3>1. k - n \in 1..z /\ k \in 1..(n + z) /\ ~(k <= n)
      BY <1>2
    <3>2. e[k] = o[k - n]
      BY <1>1, <1>2, <3>1
    <3> QED
      BY <1>1, <3>1, <3>2
  <2> QED
    BY <2>1, <2>2
<1> HIDE DEF e
<1>4. ASSUME NEW i \in Int PROVE At(e, i) = At(d, i)
  <2>1. CASE i \in 0..(n - 1)
    <3>1. i \in 0..(n + z - 1) /\ i + 1 \in 1..n
      BY <1>2, <2>1
    <3> QED
      BY <1>2, <1>3, <2>1, <3>1 DEF At
  <2>2. CASE i \in n..(n + z - 1)
    <3>1. i \in 0..(n + z - 1) /\ i \notin 0..(n - 1) /\ i + 1 \in (n + 1)..(n + z)
      BY <1>2, <2>2
    <3> QED
      BY <1>2, <1>3, <2>2, <3>1 DEF At
  <2>3. CASE i \notin 0..(n + z - 1)
    <3>1. i \notin 0..(n - 1)
      BY <1>2, <2>3
    <3> QED
      BY <1>2, <2>3, <3>1 DEF At
  <2> QED
    BY <1>2, <2>1, <2>2, <2>3
<1> QED
  BY <1>2, <1>4 DEF e, n, o

\* The weight of the bit at position p.
BitWeight(p) == 2^(p % OctetBits) * Weight[p \div OctetBits]

LEMMA BitWeightType ==
  ASSUME NEW p \in Nat
  PROVE  BitWeight(p) \in Nat \ {0} /\ BitWeight(p) \in Nat /\ BitWeight(p) \in Int
<1> DEFINE t == 2^(p % OctetBits)
           w == Weight[p \div OctetBits]
<1>1. t \in Nat \ {0} /\ w \in Nat \ {0}
  BY BitPosition, Powers, WeightType
<1>2. BitWeight(p) = t * w
  BY DEF BitWeight
<1> HIDE DEF t, w
<1>3. t * w \in Nat /\ t * w # 0
  BY <1>1
<1> QED
  BY <1>2, <1>3

LEMMA WeightSum ==
  ASSUME NEW m \in Nat, NEW n \in Nat
  PROVE  Weight[m + n] = Weight[m] * Weight[n]
<1> DEFINE T == {k \in 0..n : Weight[m + k] = Weight[m] * Weight[k]}
<1>1. 0 \in T
  <2>1. m + 0 = m /\ Weight[0] = 1 /\ Weight[m] \in Int /\ 0 \in 0..n
    BY WeightType, Weights
  <2> QED
    BY <2>1
<1>2. ASSUME NEW k \in 0..(n - 1), k \in T
      PROVE  k + 1 \in T
  <2>1. k \in Nat /\ m + k \in Nat /\ m + (k + 1) = (m + k) + 1 /\ k + 1 \in 0..n
    OBVIOUS
  <2>2. Weight[(m + k) + 1] = Weight[m + k] * Base /\ Weight[k + 1] = Weight[k] * Base
    BY <2>1, WeightStep
  <2> DEFINE a == Weight[m]
             b == Weight[k]
  <2>3. a \in Int /\ b \in Int /\ Base \in Int /\ Weight[m + k] = a * b
    BY <1>2, <2>1, WeightType, Powers
  <2> HIDE DEF a, b
  <2>4. (a * b) * Base = a * (b * Base)
    BY <2>3
  <2> QED
    BY <2>1, <2>2, <2>3, <2>4 DEF a, b
<1>3. n \in T
  <2>1. 0 \in Int /\ n \in Int /\ n \in 0..n
    OBVIOUS
  <2> HIDE DEF T
  <2> QED
    BY <1>1, <1>2, <2>1, Horner!Induction
<1> QED
  BY <1>3

\* operator<<= multiplies by the power of two, and its result is canonical
\* (nu_unsigned_big_int.cpp, operator<<=).
THEOREM ShiftMultiplies ==
  ASSUME NEW d \in Seq(Digit), NEW p \in Nat
  PROVE  Normal(ShiftLeft(d, p)) /\ Value(ShiftLeft(d, p)) = Value(d) * BitWeight(p)
<1> DEFINE whole == p \div OctetBits
           sub == p % OctetBits
           t == 2^sub
           u == 2^(OctetBits - sub)
           more == IF sub > 0 THEN 1 ELSE 0
           wide == Widened(d, p)
           n == Len(wide)
           L == Len(d)
           V == Weight[whole]
<1>1. /\ whole \in Nat /\ sub \in 0..(OctetBits - 1) /\ more \in Nat /\ L \in Nat
      /\ t \in Nat \ {0} /\ u \in Nat \ {0} /\ t * u = Base /\ (sub = 0 => u = Base)
  <2>1. /\ whole \in Nat /\ sub \in 0..(OctetBits - 1) /\ sub \in 0..OctetBits /\ L \in Nat
    BY BitPosition, LenOf
  <2>2. t \in Nat \ {0} /\ u \in Nat \ {0} /\ t * u = Base
    BY <2>1, Powers
  <2>3. sub = 0 => u = Base
    <3>1. OctetBits - 0 = OctetBits
      BY OctetBitsAssumption
    <3> QED
      BY <3>1, Powers
  <2> QED
    BY <2>1, <2>2, <2>3
<1>2. /\ wide \in Seq(Digit) /\ n = L + (whole + more)
      /\ \A i \in Int : At(wide, i) = At(d, i)
  <2>1. wide = d \o Zeros(whole + more)
    BY DEF Widened
  <2> HIDE DEF wide, whole, more
  <2>2. whole + more \in Nat
    BY <1>1
  <2> QED
    BY <2>1, <2>2, WidenedAt
<1>3. ShiftLeft(d, p) = Shifted(wide, p, Descending(n))
  BY DEF ShiftLeft
<1>4. \A i \in Int : Here(p, wide, i)
        = IF i < whole THEN 0
          ELSE ((At(wide, i - whole) * t) % Base) + (At(wide, i - whole - 1) \div u)
  BY DEF Here
<1> HIDE DEF wide, n, whole, t, u
<1>5. PICK e \in Seq(Digit) :
           /\ Len(e) = n
           /\ ShiftLeft(d, p) = Minimum(e)
           /\ \A i \in 0..(n - 1) : At(e, i) = Here(p, wide, i)
  BY <1>2, <1>3, ShiftedOctets, ZenonT(30) DEF n
<1>6. n \in Nat /\ whole <= n
  BY <1>1, <1>2
\* Nothing below the whole octets.
<1>7. Part(e)[whole] = 0
  <2> DEFINE T == {k \in 0..whole : Part(e)[k] = 0}
  <2>1. 0 \in T
    BY <1>1, DigitParts
  <2>2. ASSUME NEW k \in 0..(whole - 1), k \in T PROVE k + 1 \in T
    <3>1. k \in Nat /\ k + 1 \in 0..whole /\ k \in 0..(n - 1) /\ k < whole /\ k \in Int
      BY <1>1, <1>6
    <3>2. At(e, k) = 0
      BY <1>4, <1>5, <3>1
    <3>3. Part(e)[k + 1] = Part(e)[k] + At(e, k) * Weight[k] /\ Weight[k] \in Int
      BY <3>1, DigitParts, WeightType
    <3>4. Part(e)[k + 1] = 0 + 0 * Weight[k]
      BY <2>2, <3>2, <3>3
    <3> QED
      BY <3>1, <3>3, <3>4
  <2>3. 0 \in Int /\ whole \in Int /\ whole \in 0..whole
    BY <1>1
  <2>4. \A k \in 0..whole : k \in T
    <3> HIDE DEF T
    <3> QED
      BY <2>1, <2>2, <2>3, Horner!Induction
  <2> QED
    BY <2>3, <2>4
<1> DEFINE m == L + more
           out(k) == At(d, k - 1) \div u
           T == {k \in 0..m : Part(e)[whole + k] = (t * V) * Part(d)[k] - out(k) * Weight[whole + k]}
<1>8. m \in Nat /\ n = whole + m /\ V \in Int
  <2>1. V \in Int
    BY <1>1, WeightType
  <2> QED
    BY <1>1, <1>2, <2>1
<1>9. \A k \in Nat : At(d, k) \in Nat /\ At(d, k) < Base
  BY AtNat
<1>10. \A k \in Nat : At(d, k - 1) \in Nat /\ At(d, k - 1) < Base
  <2> SUFFICES ASSUME NEW k \in Nat PROVE At(d, k - 1) \in Nat /\ At(d, k - 1) < Base
    OBVIOUS
  <2>1. k - 1 \in Int
    OBVIOUS
  <2>2. At(d, k - 1) \in 0..(Base - 1)
    BY <2>1, AtDigit
  <2> QED
    BY <2>2, Powers
<1> HIDE DEF V, m
<1>11. 0 \in T
  <2>1. At(d, 0 - 1) = 0
    BY DEF At
  <2>2. out(0) = 0
    BY <1>1, <2>1
  <2>3. Part(d)[0] = 0 /\ whole + 0 = whole /\ Weight[whole] \in Int /\ t * V \in Int
    <3>1. whole \in Nat /\ t \in Int
      BY <1>1
    <3>2. t * V \in Int /\ whole + 0 = whole
      BY <1>8, <3>1
    <3> QED
      BY <3>1, <3>2, DigitParts, WeightType
  <2>4. (t * V) * 0 - 0 * Weight[whole] = 0
    BY <2>3
  <2> QED
    BY <1>7, <1>8, <2>2, <2>3, <2>4
<1>12. ASSUME NEW k \in 0..(m - 1), k \in T
       PROVE  k + 1 \in T
  <2> DEFINE i == whole + k
             x == At(d, k)
             y == At(d, k - 1)
             h == (x * t) % Base
             q == x \div u
             l == y \div u
             w == Weight[k]
             b == Part(d)[k]
  <2>1. /\ k \in Nat /\ k + 1 \in 0..m /\ i \in Nat /\ i \in 0..(n - 1) /\ ~(i < whole)
        /\ i - whole = k /\ i - whole - 1 = k - 1 /\ whole + (k + 1) = i + 1
        /\ (k + 1) - 1 = k /\ k - 1 \in Int /\ i \in Int
    BY <1>1, <1>8
  <2>2. At(wide, k) = x /\ At(wide, k - 1) = y
    BY <1>2, <2>1
  <2>3. x \in Nat /\ x < Base /\ y \in Nat /\ y < Base
    BY <1>9, <1>10, <2>1
  <2> HIDE DEF i
  <2>4. At(e, i) = h + l
    <3>1. At(e, i) = Here(p, wide, i)
      BY <1>5, <2>1
    <3> QED
      BY <1>4, <2>1, <2>2, <3>1
  <2>5. Part(e)[i + 1] = Part(e)[i] + At(e, i) * Weight[i]
    BY <2>1, DigitParts
  <2>6. Weight[i] = V * w /\ Weight[i + 1] = Weight[i] * Base
    BY <1>1, <2>1, WeightSum, WeightStep DEF V, i
  <2>7. Part(d)[k + 1] = b + x * w
    BY <2>1, DigitParts
  <2>8. Part(e)[i] = (t * V) * b - l * Weight[i]
    BY <1>12 DEF i
  <2>9. w \in Int /\ b \in Int
    BY <2>1, WeightType, DigitParts
  <2> HIDE DEF x, y, h, q, l, w, b
  <2>10. h \in Int /\ l \in Int /\ q \in Int /\ h = x * t - Base * q
    <3>1. t \in Nat \ {0} /\ u \in Nat \ {0} /\ t * u = Base
      BY <1>1
    <3>2. /\ (x * t) % Base \in Nat /\ y \div u \in Nat /\ x \div u \in Nat
          /\ (x * t) % Base = x * t - Base * (x \div u)
      BY <2>3, <3>1, ShiftedOctet
    <3> QED
      BY <3>2 DEF h, l, q
  <2>11. Part(e)[i + 1] = ((t * V) * b - l * (V * w)) + (h + l) * (V * w)
    BY <2>4, <2>5, <2>6, <2>8
  <2>12. ((t * V) * b - l * (V * w)) + (h + l) * (V * w)
           = (t * V) * b + h * (V * w)
    BY <1>1, <1>8, <2>9, <2>10
  <2>13. h * (V * w) = (t * V) * (x * w) - q * ((V * w) * Base)
    <3>1. (x * t - Base * q) * (V * w) = (t * V) * (x * w) - q * ((V * w) * Base)
      BY <1>1, <1>8, <2>3, <2>9, <2>10, Powers
    <3> QED
      BY <2>10, <3>1
  <2>14. (t * V) * b + ((t * V) * (x * w) - q * ((V * w) * Base))
           = (t * V) * (b + x * w) - q * ((V * w) * Base)
    BY <1>1, <1>8, <2>3, <2>9, <2>10, Powers
  <2>15. Part(e)[i + 1] = (t * V) * Part(d)[k + 1] - q * Weight[i + 1]
    BY <2>6, <2>7, <2>11, <2>12, <2>13, <2>14
  <2>16. out(k + 1) = q
    BY <2>1 DEF q, x
  <2> HIDE DEF out
  <2> QED
    BY <2>1, <2>15, <2>16
<1>13. Part(e)[whole + m] = (t * V) * Part(d)[m] - out(m) * Weight[whole + m]
  <2>1. 0 \in Int /\ m \in Int /\ m \in 0..m
    BY <1>8
  <2>2. \A k \in 0..m : k \in T
    <3> HIDE DEF T
    <3> QED
      BY <1>11, <1>12, <2>1, Horner!Induction
  <2> QED
    BY <2>1, <2>2
\* Nothing is shifted out of the last octet.
<1>14. out(m) = 0
  <2>1. CASE sub > 0
    <3>1. m - 1 = L
      BY <1>1, <2>1 DEF m
    <3>2. At(d, L) = 0
      BY <1>1 DEF At
    <3> QED
      BY <1>1, <3>1, <3>2
  <2>2. CASE sub = 0
    <3> DEFINE y == At(d, m - 1)
    <3>1. y \in Nat /\ y < Base
      BY <1>8, <1>10
    <3> HIDE DEF y
    <3>2. y \div Base = 0
      BY <3>1, Powers
    <3> QED
      BY <1>1, <2>2, <3>2 DEF y
  <2> QED
    BY <1>1, <2>1, <2>2
<1> HIDE DEF out
<1>15. Value(e) = (t * V) * Value(d)
  <2>1. Value(e) = Part(e)[whole + m]
    BY <1>5, <1>8, ValueIsPart
  <2>2. Value(d) = Part(d)[m]
    BY <1>1, <1>8, ValueIsAnyPart DEF m
  <2>3. Weight[whole + m] \in Int /\ (t * V) * Value(d) \in Int
    <3>1. Value(d) \in Int /\ t \in Int
      BY <1>1, ValueNat
    <3> QED
      BY <1>1, <1>8, <3>1, WeightType
  <2>4. (t * V) * Value(d) - 0 * Weight[whole + m] = (t * V) * Value(d)
    BY <2>3
  <2> QED
    BY <1>13, <1>14, <2>1, <2>2, <2>4
<1>16. BitWeight(p) = t * V
  BY DEF BitWeight, t, V, whole
<1>17. (t * V) * Value(d) = Value(d) * (t * V)
  <2>1. Value(d) \in Int /\ t * V \in Int
    BY <1>1, <1>8, ValueNat
  <2> QED
    BY <2>1
<1> QED
  BY <1>5, <1>15, <1>16, <1>17, MinimumNormal

-----------------------------------------------------------------------------
(* Single bits. *)

\* One bit more of a number.
LEMMA OneBitMore ==
  ASSUME NEW a \in Nat, NEW w \in Nat \ {0}
  PROVE  /\ a \div w \in Nat /\ a % w \in 0..(w - 1) /\ (a \div w) % 2 \in {0, 1}
         /\ (a \div w) \div 2 \in Nat
         /\ a = w * (2 * ((a \div w) \div 2)) + w * ((a \div w) % 2) + (a % w)
         /\ a % (2 * w) = (a % w) + w * ((a \div w) % 2)
<1> DEFINE q == a \div w
           r == a % w
           h == q \div 2
           b == q % 2
<1>1. q \in Nat /\ r \in 0..(w - 1) /\ a = (w * q) + r
  BY NatDivision
<1> HIDE DEF q, r
<1>2. h \in Nat /\ b \in 0..1 /\ q = (2 * h) + b
  BY <1>1
<1> HIDE DEF h, b
<1>3. w * ((2 * h) + b) = w * (2 * h) + w * b /\ w * (2 * h) = (2 * w) * h
  BY <1>1, <1>2
<1>4. a = w * (2 * h) + w * b + r
  BY <1>1, <1>2, <1>3
<1>5. w * b + r \in 0..((2 * w) - 1)
  <2>1. CASE b = 0
    <3>1. w * b = 0
      BY <2>1
    <3> QED
      BY <1>1, <3>1
  <2>2. CASE b = 1
    <3>1. w * b = w
      BY <2>2
    <3> QED
      BY <1>1, <3>1
  <2> QED
    BY <1>2, <2>1, <2>2
<1>6. a % (2 * w) = w * b + r
  <2> DEFINE v == 2 * w
             s == w * b + r
  <2>1. v \in Nat \ {0} /\ s \in 0..(v - 1) /\ a = (v * h) + s /\ h \in Int /\ a \in Int
    <3>1. (w * (2 * h) + w * b + r) = w * (2 * h) + (w * b + r)
      BY <1>1, <1>2
    <3> QED
      BY <1>2, <1>3, <1>4, <1>5, <3>1
  <2> HIDE DEF v, s
  <2>2. a % v = s
    BY <2>1, DivisionUnique
  <2> QED
    BY <2>2 DEF v, s
<1>7. w * b + r = r + w * b
  BY <1>1, <1>2
<1>8. b \in {0, 1}
  BY <1>2
<1> QED
  BY <1>1, <1>2, <1>4, <1>6, <1>7, <1>8 DEF q, r, h, b

LEMMA BitWeightDoubles ==
  /\ BitWeight(0) = 1
  /\ \A p \in Nat : BitWeight(p + 1) = 2 * BitWeight(p)
  /\ \A n \in Nat : n * OctetBits \in Nat /\ BitWeight(n * OctetBits) = Weight[n]
<1>1. ASSUME NEW n \in Nat
      PROVE  n * OctetBits \in Nat /\ BitWeight(n * OctetBits) = Weight[n]
  <2> DEFINE p == n * OctetBits
  <2>1. p \in Nat /\ p = (OctetBits * n) + 0 /\ OctetBits \in Nat \ {0} /\ 0 \in 0..(OctetBits - 1)
    BY OctetBitsAssumption
  <2> HIDE DEF p
  <2>2. p \div OctetBits = n /\ p % OctetBits = 0
    BY <2>1, DivisionUnique
  <2>3. BitWeight(p) = 1 * Weight[n] /\ Weight[n] \in Int
    BY <2>2, Powers, WeightType DEF BitWeight
  <2> QED
    BY <2>1, <2>3 DEF p
<1>2. BitWeight(0) = 1
  <2>1. 0 * OctetBits = 0 /\ 0 \in Nat
    BY OctetBitsAssumption
  <2> QED
    BY <1>1, <2>1, Weights
<1>3. ASSUME NEW p \in Nat
      PROVE  BitWeight(p + 1) = 2 * BitWeight(p)
  <2> DEFINE whole == p \div OctetBits
             sub == p % OctetBits
             t == 2^sub
             w == Weight[whole]
  <2>1. whole \in Nat /\ sub \in 0..(OctetBits - 1) /\ p = (OctetBits * whole) + sub
    BY BitPosition
  <2>2. t \in Nat \ {0} /\ 2^(sub + 1) = 2 * t /\ w \in Nat \ {0} /\ OctetBits \in Nat \ {0}
    <3>1. sub \in 0..OctetBits
      BY <2>1, OctetBitsAssumption
    <3> QED
      BY <2>1, <3>1, OctetBitsAssumption, Powers, WeightType
  <2>3. BitWeight(p) = t * w
    BY DEF BitWeight
  <2>4. CASE sub + 1 < OctetBits
    <3> HIDE DEF whole, sub
    <3> DEFINE p1 == p + 1
               s1 == sub + 1
    <3>1. p1 \in Int /\ p1 = (OctetBits * whole) + s1 /\ s1 \in 0..(OctetBits - 1) /\ whole \in Int
      BY <2>1, <2>2, <2>4
    <3> HIDE DEF p1, s1
    <3>2. p1 \div OctetBits = whole /\ p1 % OctetBits = s1
      BY <2>2, <3>1, DivisionUnique
    <3> USE DEF p1, s1
    <3>3. BitWeight(p + 1) = (2 * t) * w
      BY <2>2, <3>2 DEF BitWeight
    <3> HIDE DEF t, w
    <3>4. (2 * t) * w = 2 * (t * w)
      BY <2>2
    <3> QED
      BY <2>3, <3>3, <3>4
  <2>5. CASE sub + 1 = OctetBits
    <3>1. 2 * t = Base
      BY <2>2, <2>5, Powers
    <3> HIDE DEF whole, sub, t
    <3>2. p + 1 = (whole + 1) * OctetBits
      BY <2>1, <2>2, <2>5
    <3>3. BitWeight(p + 1) = Weight[whole + 1]
      BY <1>1, <2>1, <3>2
    <3>4. Weight[whole + 1] = w * Base
      BY <2>1, WeightStep
    <3> HIDE DEF w
    <3>5. w * (2 * t) = 2 * (t * w)
      BY <2>2
    <3> QED
      BY <2>3, <3>1, <3>3, <3>4, <3>5
  <2> QED
    BY <2>1, <2>2, <2>4, <2>5
<1> QED
  BY <1>1, <1>2, <1>3

\* What stands above an octet is a multiple of its weight.
LEMMA HighPart ==
  ASSUME NEW d \in Seq(Digit), NEW k \in Nat
  PROVE  \E r \in Nat : Value(d) = Part(d)[k] + r * Weight[k]
<1> DEFINE n == Len(d)
           T == {m \in k..(k + n) : \E r \in Nat : Part(d)[m] = Part(d)[k] + r * Weight[k]}
<1>1. n \in Nat
  BY LenOf
<1> HIDE DEF n
<1>2. k \in T
  <2> DEFINE p == Part(d)[k]
             w == Weight[k]
  <2>1. p \in Int
    BY DigitParts
  <2>2. w \in Int
    BY WeightType
  <2> HIDE DEF p, w
  <2>3. p = p + 0 * w /\ k \in k..(k + n) /\ 0 \in Nat
    BY <1>1, <2>1, <2>2
  <2> QED
    BY <2>3 DEF p, w
<1>3. ASSUME NEW m \in k..(k + n - 1), m \in T
      PROVE  m + 1 \in T
  <2> DEFINE j == m - k
             x == At(d, m)
             w == Weight[k]
             v == Weight[j]
             p == Part(d)[k]
  <2>1. m \in Nat /\ j \in Nat /\ m = k + j /\ m + 1 \in k..(k + n)
    BY <1>1
  <2>2. PICK r \in Nat : Part(d)[m] = p + r * w
    BY <1>3
  <2>3. Part(d)[m + 1] = Part(d)[m] + x * Weight[m]
    BY <2>1, DigitParts
  <2> HIDE DEF j
  <2>4. Weight[m] = w * v /\ w \in Nat /\ v \in Nat
    BY <2>1, WeightSum, WeightType
  <2>5. x \in Nat /\ p \in Int
    BY <2>1, AtNat, DigitParts
  <2> HIDE DEF x, w, v, p
  <2>6. (p + r * w) + x * (w * v) = p + (r + x * v) * w /\ r + x * v \in Nat
    <3>1. x * v \in Nat
      BY <2>4, <2>5
    <3> DEFINE y == x * v
    <3>2. x * (w * v) = y * w
      BY <2>4, <2>5
    <3> HIDE DEF y
    <3>3. (p + r * w) + y * w = p + (r + y) * w /\ r + y \in Nat
      BY <2>4, <2>5, <3>1 DEF y
    <3> QED
      BY <3>2, <3>3 DEF y
  <2>7. \E s \in Nat : Part(d)[m + 1] = p + s * w
    BY <2>2, <2>3, <2>4, <2>6
  <2> QED
    BY <2>1, <2>7 DEF p, w
<1>4. k + n \in T
  <2>1. k \in Int /\ k + n \in Int /\ k + n \in k..(k + n)
    BY <1>1
  <2>2. \A m \in k..(k + n) : m \in T
    <3> HIDE DEF T
    <3>1. \A m \in k..((k + n) - 1) : m \in T => m + 1 \in T
      BY <1>1, <1>3
    <3> QED
      BY <1>2, <2>1, <3>1, Horner!Induction
  <2> QED
    BY <2>1, <2>2
<1>5. Value(d) = Part(d)[k + n]
  BY <1>1, ValueIsAnyPart DEF n
<1> QED
  BY <1>4, <1>5

\* A bit of the octets is the bit of the number (is_bit_set).
LEMMA BitValue ==
  ASSUME NEW d \in Seq(Digit), NEW p \in Nat
  PROVE  IsBitSet(d, p) <=> (Value(d) \div BitWeight(p)) % 2 = 1
<1> DEFINE whole == p \div OctetBits
           sub == p % OctetBits
           t == 2^sub
           u == 2^(OctetBits - (sub + 1))
           w == Weight[whole]
           x == At(d, whole)
           low == Part(d)[whole]
           h == (x \div t) \div 2
           b == (x \div t) % 2
           c == x % t
           v == Value(d)
<1>1. whole \in Nat /\ sub \in 0..(OctetBits - 1)
  BY BitPosition
<1>2. t \in Nat \ {0} /\ u \in Nat \ {0} /\ Base = (2 * t) * u
  <2>1. sub \in 0..OctetBits /\ sub + 1 \in 0..OctetBits
    BY <1>1, OctetBitsAssumption
  <2> HIDE DEF sub
  <2>2. t \in Nat \ {0} /\ 2^(sub + 1) = 2 * t
    BY <1>1, <2>1, Powers
  <2>3. 2^(sub + 1) * u = Base /\ u \in Nat \ {0}
    BY <2>1, Powers
  <2> QED
    BY <2>2, <2>3
<1>3. IsBitSet(d, p) <=> b = 1
  BY DEF IsBitSet
<1>4. BitWeight(p) = t * w
  BY DEF BitWeight
<1> HIDE DEF whole, sub, t, u
<1>5. w \in Nat \ {0} /\ x \in Nat /\ low \in 0..(w - 1)
  BY <1>1, WeightType, AtNat, PartBounds
<1>6. PICK r \in Nat : v = (low + x * w) + r * (w * Base)
  <2>1. PICK r \in Nat : v = Part(d)[whole + 1] + r * Weight[whole + 1]
    <3>1. whole + 1 \in Nat
      BY <1>1
    <3> QED
      BY <3>1, HighPart
  <2>2. Part(d)[whole + 1] = low + x * w
    BY <1>1, DigitParts
  <2>3. Weight[whole + 1] = w * Base
    BY <1>1, WeightStep
  <2> QED
    BY <2>1, <2>2, <2>3
<1> HIDE DEF w, x, low, v
<1>7. /\ h \in Nat /\ b \in {0, 1} /\ c \in 0..(t - 1)
      /\ x = t * (2 * h) + t * b + c
  BY <1>2, <1>5, OneBitMore
<1> HIDE DEF h, b, c
<1> DEFINE e == t * w
           q == h + r * u
           k == 2 * q + b
           l == low + c * w
<1>8. q \in Nat /\ k \in Int /\ e \in Nat \ {0}
  <2>1. r * u \in Nat
    BY <1>2, <1>6
  <2>2. t * w \in Nat /\ t * w # 0
    BY <1>2, <1>5
  <2> QED
    BY <1>7, <2>1, <2>2
<1>9. l \in 0..(e - 1)
  <2>1. c * w <= (t - 1) * w
    BY <1>2, <1>5, <1>7, Monotonic
  <2>2. (t - 1) * w = t * w - 1 * w /\ c * w \in Nat /\ t * w \in Nat
    BY <1>2, <1>5, <1>7, Distributes
  <2> DEFINE f == c * w
             g == t * w
  <2>3. f <= g - w /\ f \in Nat /\ g \in Nat
    BY <1>5, <2>1, <2>2
  <2> HIDE DEF f, g
  <2>4. low + f \in 0..(g - 1)
    BY <1>5, <2>3
  <2> QED
    BY <2>4 DEF f, g
<1>10. v = (e * k) + l
  <2> DEFINE a == t * w
  <2>1. a \in Int
    BY <1>2, <1>5
  <2>2. x * w = a * (2 * h) + a * b + c * w
    <3>1. (t * (2 * h) + t * b + c) * w = a * (2 * h) + a * b + c * w
      BY <1>2, <1>5, <1>7
    <3> QED
      BY <1>7, <3>1
  <2>3. r * (w * Base) = a * (2 * (r * u))
    <3>1. r * (w * ((2 * t) * u)) = (t * w) * (2 * (r * u))
      BY <1>2, <1>5, <1>6
    <3> QED
      BY <1>2, <3>1
  <2> DEFINE ru == r * u
  <2>4. ru \in Int /\ c * w \in Int
    BY <1>2, <1>5, <1>6, <1>7
  <2> DEFINE cw == c * w
  <2> HIDE DEF a, ru, cw
  <2>5. (low + (a * (2 * h) + a * b + cw)) + a * (2 * ru) = (a * (2 * (h + ru) + b)) + (low + cw)
    BY <1>5, <1>7, <2>1, <2>4 DEF cw
  <2> QED
    BY <1>6, <2>2, <2>3, <2>5 DEF a, ru, cw
<1> HIDE DEF e, l
<1>11. v \in Int
  BY ValueNat DEF v
<1>12. v \div e = k
  <2> HIDE DEF k
  <2> QED
    BY <1>8, <1>9, <1>10, <1>11, DivisionUnique
<1>13. k % 2 = b
  <2> HIDE DEF q
  <2> QED
    BY <1>7, <1>8
<1> QED
  BY <1>3, <1>4, <1>12, <1>13 DEF e, v

\* One octet written changes the number by the octet's weight.
LEMMA PutValue ==
  ASSUME NEW d \in Seq(Digit), NEW n \in Nat, Len(d) = n, NEW j \in 0..(n - 1),
         NEW x \in Digit
  PROVE  Value(Put(d, j, x)) = Value(d) + (x - At(d, j)) * Weight[j]
<1> DEFINE e == Put(d, j, x)
           o == At(d, j)
           w == Weight[j]
<1>1. /\ e \in Seq(Digit) /\ Len(e) = n
      /\ \A i \in Int : At(e, i) = IF i = j THEN x ELSE At(d, i)
  BY AtPut
<1> HIDE DEF e
<1>2. j \in Nat /\ j \in Int /\ j + 1 \in Nat /\ j + 1 <= n
  OBVIOUS
<1>3. Part(e)[j] = Part(d)[j]
  <2>1. \A i \in 0..(j - 1) : At(e, i) = At(d, i)
    BY <1>1, <1>2
  <2> QED
    BY <1>1, <1>2, <2>1, SameBelow
<1>4. Part(e)[n] - Part(e)[j + 1] = Part(d)[n] - Part(d)[j + 1]
  <2>1. \A i \in (j + 1)..(n - 1) : At(e, i) = At(d, i)
    <3>1. \A i \in (j + 1)..(n - 1) : i \in Int /\ i # j
      BY <1>2
    <3> QED
      BY <1>1, <3>1
  <2> DEFINE k == j + 1
  <2>2. k \in Nat /\ k <= n
    BY <1>2
  <2> HIDE DEF k
  <2>3. \A i \in k..(n - 1) : At(e, i) = At(d, i)
    BY <2>1 DEF k
  <2>4. Part(e)[n] - Part(e)[k] = Part(d)[n] - Part(d)[k]
    BY <1>1, <2>2, <2>3, SameAbove
  <2> QED
    BY <2>4 DEF k
<1>5. Part(e)[j + 1] = Part(e)[j] + x * w /\ Part(d)[j + 1] = Part(d)[j] + o * w
  <2>1. At(e, j) = x
    BY <1>1, <1>2
  <2> QED
    BY <1>1, <1>2, <2>1, DigitParts
<1>6. Value(e) = Part(e)[n] /\ Value(d) = Part(d)[n]
  BY <1>1, ValueIsPart
<1>7. w \in Int /\ o \in Int /\ x \in Int
  <2>1. x \in Int
    BY Powers DEF Digit
  <2>2. o \in Int /\ w \in Int
    BY <1>2, WeightType, AtNat
  <2> QED
    BY <2>1, <2>2
<1> DEFINE a == Part(e)[n]
           b == Part(e)[j]
           c == Part(d)[n]
           f == Part(e)[j + 1]
           g == Part(d)[j + 1]
<1>8. a \in Int /\ b \in Int /\ c \in Int /\ f \in Int /\ g \in Int
  BY <1>1, <1>2, DigitParts
<1>9. a - f = c - g /\ f = b + x * w /\ g = b + o * w
  BY <1>3, <1>4, <1>5
<1> HIDE DEF a, b, c, f, g, w, o
<1>10. (x - o) * w = x * w - o * w /\ x * w \in Int /\ o * w \in Int
  BY <1>7
<1>11. a = c + (x - o) * w
  <2> DEFINE y == x * w
             z == o * w
  <2>1. y \in Int /\ z \in Int /\ (x - o) * w = y - z /\ f = b + y /\ g = b + z
    BY <1>9, <1>10
  <2> HIDE DEF y, z
  <2>2. a = c + (y - z)
    BY <1>8, <1>9, <2>1
  <2> QED
    BY <2>1, <2>2
<1> QED
  BY <1>6, <1>11 DEF a, c, w, o, e

\* set_bit() changes the bit and nothing else, and its result is canonical.
THEOREM SetBitSets ==
  ASSUME NEW d \in Seq(Digit), NEW p \in Nat, NEW value \in BOOLEAN
  PROVE  /\ Normal(SetBit(d, p, value))
         /\ Value(SetBit(d, p, value))
              = Value(d) + (IF value /\ ~IsBitSet(d, p) THEN BitWeight(p) ELSE 0)
                         - (IF ~value /\ IsBitSet(d, p) THEN BitWeight(p) ELSE 0)
<1> DEFINE whole == p \div OctetBits
           sub == p % OctetBits
           t == 2^sub
           u == 2^(OctetBits - (sub + 1))
           wide == d \o Zeros(whole + 1 - Len(d))
           n == Len(wide)
           w == Weight[whole]
           old == wide[whole + 1]
           set == IsBitSet(d, p)
           new == CASE value /\ ~set -> old + t
                    [] ~value /\ set -> old - t
                    [] OTHER         -> old
<1>1. whole \in Nat /\ sub \in 0..(OctetBits - 1) /\ Len(d) \in Nat
  BY BitPosition, LenOf
<1>2. t \in Nat \ {0} /\ u \in Nat \ {0} /\ Base = (2 * t) * u
  <2>1. sub \in 0..OctetBits /\ sub + 1 \in 0..OctetBits
    BY <1>1, OctetBitsAssumption
  <2> HIDE DEF sub
  <2>2. t \in Nat \ {0} /\ 2^(sub + 1) = 2 * t
    BY <1>1, <2>1, Powers
  <2>3. 2^(sub + 1) * u = Base /\ u \in Nat \ {0}
    BY <2>1, Powers
  <2> QED
    BY <2>2, <2>3
<1>3. SetBit(d, p, value) = Minimum(Put(wide, whole, new))
  BY DEF SetBit, Put
<1>4. set <=> (At(d, whole) \div t) % 2 = 1
  BY DEF IsBitSet
<1>5. BitWeight(p) = t * w
  BY DEF BitWeight
<1> HIDE DEF whole, sub, t, u
<1>6. /\ wide \in Seq(Digit) /\ n \in Nat /\ whole \in 0..(n - 1)
      /\ \A i \in Int : At(wide, i) = At(d, i)
  <2>1. CASE whole + 1 - Len(d) \in Nat
    <3> DEFINE z == whole + 1 - Len(d)
               e == d \o Zeros(z)
    <3>1. z \in Nat /\ Len(d) + z = whole + 1
      BY <1>1, <2>1
    <3> HIDE DEF z
    <3>2. e \in Seq(Digit) /\ Len(e) = Len(d) + z /\ \A i \in Int : At(e, i) = At(d, i)
      BY <3>1, WidenedAt
    <3>3. wide = e
      BY DEF z
    <3> HIDE DEF e, wide
    <3> QED
      BY <1>1, <3>1, <3>2, <3>3
  <2>2. CASE whole + 1 - Len(d) \notin Nat
    <3> DEFINE z == whole + 1 - Len(d)
    <3>1. z < 0 /\ z \in Int /\ whole \in 0..(Len(d) - 1)
      BY <1>1, <2>2
    <3>2. 1..z = 1..0
      BY <3>1
    <3>3. Zeros(z) = Zeros(0)
      BY <3>2 DEF Zeros
    <3> DEFINE e == d \o Zeros(0)
    <3>4. e \in Seq(Digit) /\ Len(e) = Len(d) + 0 /\ \A i \in Int : At(e, i) = At(d, i)
      BY WidenedAt
    <3>5. wide = e
      BY <3>3
    <3> HIDE DEF e, wide, z
    <3> QED
      BY <1>1, <3>1, <3>4, <3>5
  <2> QED
    BY <2>1, <2>2
<1>7. old = At(wide, whole) /\ old = At(d, whole)
  <2>1. whole \in Int
    BY <1>1
  <2> QED
    BY <1>6, <2>1 DEF At
<1> HIDE DEF wide, n, old, set
<1>8. old \in Nat /\ old < Base /\ w \in Nat \ {0}
  BY <1>1, <1>7, AtNat, WeightType
<1> DEFINE h == (old \div t) \div 2
           b == (old \div t) % 2
           c == old % t
<1>9. /\ h \in Nat /\ b \in {0, 1} /\ c \in 0..(t - 1)
      /\ old = t * (2 * h) + t * b + c
  BY <1>2, <1>8, OneBitMore
<1>10. set <=> b = 1
  BY <1>4, <1>7
<1> HIDE DEF h, b, c, w
\* The octet has the room for the bit.
<1>11. ~set => old + t < Base
  <2>1. SUFFICES ASSUME ~set PROVE old + t < Base
    OBVIOUS
  <2>2. b = 0 /\ t * b = 0
    BY <1>2, <1>9, <1>10, <2>1
  <2> DEFINE v == 2 * t
  <2>3. t * (2 * h) = v * h /\ v \in Nat \ {0} /\ v = t + t
    BY <1>2, <1>9
  <2>4. old = v * h + c
    BY <1>2, <1>9, <2>2, <2>3
  <2> HIDE DEF v
  <2>5. h < u
    <3>1. SUFFICES ASSUME u <= h PROVE FALSE
      BY <1>2, <1>9
    <3>2. u * v <= h * v
      BY <1>2, <1>9, <2>3, <3>1, Monotonic
    <3>3. v * u = u * v /\ v * h = h * v /\ v * h \in Nat /\ v * u \in Nat
      BY <1>2, <1>9, <2>3
    <3>4. v * u <= v * h /\ Base = v * u
      BY <1>2, <3>2, <3>3 DEF v
    <3> QED
      BY <1>2, <1>8, <1>9, <2>4, <3>3, <3>4
  <2>6. (h + 1) * v <= u * v
    <3>1. h + 1 <= u /\ h + 1 \in Int /\ u \in Int /\ v \in Nat
      BY <1>2, <1>9, <2>3, <2>5
    <3> DEFINE k == h + 1
    <3> HIDE DEF k
    <3>2. k * v <= u * v
      BY <3>1, Monotonic DEF k
    <3> QED
      BY <3>2 DEF k
  <2>7. (h + 1) * v = v * h + v /\ u * v = v * u /\ Base = v * u /\ v * h \in Nat
    BY <1>2, <1>9, <2>3 DEF v
  <2> DEFINE y == v * h
  <2>8. y + v <= Base /\ y \in Nat /\ old = y + c /\ Base \in Nat
    BY <2>4, <2>6, <2>7, Powers
  <2> HIDE DEF y
  <2> QED
    BY <1>2, <1>9, <2>3, <2>8
<1>12. set => old - t >= 0
  <2>1. SUFFICES ASSUME set PROVE old - t >= 0
    OBVIOUS
  <2>2. t * b = t
    BY <1>2, <1>10, <2>1
  <2>3. t * (2 * h) \in Nat
    BY <1>2, <1>9
  <2> DEFINE y == t * (2 * h)
  <2>4. y \in Nat /\ old = y + t + c
    BY <1>9, <2>2, <2>3
  <2> HIDE DEF y
  <2> QED
    BY <1>2, <1>9, <2>4
<1>13. new \in Digit /\ new - old = (IF value /\ ~set THEN t ELSE 0) - (IF ~value /\ set THEN t ELSE 0)
  <2>1. set \in BOOLEAN /\ Base \in Nat
    BY Powers DEF set, IsBitSet
  <2>2. \A y \in Nat : y < Base => y \in Digit
    BY <2>1 DEF Digit
  <2>3. CASE value /\ ~set
    <3>1. new = old + t
      BY <2>3
    <3>2. old + t \in Nat /\ old + t < Base /\ (old + t) - old = t - 0
      BY <1>2, <1>8, <1>11, <2>3
    <3> QED
      BY <2>2, <2>3, <3>1, <3>2
  <2>4. CASE ~value /\ set
    <3>1. new = old - t
      BY <2>4
    <3>2. old - t \in Nat /\ old - t < Base /\ (old - t) - old = 0 - t
      BY <1>2, <1>8, <1>12, <2>1, <2>4
    <3> QED
      BY <2>2, <2>4, <3>1, <3>2
  <2>5. CASE ~(value /\ ~set) /\ ~(~value /\ set)
    <3>1. new = old
      BY <2>5
    <3>2. old - old = 0 - 0
      BY <1>8
    <3> QED
      BY <1>8, <2>2, <2>5, <3>1, <3>2
  <2> QED
    BY <2>3, <2>4, <2>5
<1> HIDE DEF new
<1> DEFINE e == Put(wide, whole, new)
<1>14. e \in Seq(Digit) /\ Value(e) = Value(wide) + (new - old) * w
  <2>1. Len(wide) = n
    BY DEF n
  <2>2. e \in Seq(Digit)
    BY <1>6, <1>13, <2>1, AtPut
  <2>3. Value(e) = Value(wide) + (new - At(wide, whole)) * Weight[whole]
    BY <1>6, <1>13, <2>1, PutValue
  <2> QED
    BY <1>7, <2>2, <2>3 DEF w
<1> HIDE DEF e
<1>15. Value(wide) = Value(d)
  <2>1. \A i \in Nat : At(wide, i) = At(d, i)
    BY <1>6
  <2> QED
    BY <1>6, <2>1, SameValue
<1>16. Normal(SetBit(d, p, value)) /\ Value(SetBit(d, p, value)) = Value(d) + (new - old) * w
  BY <1>3, <1>14, <1>15, MinimumNormal DEF e
<1>17. (new - old) * w = (IF value /\ ~set THEN t * w ELSE 0) - (IF ~value /\ set THEN t * w ELSE 0)
  <2>1. (t - 0) * w = t * w - 0 /\ (0 - t) * w = 0 - t * w /\ (0 - 0) * w = 0 - 0
    BY <1>2, <1>8
  <2> QED
    BY <1>13, <2>1
<1>18. Value(d) \in Int /\ t * w \in Int
  BY <1>2, <1>8, ValueNat
<1> DEFINE v == Value(d)
           s == t * w
           r == SetBit(d, p, value)
<1>19. /\ Value(r) = v + ((IF value /\ ~set THEN s ELSE 0) - (IF ~value /\ set THEN s ELSE 0))
       /\ v \in Int /\ s \in Int
  BY <1>16, <1>17, <1>18
<1> HIDE DEF v, s, r
<1>20. Value(r) = v + (IF value /\ ~set THEN s ELSE 0) - (IF ~value /\ set THEN s ELSE 0)
  BY <1>19
<1> QED
  BY <1>5, <1>16, <1>20 DEF v, s, r, set

-----------------------------------------------------------------------------
(* Products and quotients: one bit after the other. *)

AddendStep(c, ret, p) ==
  IF IsBitSet(c[1], p) THEN Add(ret, ShiftLeft(c[2], p)) ELSE ret
Multiplying == INSTANCE Folding WITH Op <- AddendStep

LEMMA LenBits ==
  ASSUME NEW a \in Seq(Digit)
  PROVE  /\ Len(a) * OctetBits \in Nat
         /\ Value(a) \in Nat /\ Value(a) < BitWeight(Len(a) * OctetBits)
<1>1. Len(a) \in Nat
  BY LenOf
<1>2. Len(a) * OctetBits \in Nat /\ BitWeight(Len(a) * OctetBits) = Weight[Len(a)]
  BY <1>1, BitWeightDoubles
<1>3. Value(a) \in 0..(Weight[Len(a)] - 1) /\ Weight[Len(a)] \in Nat
  BY <1>1, ValueNat, WeightType
<1> QED
  BY <1>2, <1>3

\* operator* multiplies, and its result is canonical.
THEOREM MultiplyMultiplies ==
  ASSUME NEW a \in Seq(Digit), NEW b \in Seq(Digit)
  PROVE  Normal(Multiply(a, b)) /\ Value(Multiply(a, b)) = Value(a) * Value(b)
<1> DEFINE n == Len(a) * OctetBits
           q == Ascending(n)
           c == <<a, b>>
           S == {d \in Seq(Digit) : Normal(d)}
           A == Value(a)
           B == Value(b)
<1>1. Multiply(a, b) = Multiplying!Folded(c, Zero, q)
  BY DEF Multiply, AddendStep, Multiplying!Folded, Multiplying!FoldLeft, FoldLeft,
         Multiplying!MapThenFoldSet, MapThenFoldSet, Multiplying!Max, Max
<1>2. n \in Nat /\ A \in Nat /\ A < BitWeight(n) /\ B \in Nat
  BY LenBits, ValueNat
<1> HIDE DEF n
<1>3. DOMAIN q = 1..n /\ \A k \in 1..n : q[k] = k - 1
  BY DEF Ascending
<1>4. Zero \in S
  BY ZeroNormal
<1>5. \A d \in S, k \in 1..n : AddendStep(c, d, q[k]) \in S
  <2> SUFFICES ASSUME NEW d \in S, NEW k \in 1..n PROVE AddendStep(c, d, q[k]) \in S
    OBVIOUS
  <2> DEFINE p == k - 1
             s == ShiftLeft(b, p)
  <2>1. p \in Nat /\ q[k] = p
    BY <1>2, <1>3
  <2> HIDE DEF p
  <2>2. s \in Seq(Digit)
    BY <2>1, ShiftMultiplies DEF Normal
  <2>3. d \in Seq(Digit) /\ Normal(d)
    OBVIOUS
  <2>4. Normal(Add(d, s))
    BY <2>2, <2>3, AddAdds
  <2>5. AddendStep(c, d, p) = IF IsBitSet(a, p) THEN Add(d, s) ELSE d
    BY DEF AddendStep
  <2> QED
    BY <2>1, <2>3, <2>4, <2>5 DEF Normal
<1> HIDE DEF q, S
<1>6. PICK g : Multiplying!FoldSteps(g, c, n, S, Zero, q)
  BY <1>2, <1>3, <1>4, <1>5, Multiplying!Fold
<1>7. /\ \A k \in 0..n : g[k] \in Seq(Digit) /\ Normal(g[k])
      /\ g[0] = Zero /\ g[n] = Multiplying!Folded(c, Zero, q)
      /\ \A k \in 1..n : g[k] = AddendStep(c, g[k - 1], q[k])
  BY <1>6 DEF Multiplying!FoldSteps, S
<1> HIDE DEF A, B
\* The bits seen so far, times b.
<1> DEFINE T == {k \in 0..n : Value(g[k]) = (A % BitWeight(k)) * B}
<1>8. 0 \in T
  <2>1. A % 1 = 0
    BY <1>2
  <2>2. Value(g[0]) = 0 /\ BitWeight(0) = 1 /\ 0 * B = 0 /\ 0 \in 0..n
    BY <1>2, <1>7, ZeroNormal, BitWeightDoubles
  <2> QED
    BY <2>1, <2>2
<1>9. ASSUME NEW k \in 0..(n - 1), k \in T
      PROVE  k + 1 \in T
  <2> DEFINE w == BitWeight(k)
             r == A % w
             e == (A \div w) % 2
             d == g[k]
             s == ShiftLeft(b, k)
  <2>1. k \in Nat /\ k \in 0..n /\ k + 1 \in 1..n /\ k + 1 \in 0..n /\ (k + 1) - 1 = k
    BY <1>2
  <2>2. g[k + 1] = AddendStep(c, d, k) /\ d \in Seq(Digit)
    BY <1>3, <1>7, <2>1
  <2>3. w \in Nat \ {0} /\ BitWeight(k + 1) = 2 * w
    BY <2>1, BitWeightType, BitWeightDoubles
  <2>4. Value(d) = r * B
    BY <1>9
  <2>5. IsBitSet(a, k) <=> e = 1
    BY <2>1, BitValue DEF A
  <2>6. g[k + 1] = IF IsBitSet(a, k) THEN Add(d, s) ELSE d
    BY <2>2 DEF AddendStep
  <2>7. s \in Seq(Digit) /\ Value(s) = B * w
    BY <2>1, ShiftMultiplies DEF Normal, B
  <2>8. Value(Add(d, s)) = Value(d) + Value(s)
    BY <2>2, <2>7, AddAdds
  <2> HIDE DEF w, d, s
  <2>9. r \in Nat /\ e \in {0, 1} /\ A % (2 * w) = r + w * e
    <3>1. /\ A % w \in 0..(w - 1) /\ (A \div w) % 2 \in {0, 1}
          /\ A % (2 * w) = (A % w) + w * ((A \div w) % 2)
      BY <1>2, <2>3, OneBitMore
    <3> HIDE DEF r, e
    <3>2. /\ r \in 0..(w - 1) /\ e \in {0, 1} /\ A % (2 * w) = r + w * e
      BY <3>1 DEF r, e
    <3> QED
      BY <2>3, <3>2
  <2> HIDE DEF r, e
  <2>10. Value(g[k + 1]) = (r + w * e) * B
    <3>1. CASE e = 1
      <4>1. (r + w * 1) * B = r * B + B * w
        BY <1>2, <2>3, <2>9
      <4> QED
        BY <2>4, <2>5, <2>6, <2>7, <2>8, <3>1, <4>1
    <3>2. CASE e = 0
      <4>1. (r + w * 0) * B = r * B
        BY <1>2, <2>3, <2>9
      <4> QED
        BY <2>4, <2>5, <2>6, <3>2, <4>1
    <3> QED
      BY <2>9, <3>1, <3>2
  <2> QED
    BY <2>1, <2>3, <2>9, <2>10
<1>10. Value(g[n]) = (A % BitWeight(n)) * B
  <2>1. 0 \in Int /\ n \in Int /\ n \in 0..n
    BY <1>2
  <2>2. \A k \in 0..n : k \in T
    <3> HIDE DEF T
    <3> QED
      BY <1>8, <1>9, <2>1, Multiplying!Induction
  <2> QED
    BY <2>1, <2>2
<1>11. A % BitWeight(n) = A
  <2> DEFINE w == BitWeight(n)
  <2>1. w \in Nat \ {0} /\ A < w
    BY <1>2, BitWeightType
  <2> HIDE DEF w
  <2>3. A \in 0..(w - 1) /\ A = (w * 0) + A /\ A \in Int
    BY <1>2, <2>1
  <2>2. A % w = A
    BY <2>1, <2>3, DivisionUnique
  <2> QED
    BY <2>2 DEF w
<1>12. n \in 0..n
  BY <1>2
<1> QED
  BY <1>1, <1>7, <1>10, <1>11, <1>12 DEF A, B, q, c

DivStep(divisor, s, p) ==
  LET shifted == ShiftLeft(divisor, p) IN
    IF Less(s.mod, shifted) THEN s
    ELSE [div |-> SetBit(s.div, p, TRUE), mod |-> Subtract(s.mod, shifted)]
Dividing == INSTANCE Folding WITH Op <- DivStep

\* Before the divisor is tried at the shift p - 1.
Divided(s, A, D, p) ==
  /\ Normal(s.div) /\ Normal(s.mod)
  /\ A = Value(s.div) * D + Value(s.mod)
  /\ \E k \in Nat : Value(s.div) = BitWeight(p) * k
  /\ D # 0 => Value(s.mod) < D * BitWeight(p)

LEMMA DividedStep ==
  ASSUME NEW d \in Seq(Digit), NEW A \in Nat, NEW p \in Nat,
         NEW s, Divided(s, A, Value(d), p + 1)
  PROVE  Divided(DivStep(d, s, p), A, Value(d), p)
<1> DEFINE D == Value(d)
           w == BitWeight(p)
           h == ShiftLeft(d, p)
           v == Value(s.div)
           m == Value(s.mod)
<1>1. D \in Nat /\ w \in Nat \ {0} /\ BitWeight(p + 1) = 2 * w
  BY ValueNat, BitWeightType, BitWeightDoubles
<1>2. Normal(h) /\ h \in Seq(Digit) /\ Value(h) = D * w
  BY ShiftMultiplies DEF Normal
<1>3. /\ Normal(s.div) /\ Normal(s.mod) /\ A = v * D + m
      /\ s.div \in Seq(Digit) /\ s.mod \in Seq(Digit)
      /\ \E k \in Nat : v = (2 * w) * k
      /\ D # 0 => m < D * (2 * w)
  BY <1>1 DEF Divided, Normal
<1>4. v \in Nat /\ m \in Nat
  BY <1>3, ValueNat
<1>5. Less(s.mod, h) <=> m < D * w
  BY <1>2, <1>3, LessCompares
<1>6. IsBitSet(s.div, p) <=> (v \div w) % 2 = 1
  BY <1>3, BitValue
<1>7. DivStep(d, s, p) = IF Less(s.mod, h) THEN s
                         ELSE [div |-> SetBit(s.div, p, TRUE), mod |-> Subtract(s.mod, h)]
  BY DEF DivStep
<1> HIDE DEF h, v, m, D, w
<1>8. PICK k \in Nat : v = (2 * w) * k
  BY <1>3
<1>9. CASE m < D * w
  <2>1. DivStep(d, s, p) = s
    BY <1>5, <1>7, <1>9
  <2>2. v = w * (2 * k) /\ 2 * k \in Nat
    BY <1>1, <1>8
  <2>3. \E l \in Nat : v = w * l
    BY <2>2
  <2> QED
    BY <1>3, <1>9, <2>1, <2>3 DEF Divided, v, m, w, D
<1>10. CASE ~(m < D * w)
  <2> DEFINE e == SetBit(s.div, p, TRUE)
             f == Subtract(s.mod, h)
             r == DivStep(d, s, p)
  <2>1. r.div = e /\ r.mod = f
    <3>1. r = [div |-> e, mod |-> f]
      BY <1>5, <1>7, <1>10
    <3> HIDE DEF e, f, r
    <3> QED
      BY <3>1
  <2>2. ~IsBitSet(s.div, p)
    <3> DEFINE l == 2 * k
    <3>1. v = (w * l) + 0 /\ l \in Int /\ l % 2 = 0 /\ 0 \in 0..(w - 1)
      BY <1>1, <1>8
    <3> HIDE DEF l
    <3>2. v \div w = l
      BY <1>1, <1>4, <3>1, DivisionUnique
    <3> QED
      BY <1>6, <3>1, <3>2
  <2>3. Normal(e) /\ Value(e) = v + w
    <3>1. /\ Normal(e)
          /\ Value(e) = Value(s.div) + (IF TRUE /\ ~IsBitSet(s.div, p) THEN BitWeight(p) ELSE 0)
                          - (IF ~TRUE /\ IsBitSet(s.div, p) THEN BitWeight(p) ELSE 0)
      BY <1>3, SetBitSets
    <3> HIDE DEF e
    <3>2. Value(e) = v + w - 0
      BY <2>2, <3>1 DEF v, w
    <3> QED
      BY <1>1, <1>4, <3>1, <3>2
  <2>4. Normal(f) /\ Value(f) = m - D * w
    <3>1. D * w \in Int
      BY <1>1
    <3>2. Value(h) <= Value(s.mod)
      BY <1>2, <1>4, <1>10, <3>1 DEF m
    <3>3. Normal(f) /\ Value(f) = Value(s.mod) - Value(h)
      BY <1>2, <1>3, <3>2, SubtractSubtracts
    <3> QED
      BY <1>2, <3>3 DEF m
  <2> HIDE DEF e, f, r
  <2>5. v + w = w * (2 * k + 1) /\ 2 * k + 1 \in Nat
    BY <1>1, <1>8
  <2>6. \E l \in Nat : Value(r.div) = w * l
    BY <2>1, <2>3, <2>5
  <2>7. A = (v + w) * D + (m - D * w)
    <3>1. (v + w) * D = v * D + D * w /\ v * D \in Int /\ D * w \in Int
      BY <1>1, <1>4
    <3> DEFINE x == v * D
               y == D * w
    <3>2. (v + w) * D = x + y /\ x \in Int /\ y \in Int /\ A = x + m
      BY <1>3, <3>1
    <3> HIDE DEF x, y
    <3>3. A = (x + y) + (m - y)
      BY <1>4, <3>2
    <3> QED
      BY <3>2, <3>3 DEF y
  <2>8. D # 0 => m - D * w < D * w
    <3>1. D * (2 * w) = D * w + D * w /\ D * w \in Int
      BY <1>1
    <3> DEFINE y == D * w
    <3>2. D # 0 => m < y + y
      BY <1>3, <3>1
    <3>3. y \in Int
      BY <3>1
    <3> HIDE DEF y
    <3>4. D # 0 => m - y < y
      BY <1>4, <3>2, <3>3
    <3> QED
      BY <3>4 DEF y
  <2>9. /\ Normal(r.div) /\ Normal(r.mod)
        /\ A = Value(r.div) * D + Value(r.mod)
        /\ D # 0 => Value(r.mod) < D * w
    BY <2>1, <2>3, <2>4, <2>7, <2>8
  <2>10. Divided(r, A, D, p)
    BY <2>6, <2>9 DEF Divided, w
  <2> QED
    BY <2>10 DEF r, D
<1> QED
  BY <1>9, <1>10

\* What divmod() is after: canonical, and for every divisor but zero the quotient
\* and the remainder.  With a divisor of zero the remainder is the dividend.
THEOREM DivModDivides ==
  ASSUME NEW a, Normal(a), NEW d \in Seq(Digit)
  PROVE  /\ Normal(Div(a, d)) /\ Normal(Mod(a, d))
         /\ IF Value(d) = 0 THEN Value(Mod(a, d)) = Value(a)
            ELSE /\ Value(Div(a, d)) = Value(a) \div Value(d)
                 /\ Value(Mod(a, d)) = Value(a) % Value(d)
<1> DEFINE n == Len(a) * OctetBits
           q == Descending(n)
           A == Value(a)
           D == Value(d)
           R == [div : Seq(Digit), mod : Seq(Digit)]
           S == {s \in R : Normal(s.div) /\ Normal(s.mod)}
           b == [div |-> Zero, mod |-> a]
<1>1. DivMod(a, d) = Dividing!Folded(d, b, q)
  BY DEF DivMod, DivStep, Dividing!Folded, Dividing!FoldLeft, FoldLeft,
         Dividing!MapThenFoldSet, MapThenFoldSet, Dividing!Max, Max
<1>2. /\ a \in Seq(Digit) /\ n \in Nat /\ A \in Nat /\ A < BitWeight(n) /\ D \in Nat
  <2>1. a \in Seq(Digit)
    BY DEF Normal
  <2> QED
    BY <2>1, LenBits, ValueNat
<1> HIDE DEF n
<1>3. DOMAIN q = 1..n /\ \A k \in 1..n : q[k] = n - k
  BY DEF Descending
<1>4. \A x \in Seq(Digit), y \in Seq(Digit) :
        Normal(x) /\ Normal(y) => [div |-> x, mod |-> y] \in S
  OBVIOUS
<1>5. \A s \in S : /\ s.div \in Seq(Digit) /\ s.mod \in Seq(Digit)
                   /\ Normal(s.div) /\ Normal(s.mod)
  OBVIOUS
<1>6. b \in S /\ b.div = Zero /\ b.mod = a
  <2>1. b \in S
    BY <1>2, <1>4, ZeroNormal
  <2> QED
    BY <2>1
<1> HIDE DEF q, S, b
<1>7. \A s \in S, k \in 1..n : DivStep(d, s, q[k]) \in S
  <2> SUFFICES ASSUME NEW s \in S, NEW k \in 1..n PROVE DivStep(d, s, q[k]) \in S
    OBVIOUS
  <2> DEFINE p == n - k
             h == ShiftLeft(d, p)
             e == SetBit(s.div, p, TRUE)
             f == Subtract(s.mod, h)
  <2>1. p \in Nat /\ q[k] = p
    BY <1>2, <1>3
  <2> HIDE DEF p
  <2>2. h \in Seq(Digit) /\ Normal(h)
    BY <2>1, ShiftMultiplies DEF Normal
  <2>3. Normal(e) /\ e \in Seq(Digit)
    BY <1>5, <2>1, SetBitSets DEF Normal
  <2>4. ~Less(s.mod, h) => Normal(f) /\ f \in Seq(Digit)
    <3>1. SUFFICES ASSUME ~Less(s.mod, h) PROVE Normal(f) /\ f \in Seq(Digit)
      OBVIOUS
    <3> DEFINE m == s.mod
    <3>2. Normal(m) /\ m \in Seq(Digit) /\ ~Less(m, h)
      BY <1>5, <3>1
    <3> HIDE DEF m, h
    <3>3. Value(h) <= Value(m)
      <4>1. Value(h) \in Nat /\ Value(m) \in Nat
        BY <2>2, <3>2, ValueNat
      <4>2. ~(Value(m) < Value(h))
        BY <2>2, <3>2, LessCompares
      <4> QED
        BY <4>1, <4>2
    <3>4. Normal(Subtract(m, h))
      BY <2>2, <3>2, <3>3, SubtractSubtracts
    <3> QED
      BY <3>4 DEF Normal, m
  <2>5. DivStep(d, s, p) = IF Less(s.mod, h) THEN s ELSE [div |-> e, mod |-> f]
    BY DEF DivStep
  <2> HIDE DEF e, f, h
  <2> QED
    BY <1>4, <2>1, <2>3, <2>4, <2>5
<1>8. PICK g : Dividing!FoldSteps(g, d, n, S, b, q)
  BY <1>2, <1>3, <1>6, <1>7, Dividing!Fold
<1>9. /\ g[0] = b /\ g[n] = Dividing!Folded(d, b, q)
      /\ \A k \in 1..n : g[k] = DivStep(d, g[k - 1], q[k])
  BY <1>8 DEF Dividing!FoldSteps
<1> DEFINE T == {k \in 0..n : Divided(g[k], A, D, n - k)}
<1>10. 0 \in T
  <2>1. Normal(b.div) /\ Normal(b.mod) /\ Value(b.div) = 0 /\ Value(b.mod) = A
    BY <1>6, ZeroNormal
  <2> HIDE DEF A, D
  <2> DEFINE w == BitWeight(n)
  <2>2. w \in Nat /\ A < w
    BY <1>2, BitWeightType
  <2>3. A = 0 * D + A /\ 0 = w * 0 /\ (D # 0 => A < D * w)
    <3>1. D # 0 => 1 * w <= D * w
      <4>1. D # 0 => 1 <= D
        BY <1>2
      <4> HIDE DEF w
      <4> QED
        BY <1>2, <2>2, <4>1, Monotonic
    <3> HIDE DEF w
    <3>2. 1 * w = w /\ D * w \in Int
      BY <1>2, <2>2
    <3> DEFINE y == D * w
    <3>3. D # 0 => A < y
      <4>1. y \in Int /\ (D # 0 => w <= y)
        BY <3>1, <3>2
      <4> HIDE DEF y
      <4> QED
        BY <1>2, <2>2, <4>1
    <3> QED
      BY <1>2, <2>2, <3>3
  <2>4. \E k \in Nat : 0 = w * k
    <3>1. 0 \in Nat
      OBVIOUS
    <3> HIDE DEF w
    <3> QED
      BY <2>3, <3>1
  <2>5. Divided(b, A, D, n)
    BY <2>1, <2>3, <2>4 DEF Divided
  <2>6. n - 0 = n /\ 0 \in 0..n
    BY <1>2
  <2> QED
    BY <1>9, <2>5, <2>6
<1>11. ASSUME NEW k \in 0..(n - 1), k \in T
       PROVE  k + 1 \in T
  <2> DEFINE p == n - (k + 1)
  <2>1. p \in Nat /\ p + 1 = n - k /\ k + 1 \in 1..n /\ k + 1 \in 0..n /\ (k + 1) - 1 = k
    BY <1>2
  <2>2. g[k + 1] = DivStep(d, g[k], p)
    BY <1>3, <1>9, <2>1
  <2>3. Divided(g[k], A, D, p + 1)
    BY <1>11, <2>1
  <2> HIDE DEF p
  <2>4. Divided(DivStep(d, g[k], p), A, D, p)
    BY <1>2, <2>1, <2>3, DividedStep
  <2> QED
    BY <2>1, <2>2, <2>4 DEF p
<1>12. Divided(g[n], A, D, 0)
  <2>1. 0 \in Int /\ n \in Int /\ n \in 0..n /\ n - n = 0
    BY <1>2
  <2>2. \A k \in 0..n : k \in T
    <3> HIDE DEF T
    <3> QED
      BY <1>10, <1>11, <2>1, Dividing!Induction
  <2> QED
    BY <2>1, <2>2
<1> DEFINE x == Div(a, d)
           y == Mod(a, d)
           v == Value(x)
           m == Value(y)
<1>13. /\ Normal(x) /\ Normal(y) /\ A = v * D + m
       /\ D # 0 => m < D * BitWeight(0)
  BY <1>1, <1>9, <1>12 DEF Divided, Div, Mod
<1>14. v \in Nat /\ m \in Nat
  BY <1>13, ValueNat DEF Normal
<1> HIDE DEF A, D, x, y, v, m
<1>15. D # 0 => m < D
  BY <1>2, <1>13, BitWeightDoubles
<1>16. CASE D = 0
  <2>1. v * 0 + m = m
    BY <1>14
  <2> QED
    BY <1>13, <1>16, <2>1 DEF A, D, x, y, v, m
<1>17. CASE D # 0
  <2>1. D \in Nat \ {0} /\ m \in 0..(D - 1) /\ A = (D * v) + m /\ A \in Int /\ v \in Int
    <3>1. v * D = D * v
      BY <1>2, <1>14
    <3> QED
      BY <1>2, <1>13, <1>14, <1>15, <1>17, <3>1
  <2>2. A \div D = v /\ A % D = m
    BY <2>1, DivisionUnique
  <2> QED
    BY <1>13, <1>17, <2>2 DEF A, D, x, y, v, m
<1> QED
  BY <1>16, <1>17

-----------------------------------------------------------------------------
(* Powers, as far as they are assumed. *)

\* The weight of a bit is its power of two.
LEMMA BitWeightIsPower ==
  ASSUME NEW m \in Nat, PowersUpTo(2, m), NEW p \in 0..m
  PROVE  BitWeight(p) = 2^p
<1> DEFINE T == {k \in 0..m : BitWeight(k) = 2^k}
<1>1. 2^0 = 1 /\ \A k \in 0..(m - 1) : 2^(k + 1) = 2 * 2^k
  BY DEF PowersUpTo
<1>2. 0 \in T
  BY <1>1, BitWeightDoubles
<1>3. ASSUME NEW k \in 0..(m - 1), k \in T PROVE k + 1 \in T
  <2>1. k \in Nat /\ k + 1 \in 0..m
    OBVIOUS
  <2>2. BitWeight(k + 1) = 2 * BitWeight(k)
    BY <2>1, BitWeightDoubles
  <2>3. 2^(k + 1) = 2 * 2^k
    BY <1>1
  <2>4. BitWeight(k) = 2^k
    BY <1>3
  <2>5. BitWeight(k + 1) = 2^(k + 1)
    BY <2>2, <2>3, <2>4
  <2> QED
    BY <2>1, <2>5
<1>4. 0 \in Int /\ m \in Int
  OBVIOUS
<1>5. \A k \in 0..m : k \in T
  <2> HIDE DEF T
  <2> QED
    BY <1>2, <1>3, <1>4, Horner!Induction
<1> QED
  BY <1>5

\* The weight of an octet is its power of the base.
LEMMA WeightIsPower ==
  ASSUME NEW m \in Nat, PowersUpTo(Base, m), NEW p \in 0..m
  PROVE  Weight[p] = Base^p
<1> DEFINE T == {k \in 0..m : Weight[k] = Base^k}
<1>1. Base^0 = 1 /\ \A k \in 0..(m - 1) : Base^(k + 1) = Base * Base^k
  BY DEF PowersUpTo
<1>2. 0 \in T
  BY <1>1, Weights
<1>3. ASSUME NEW k \in 0..(m - 1), k \in T PROVE k + 1 \in T
  <2>1. k \in Nat /\ k + 1 \in 0..m
    OBVIOUS
  <2> DEFINE w == Weight[k]
  <2>2. Weight[k + 1] = w * Base /\ w \in Int
    BY <2>1, WeightStep, WeightType
  <2>3. Base^(k + 1) = Base * w
    BY <1>1, <1>3
  <2> HIDE DEF w
  <2>4. w * Base = Base * w
    BY <2>2, Powers
  <2>5. Weight[k + 1] = Base^(k + 1)
    BY <2>2, <2>3, <2>4
  <2> QED
    BY <2>1, <2>5
<1>4. 0 \in Int /\ m \in Int
  OBVIOUS
<1>5. \A k \in 0..m : k \in T
  <2> HIDE DEF T
  <2> QED
    BY <1>2, <1>3, <1>4, Horner!Induction
<1> QED
  BY <1>5

\* One octet more of a number.
LEMMA OneOctetMore ==
  ASSUME NEW a \in Nat, NEW w \in Nat \ {0}
  PROVE  /\ (a \div w) % Base \in Digit
         /\ a % (w * Base) = (a % w) + ((a \div w) % Base) * w
<1> DEFINE q == a \div w
           r == a % w
           h == q \div Base
           b == q % Base
           B == Base
<1>1. q \in Nat /\ r \in 0..(w - 1) /\ a = (w * q) + r
  BY NatDivision
<1> HIDE DEF q, r
<1>2. /\ h \in Int /\ b \in Digit /\ b \in Int /\ q = (B * h) + b /\ 0 <= b /\ b < B
      /\ B \in Nat \ {0}
  <2>1. q \in Int /\ Base \in Nat \ {0}
    BY <1>1, Powers
  <2> QED
    BY <2>1, DivisionByBase
<1> HIDE DEF h, b, B
<1>3. b * w + r \in 0..(w * B - 1)
  <2>1. b * w <= (B - 1) * w /\ b * w \in Nat /\ B * w \in Nat
    BY <1>1, <1>2, Monotonic
  <2>2. (B - 1) * w = B * w - w /\ w * B = B * w
    BY <1>2
  <2> DEFINE x == b * w
             y == B * w
  <2>3. x <= y - w /\ x \in Nat /\ y \in Nat /\ w * B = y
    BY <2>1, <2>2
  <2> HIDE DEF x, y
  <2>4. x + r \in 0..(y - 1)
    BY <1>1, <2>3
  <2> QED
    BY <2>3, <2>4 DEF x
<1> DEFINE v == w * B
           s == b * w + r
<1>4. v \in Nat \ {0} /\ a = (v * h) + s /\ s \in 0..(v - 1)
  <2>1. w * ((B * h) + b) = (w * B) * h + b * w
    BY <1>2
  <2>2. w * B \in Nat /\ w * B # 0 /\ (w * B) * h \in Int /\ b * w \in Int
    BY <1>2
  <2>3. ((w * B) * h + b * w) + r = ((w * B) * h) + (b * w + r)
    BY <1>1, <2>2
  <2> QED
    BY <1>1, <1>2, <1>3, <2>1, <2>2, <2>3
<1> HIDE DEF v, s
<1>5. a % v = s
  BY <1>2, <1>4, DivisionUnique
<1>6. b * w + r = r + b * w
  BY <1>1, <1>2
<1> QED
  BY <1>2, <1>5, <1>6 DEF v, s, B, b, r, q

\* UnsignedBigInt(size_t) keeps every number a size_t can hold, and is canonical.
THEOREM FromNumberKeeps ==
  ASSUME NEW m \in Nat, PowersUpTo(Base, m), NEW n \in Nat, n < Weight[m]
  PROVE  Normal(FromNumber(n, m)) /\ Value(FromNumber(n, m)) = n
<1> DEFINE e == [i \in 1..m |-> (n \div Base^(i - 1)) % Base]
           T == {k \in 0..m : Part(e)[k] = n % Weight[k]}
<1>1. \A i \in 1..m : e[i] = (n \div Weight[i - 1]) % Base
  <2> SUFFICES ASSUME NEW i \in 1..m PROVE e[i] = (n \div Weight[i - 1]) % Base
    OBVIOUS
  <2>1. i - 1 \in 0..m
    OBVIOUS
  <2>2. Weight[i - 1] = Base^(i - 1)
    BY <2>1, WeightIsPower
  <2> QED
    BY <2>2
<1>2. e \in Seq(Digit) /\ Len(e) = m
  <2>1. \A i \in 1..m : e[i] \in Digit
    <3> SUFFICES ASSUME NEW i \in 1..m PROVE e[i] \in Digit
      OBVIOUS
    <3>1. i - 1 \in Nat
      OBVIOUS
    <3>2. Weight[i - 1] \in Nat \ {0}
      BY <3>1, WeightType
    <3> HIDE DEF e
    <3> QED
      BY <1>1, <3>2, OneOctetMore
  <2>2. e = [i \in 1..m |-> e[i]]
    OBVIOUS
  <2> QED
    BY <2>1
<1>3. FromNumber(n, m) = Minimum(e)
  BY DEF FromNumber
<1> HIDE DEF e
<1>4. 0 \in T
  <2>1. n % 1 = 0 /\ 0 \in 0..m
    OBVIOUS
  <2>2. Part(e)[0] = 0
    BY <1>2, DigitParts
  <2>3. Weight[0] = 1
    BY Weights
  <2> QED
    BY <2>1, <2>2, <2>3
<1>5. ASSUME NEW k \in 0..(m - 1), k \in T PROVE k + 1 \in T
  <2> DEFINE w == Weight[k]
  <2>1. k \in Nat /\ k + 1 \in 1..m /\ k + 1 \in 0..m /\ k \in 0..(m - 1) /\ (k + 1) - 1 = k
    OBVIOUS
  <2>2. w \in Nat \ {0} /\ Weight[k + 1] = w * Base
    BY <2>1, WeightType, WeightStep
  <2>3. At(e, k) = (n \div w) % Base
    <3>1. e[k + 1] = (n \div Weight[(k + 1) - 1]) % Base
      BY <1>1, <2>1
    <3> QED
      BY <1>2, <2>1, <3>1 DEF At
  <2>4. Part(e)[k + 1] = Part(e)[k] + At(e, k) * w
    BY <1>2, <2>1, DigitParts
  <2>5. Part(e)[k] = n % w
    BY <1>5
  <2> HIDE DEF w
  <2>6. n % (w * Base) = (n % w) + ((n \div w) % Base) * w
    BY <2>2, OneOctetMore
  <2> QED
    BY <2>1, <2>2, <2>3, <2>4, <2>5, <2>6
<1>6. Part(e)[m] = n % Weight[m]
  <2>1. 0 \in Int /\ m \in Int /\ m \in 0..m
    OBVIOUS
  <2>2. \A k \in 0..m : k \in T
    <3> HIDE DEF T
    <3> QED
      BY <1>4, <1>5, <2>1, Horner!Induction
  <2> QED
    BY <2>1, <2>2
<1>7. n % Weight[m] = n
  <2> DEFINE w == Weight[m]
  <2>1. w \in Nat \ {0} /\ n < w
    BY WeightType
  <2> HIDE DEF w
  <2>2. n \in 0..(w - 1) /\ n = (w * 0) + n
    BY <2>1
  <2>3. n % w = n
    BY <2>1, <2>2, DivisionUnique
  <2> QED
    BY <2>3 DEF w
<1>8. Value(e) = n
  BY <1>2, <1>6, <1>7, ValueIsPart
<1> QED
  BY <1>2, <1>3, <1>8, MinimumNormal
=============================================================================
