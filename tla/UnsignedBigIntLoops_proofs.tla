--------------------- MODULE UnsignedBigIntLoops_proofs ---------------------
(***************************************************************************)
(* expmod() calculates the power, and as_decimal() and the constructor     *)
(* from a text are inverse, for numbers of every size.                     *)
(***************************************************************************)
EXTENDS ExpMod, Decimal, UnsignedBigInt_proofs

NoStep(c, t, k) == t
Naturals == INSTANCE Folding WITH Op <- NoStep

-----------------------------------------------------------------------------
(* The numbers made of a size_t. *)

LEMMA WordValue ==
  ASSUME NEW k \in Nat, k <= 2 \/ k < Base
  PROVE  Normal(FromWord(k)) /\ FromWord(k) \in Seq(Digit) /\ Value(FromWord(k)) = k
<1> DEFINE w == Weight[WordOctets]
<1>1. WordOctets \in 0..WordOctets /\ WordOctets \in Nat /\ 1 <= WordOctets /\ 1 \in Nat
  BY WordAssumption
<1>2. Base^WordOctets = w /\ w \in Nat
  BY <1>1, WordAssumption, WeightIsPower, WeightType
<1>3. Weight[1] = Base
  <2>1. Weight[0 + 1] = Weight[0] * Base /\ 0 + 1 = 1
    BY WeightStep
  <2> QED
    BY <2>1, Weights, Powers
<1>4. Base <= w
  <2>1. Weight[1] <= w
    BY <1>1, WeightGrows
  <2> QED
    BY <1>3, <2>1
<1> HIDE DEF w
<1>5. 2 < w
  BY <1>2, WordAssumption
<1>6. k < w
  BY <1>2, <1>4, <1>5, Powers
<1>7. Normal(FromNumber(k, WordOctets)) /\ Value(FromNumber(k, WordOctets)) = k
  BY <1>1, <1>6, WordAssumption, FromNumberKeeps DEF w
<1> QED
  BY <1>7 DEF FromWord, Normal

LEMMA SmallWords ==
  /\ Normal(One) /\ One \in Seq(Digit) /\ Value(One) = 1
  /\ Normal(Two) /\ Two \in Seq(Digit) /\ Value(Two) = 2
  /\ Normal(Ten) /\ Ten \in Seq(Digit) /\ Value(Ten) = 10
<1>1. 1 \in Nat /\ 2 \in Nat /\ 10 \in Nat /\ 10 < Base
  BY TenAssumption, Powers
<1> QED
  BY <1>1, WordValue DEF One, Two, Ten

-----------------------------------------------------------------------------
(* Powers modulo m. *)

\* A factor may be reduced first.
LEMMA ModuloProduct ==
  ASSUME NEW b \in Nat, NEW c \in Nat, NEW m \in Nat \ {0}
  PROVE  /\ (b * c) % m \in 0..(m - 1) /\ (b * c) % m \in Nat
         /\ (b * c) % m = ((b % m) * c) % m
         /\ (b * c) % m = (b * (c % m)) % m
<1>1. ASSUME NEW p \in Nat, NEW q \in Nat
      PROVE  /\ p * q \in Nat
             /\ (p * q) % m = ((p % m) * q) % m
  <2> DEFINE h == p \div m
             r == p % m
             u == r * q
             v == h * q
  <2>1. h \in Nat /\ r \in 0..(m - 1) /\ p = (m * h) + r
    BY NatDivision
  <2>2. r \in Nat
    BY <2>1
  <2> HIDE DEF h, r
  <2>3. u \in Nat /\ v \in Nat /\ p * q = (m * v) + u
    <3>1. ((m * h) + r) * q = (m * h) * q + r * q
      BY <2>1, <2>2, Distributes
    <3>2. (m * h) * q = m * (h * q)
      BY <2>1, Distributes
    <3> QED
      BY <2>1, <2>2, <3>1, <3>2
  <2> HIDE DEF u, v
  <2> DEFINE g == u \div m
             t == u % m
  <2>4. g \in Nat /\ t \in 0..(m - 1) /\ u = (m * g) + t
    BY <2>3, NatDivision
  <2> HIDE DEF g, t
  <2>5. p * q = (m * (v + g)) + t /\ v + g \in Int
    <3>1. m * (v + g) = m * v + m * g
      BY <2>3, <2>4, Distributes
    <3>2. m * v \in Int /\ m * g \in Int /\ t \in Int
      BY <2>3, <2>4
    <3> QED
      BY <2>3, <2>4, <3>1, <3>2
  <2>6. p * q \in Int /\ p * q \in Nat
    BY <2>1
  <2>7. (p * q) % m = t
    BY <2>4, <2>5, <2>6, DivisionUnique
  <2> QED
    BY <2>6, <2>7 DEF t, u, r
<1>2. b * c \in Nat /\ (b * c) % m = ((b % m) * c) % m
  BY <1>1
<1>3. (c * b) % m = ((c % m) * b) % m
  BY <1>1
<1>4. c % m \in Int /\ c * b = b * c /\ (c % m) * b = b * (c % m)
  <2>1. c % m \in 0..(m - 1)
    BY NatDivision
  <2>2. c % m \in Int
    BY <2>1
  <2> QED
    BY <2>2, Distributes
<1>5. (b * c) % m \in 0..(m - 1)
  BY <1>2, NatDivision
<1> QED
  BY <1>2, <1>3, <1>4, <1>5

LEMMA PowerSteps ==
  ASSUME NEW b \in Nat, NEW m \in Nat \ {0}
  PROVE  /\ \A k \in Nat : PowerModulo(b, k, m) \in 0..(m - 1)
         /\ \A k \in Nat : PowerModulo(b, k, m) \in Nat
         /\ PowerModulo(b, 0, m) = 1 % m
         /\ \A k \in Nat : PowerModulo(b, k + 1, m) = (PowerModulo(b, k, m) * b) % m
<1> DEFINE S == 0..(m - 1)
           G == [t \in Nat \X S |-> (t[2] * b) % m]
           F(p) == [k \in Nat |-> IF k = 0 THEN 1 % m ELSE (p[k - 1] * b) % m]
           P == CHOOSE p : p = F(p)
<1>1. 1 % m \in S /\ \A r \in S : r \in Nat /\ (r * b) % m \in S
  <2>1. 1 % m \in S
    BY NatDivision
  <2>2. ASSUME NEW r \in S PROVE r \in Nat /\ (r * b) % m \in S
    <3>1. r \in Nat
      OBVIOUS
    <3> QED
      BY <3>1, ModuloProduct
  <2> QED
    BY <2>1, <2>2
<1>2. PICK g : Naturals!RecursOn(g, S, 1 % m, G)
  <2>1. G \in [Nat \X S -> S]
    BY <1>1
  <2> HIDE DEF S, G
  <2> QED
    BY <1>1, <2>1, Naturals!RecursiveOnNat
<1>3. g = F(g)
  <2>1. g \in [Nat -> S] /\ g[0] = 1 % m /\ \A k \in Nat : g[k + 1] = G[<<k, g[k]>>]
    BY <1>2 DEF Naturals!RecursOn
  <2>2. ASSUME NEW k \in Nat, k # 0 PROVE g[k] = (g[k - 1] * b) % m
    <3>1. k - 1 \in Nat /\ (k - 1) + 1 = k
      BY <2>2
    <3>2. g[k - 1] \in S
      BY <2>1, <3>1
    <3> QED
      BY <2>1, <3>1, <3>2
  <2> HIDE DEF S, G
  <2> QED
    BY <2>1, <2>2
<1>4. P = F(P)
  BY <1>3
<1>5. P[0] = 1 % m /\ \A k \in Nat : P[k + 1] = (P[k] * b) % m
  <2> HIDE DEF P
  <2>1. \A k \in Nat : k + 1 \in Nat /\ k + 1 # 0 /\ (k + 1) - 1 = k
    OBVIOUS
  <2>2. P[0] = 1 % m
    BY <1>4
  <2>3. \A k \in Nat : k # 0 => P[k] = (P[k - 1] * b) % m
    BY <1>4
  <2> QED
    BY <2>1, <2>2, <2>3
<1>6. ASSUME NEW k \in Nat PROVE P[k] \in S
  <2> DEFINE T == {l \in 0..k : P[l] \in S}
  <2>1. 0 \in T
    BY <1>1, <1>5
  <2>2. \A l \in 0..(k - 1) : l \in T => l + 1 \in T
    <3> HIDE DEF S, P
    <3>1. \A l \in 0..(k - 1) : l \in Nat /\ l + 1 \in 0..k
      OBVIOUS
    <3> QED
      BY <1>1, <1>5, <3>1
  <2>3. 0 \in Int /\ k \in Int /\ k \in 0..k
    OBVIOUS
  <2> HIDE DEF T
  <2>4. \A l \in 0..k : l \in T
    BY <2>1, <2>2, <2>3, Naturals!Induction
  <2> QED
    BY <2>3, <2>4 DEF T
<1>7. \A k : PowerModulo(b, k, m) = P[k]
  BY DEF PowerModulo
<1>8. \A r \in S : r \in Nat
  OBVIOUS
<1> HIDE DEF P, S
<1>9. \A k \in Nat : P[k] \in S /\ P[k] \in Nat
  BY <1>6, <1>8
<1>10. 0 \in Nat /\ \A k \in Nat : k + 1 \in Nat
  OBVIOUS
<1> QED
  BY <1>5, <1>7, <1>9, <1>10 DEF S

\* b to the j-th times b to the k-th.
LEMMA PowerSum ==
  ASSUME NEW b \in Nat, NEW m \in Nat \ {0}, NEW j \in Nat, NEW k \in Nat
  PROVE  PowerModulo(b, j + k, m)
           = (PowerModulo(b, j, m) * PowerModulo(b, k, m)) % m
<1> DEFINE P(e) == PowerModulo(b, e, m)
           T == {l \in 0..k : P(j + l) = (P(j) * P(l)) % m}
<1>1. \A e \in Nat : P(e) \in Nat /\ P(e) \in 0..(m - 1) /\ P(e + 1) = (P(e) * b) % m
  BY PowerSteps
<1>2. P(0) = 1 % m
  BY PowerSteps
<1> HIDE DEF P
<1>3. \A c, d \in Nat : /\ (c * d) % m = ((c % m) * d) % m
                        /\ (c * d) % m = (c * (d % m)) % m
  <2> TAKE c, d \in Nat
  <2> QED
    BY ModuloProduct, Zenon
<1>4. \A r \in 0..(m - 1) : r % m = r
  OBVIOUS
<1>5. 0 \in T
  <2> DEFINE p == P(j)
  <2>1. p \in Nat /\ p % m = p
    BY <1>1, <1>4
  <2> HIDE DEF p
  <2>2. p * 1 = p /\ 1 \in Nat
    BY <2>1
  <2>3. (p * 1) % m = (p * (1 % m)) % m
    BY <2>1, <2>2, ModuloProduct
  <2>4. (p * P(0)) % m = p
    BY <1>2, <2>1, <2>2, <2>3
  <2>5. j + 0 = j /\ 0 \in 0..k
    OBVIOUS
  <2> QED
    BY <2>4, <2>5 DEF p
<1>6. ASSUME NEW l \in 0..(k - 1), l \in T PROVE l + 1 \in T
  <2> DEFINE p == P(j)
             q == P(l)
             r == P(j + l)
  <2>1. l \in Nat /\ l + 1 \in 0..k /\ j + l \in Nat /\ j + (l + 1) = (j + l) + 1
    OBVIOUS
  <2>2. p \in Nat /\ q \in Nat /\ r \in Nat
    BY <1>1, <2>1
  <2>3. P(j + (l + 1)) = (r * b) % m /\ P(l + 1) = (q * b) % m
    BY <1>1, <2>1
  <2>4. r = (p * q) % m
    BY <1>6
  <2> HIDE DEF p, q, r
  <2>5. p * q \in Nat /\ q * b \in Nat /\ (p * q) * b = p * (q * b)
    BY <2>2, Distributes
  <2> DEFINE t == p * q
             u == q * b
  <2>6. t \in Nat /\ u \in Nat /\ r = t % m /\ t * b = p * u
    BY <2>4, <2>5
  <2> HIDE DEF t, u
  <2>7. (t * b) % m = (r * b) % m
    <3>1. t \in Nat /\ b \in Nat
      BY <2>6
    <3>2. (t * b) % m = ((t % m) * b) % m
      BY ONLY <1>3, <3>1, Zenon
    <3> QED
      BY <2>6, <3>2
  <2>8. (p * u) % m = (p * (u % m)) % m
    <3>1. p \in Nat /\ u \in Nat
      BY <2>2, <2>6
    <3> QED
      BY ONLY <1>3, <3>1, Zenon
  <2>9. P(j + (l + 1)) = (p * P(l + 1)) % m
    BY <2>3, <2>6, <2>7, <2>8 DEF u
  <2> QED
    BY <2>1, <2>9 DEF p
<1>7. 0 \in Int /\ k \in Int /\ k \in 0..k
  OBVIOUS
<1> HIDE DEF T
<1>8. \A l \in 0..k : l \in T
  BY <1>5, <1>6, <1>7, Naturals!Induction
<1> QED
  BY <1>7, <1>8 DEF T, P

\* Twice the exponent, or the square of the base.
LEMMA PowerSquare ==
  ASSUME NEW b \in Nat, NEW m \in Nat \ {0}, NEW h \in Nat
  PROVE  PowerModulo((b * b) % m, h, m) = PowerModulo(b, h + h, m)
<1> DEFINE c == (b * b) % m
           P(e) == PowerModulo(b, e, m)
           Q(e) == PowerModulo(c, e, m)
           T == {l \in 0..h : Q(l) = P(l + l)}
<1>1. c \in Nat
  BY ModuloProduct
<1> HIDE DEF c
<1>2. /\ \A e \in Nat : P(e) \in Nat /\ P(e + 1) = (P(e) * b) % m
      /\ \A e \in Nat : Q(e) \in Nat /\ Q(e + 1) = (Q(e) * c) % m
      /\ P(0) = 1 % m /\ Q(0) = 1 % m
  BY <1>1, PowerSteps
<1> HIDE DEF P, Q
<1>3. 0 \in T
  BY <1>2
<1>4. ASSUME NEW l \in 0..(h - 1), l \in T PROVE l + 1 \in T
  <2> DEFINE p == P(l + l)
             u == (p * b) % m
  <2>1. /\ l \in Nat /\ l + 1 \in 0..h /\ l + l \in Nat /\ (l + l) + 1 \in Nat
        /\ (l + 1) + (l + 1) = ((l + l) + 1) + 1
    OBVIOUS
  <2>2. p \in Nat /\ P((l + 1) + (l + 1)) = (u * b) % m /\ Q(l + 1) = (p * c) % m
    BY <1>2, <1>4, <2>1
  <2> HIDE DEF p
  <2>3. p * b \in Nat /\ b * b \in Nat /\ (p * b) * b = p * (b * b)
    BY <2>2, Distributes
  <2>4. (u * b) % m = ((p * b) * b) % m
    BY <2>3, ModuloProduct
  <2>5. (p * c) % m = (p * (b * b)) % m
    BY <2>2, <2>3, ModuloProduct DEF c
  <2>6. Q(l + 1) = P((l + 1) + (l + 1))
    BY <2>2, <2>3, <2>4, <2>5
  <2> QED
    BY <2>1, <2>6
<1>5. 0 \in Int /\ h \in Int /\ h \in 0..h
  OBVIOUS
<1> HIDE DEF T
<1>6. \A l \in 0..h : l \in T
  BY <1>3, <1>4, <1>5, Naturals!Induction
<1> QED
  BY <1>5, <1>6 DEF T, P, Q, c
-----------------------------------------------------------------------------
(* expmod(). *)

\* All numbers are canonical, the inner loop does not see zero, and the outer one
\* ends there.
Numbers ==
  /\ \A d \in {a, z, n, a1, z1, x} : Normal(d) /\ d \in Seq(Digit) /\ Value(d) \in Nat
  /\ pc \in {"outer", "inner", "done"}
  /\ pc = "inner" => z1 # Zero
  /\ pc = "done" => z1 = Zero

ExpModInv == Numbers /\ PowerPreserved /\ LocalsStaySmall

LEMMA IsZero ==
  ASSUME NEW d, Normal(d)
  PROVE  d = Zero <=> Value(d) = 0
  BY LessCompares, ZeroNormal

\* What the operators make of canonical numbers.
LEMMA TurnResults ==
  ASSUME NEW c, Normal(c), NEW d, Normal(d)
  PROVE  /\ Value(c) \in Nat /\ Value(d) \in Nat
         /\ Normal(Multiply(c, d)) /\ Value(Multiply(c, d)) = Value(c) * Value(d)
         /\ Normal(Div(c, d)) /\ Normal(Mod(c, d))
         /\ Value(d) = 0 => Value(Mod(c, d)) = Value(c)
         /\ Value(d) # 0 => /\ Value(Div(c, d)) = Value(c) \div Value(d)
                            /\ Value(Mod(c, d)) = Value(c) % Value(d)
<1>1. c \in Seq(Digit) /\ d \in Seq(Digit)
  BY DEF Normal
<1>2. Value(c) \in Nat /\ Value(d) \in Nat
  BY <1>1, ValueNat
<1>3. Normal(Multiply(c, d)) /\ Value(Multiply(c, d)) = Value(c) * Value(d)
  BY <1>1, MultiplyMultiplies
<1>4. Normal(Div(c, d)) /\ Normal(Mod(c, d))
  BY <1>1, DivModDivides
<1>5. Value(d) = 0 => Value(Mod(c, d)) = Value(c)
  BY <1>1, DivModDivides
<1>6. Value(d) # 0 => /\ Value(Div(c, d)) = Value(c) \div Value(d)
                      /\ Value(Mod(c, d)) = Value(c) % Value(d)
  BY <1>1, DivModDivides
<1> QED
  BY <1>2, <1>3, <1>4, <1>5, <1>6

LEMMA BelowModulus ==
  ASSUME NEW c, Normal(c), NEW m, Normal(m)
  PROVE  m # Zero => Less(Mod(c, m), m)
<1>1. SUFFICES ASSUME m # Zero PROVE Less(Mod(c, m), m)
  OBVIOUS
<1>2. Value(m) \in Nat /\ Value(c) \in Nat /\ Value(m) # 0
  BY <1>1, TurnResults, IsZero
<1>3. Normal(Mod(c, m)) /\ Value(Mod(c, m)) = Value(c) % Value(m)
  BY <1>2, TurnResults
<1>4. Value(c) % Value(m) < Value(m)
  BY <1>2, NatDivision
<1> QED
  BY <1>3, <1>4, LessCompares

LEMMA InitExpMod == Init => ExpModInv
<1> SUFFICES ASSUME Init PROVE ExpModInv
  OBVIOUS
<1>1. Normal(a) /\ Normal(z) /\ Normal(n) /\ a1 = a /\ z1 = z /\ x = One /\ pc = "outer"
  <2>1. PICK arg \in Arguments : a = arg[1] /\ z = arg[2] /\ n = arg[3]
    BY DEF Init
  <2>2. \A k \in 1..3 : Normal(arg[k])
    BY <2>1, ArgumentsAssumption DEF Normal, Zero
  <2> QED
    BY <2>1, <2>2 DEF Init
<1>2. Normal(One) /\ Value(One) = 1
  BY SmallWords
<1>3. Numbers
  <2>1. \A d : Normal(d) => d \in Seq(Digit) /\ Value(d) \in Nat
    BY ValueNat DEF Normal
  <2> QED
    BY <1>1, <1>2, <2>1 DEF Numbers
<1> DEFINE A == Value(a)
           Z == Value(z)
           N == Value(n)
           P == PowerModulo(A, Z, N)
<1>4. A \in Nat /\ Z \in Nat /\ N \in Nat /\ (n = Zero <=> N = 0) /\ (n = One <=> N = 1)
  BY <1>1, <1>2, <1>3, IsZero, LessCompares DEF Numbers
<1>5. PowerPreserved
  <2>1. CASE n = Zero
    BY <2>1 DEF PowerPreserved
  <2>2. CASE n # Zero
    <3>1. N \in Nat \ {0}
      BY <1>4, <2>2
    <3> HIDE DEF A, Z, N
    <3>2. P \in 0..(N - 1)
      BY <1>4, <3>1, PowerSteps
    <3> HIDE DEF P
    <3>3. (1 * P) % N = P
      BY <3>1, <3>2
    <3> QED
      BY <1>1, <1>2, <3>3 DEF PowerPreserved, P, A, Z, N
  <2> QED
    BY <2>1, <2>2
<1>6. LocalsStaySmall
  <2>1. SUFFICES ASSUME n # Zero, n # One PROVE Less(One, n)
    BY <1>1 DEF LocalsStaySmall
  <2>2. 1 < N
    BY <1>4, <2>1
  <2> QED
    BY <1>1, <1>2, <2>2, LessCompares
<1> QED
  BY <1>3, <1>5, <1>6 DEF ExpModInv

\* An even exponent is halved and the base squared.
LEMMA SquareKeeps == ExpModInv /\ Square => ExpModInv' /\ Less(z1', z1)
<1> SUFFICES ASSUME ExpModInv, Square PROVE ExpModInv' /\ Less(z1', z1)
  OBVIOUS
<1>1. /\ z1 # Zero /\ Mod(z1, Two) = Zero
      /\ z1' = Div(z1, Two) /\ a1' = Mod(Multiply(a1, a1), n)
      /\ UNCHANGED <<pc, a, z, n, x>> /\ pc = "inner"
  BY DEF Square, ExpModInv, Numbers
<1>2. Normal(a1) /\ Normal(z1) /\ Normal(x) /\ Normal(n) /\ Normal(a) /\ Normal(z)
  BY DEF ExpModInv, Numbers
<1>3. Normal(Two) /\ Value(Two) = 2
  BY SmallWords
<1> DEFINE A == Value(a1)
           Z == Value(z1)
           N == Value(n)
           X == Value(x)
           H == Value(z1')
<1>4. A \in Nat /\ Z \in Nat /\ N \in Nat /\ X \in Nat /\ Z # 0 /\ (n = Zero <=> N = 0)
  BY <1>1, <1>2, IsZero DEF ExpModInv, Numbers
<1>5. Normal(z1') /\ Z = H + H /\ H \in Nat /\ H < Z
  <2>1. Normal(z1') /\ H = Z \div 2 /\ Value(Mod(z1, Two)) = Z % 2
    <3>1. Normal(Div(z1, Two))
      BY <1>2, <1>3, TurnResults
    <3>2. Value(Two) # 0
      BY <1>3
    <3>3. /\ Value(Div(z1, Two)) = Value(z1) \div Value(Two)
          /\ Value(Mod(z1, Two)) = Value(z1) % Value(Two)
      BY <1>2, <1>3, <3>2, TurnResults
    <3> QED
      BY <1>1, <1>3, <3>1, <3>3
  <2>2. Z % 2 = 0
    BY <1>1, <2>1, ZeroNormal
  <2> HIDE DEF Z, H
  <2> QED
    BY <1>4, <2>1, <2>2
<1>6. Less(z1', z1)
  BY <1>2, <1>5, LessCompares
<1>7. Normal(Multiply(a1, a1)) /\ Value(Multiply(a1, a1)) = A * A
  BY <1>2, TurnResults
<1>8. Normal(a1') /\ (n # Zero => Value(a1') = (A * A) % N /\ Less(a1', n))
  <2>1. Normal(a1') /\ (N # 0 => Value(a1') = (A * A) % N)
    BY <1>1, <1>2, <1>7, TurnResults
  <2>2. n # Zero => Less(a1', n)
    BY <1>1, <1>2, <1>7, BelowModulus
  <2> QED
    BY <1>4, <2>1, <2>2
<1>9. Numbers'
  <2>1. \A d : Normal(d) => d \in Seq(Digit) /\ Value(d) \in Nat
    BY ValueNat DEF Normal
  <2>2. H # 0
    BY <1>4, <1>5
  <2>3. z1' # Zero
    BY <1>5, <2>2, IsZero
  <2> QED
    BY <1>1, <1>2, <1>5, <1>8, <2>1, <2>3 DEF Numbers
<1>10. PowerPreserved'
  <2>1. CASE n = Zero
    BY <1>1, <2>1 DEF PowerPreserved
  <2>2. CASE n # Zero
    <3>1. N \in Nat \ {0}
      BY <1>4, <2>2
    <3> HIDE DEF A, Z, N, X, H
    <3>2. PowerModulo((A * A) % N, H, N) = PowerModulo(A, Z, N)
      BY <1>4, <1>5, <3>1, PowerSquare
    <3>3. (X * PowerModulo(A, Z, N)) % N = PowerModulo(Value(a), Value(z), N)
      BY <2>2 DEF ExpModInv, PowerPreserved, X, A, Z, N
    <3>4. Value(a1') = (A * A) % N
      BY <1>8, <2>2
    <3> QED
      BY <1>1, <3>2, <3>3, <3>4 DEF PowerPreserved, X, N, H
  <2> QED
    BY <2>1, <2>2
<1>11. LocalsStaySmall'
  BY <1>1, <1>8 DEF LocalsStaySmall, ExpModInv
<1> QED
  BY <1>6, <1>9, <1>10, <1>11 DEF ExpModInv

\* An odd exponent is counted down and the base multiplied in.
LEMMA MultiplyInKeeps == ExpModInv /\ MultiplyIn => ExpModInv' /\ Less(z1', z1)
<1> SUFFICES ASSUME ExpModInv, MultiplyIn PROVE ExpModInv' /\ Less(z1', z1)
  OBVIOUS
<1>1. /\ z1 # Zero
      /\ z1' = Subtract(z1, One) /\ x' = Mod(Multiply(x, a1), n)
      /\ UNCHANGED <<a, z, n, a1>> /\ pc' = "outer"
  BY DEF MultiplyIn, ExpModInv, Numbers
<1>2. Normal(a1) /\ Normal(z1) /\ Normal(x) /\ Normal(n) /\ Normal(a) /\ Normal(z)
  BY DEF ExpModInv, Numbers
<1>3. Normal(One) /\ Value(One) = 1 /\ One \in Seq(Digit)
  BY SmallWords
<1> DEFINE A == Value(a1)
           Z == Value(z1)
           N == Value(n)
           X == Value(x)
           H == Value(z1')
<1>4. A \in Nat /\ Z \in Nat /\ N \in Nat /\ X \in Nat /\ Z # 0 /\ (n = Zero <=> N = 0)
      /\ z1 \in Seq(Digit)
  BY <1>1, <1>2, IsZero DEF ExpModInv, Numbers
<1>5. Normal(z1') /\ Z = H + 1 /\ H \in Nat /\ H < Z
  <2>1. Value(One) <= Value(z1)
    BY <1>3, <1>4
  <2>2. Normal(z1') /\ H = Z - 1
    BY <1>1, <1>3, <1>4, <2>1, SubtractSubtracts
  <2> HIDE DEF Z, H
  <2> QED
    BY <1>4, <2>2
<1>6. Less(z1', z1)
  BY <1>2, <1>5, LessCompares
<1>7. Normal(Multiply(x, a1)) /\ Value(Multiply(x, a1)) = X * A
  BY <1>2, TurnResults
<1>8. Normal(x') /\ (n # Zero => Value(x') = (X * A) % N /\ Less(x', n))
  <2>1. Normal(x') /\ (N # 0 => Value(x') = (X * A) % N)
    BY <1>1, <1>2, <1>7, TurnResults
  <2>2. n # Zero => Less(x', n)
    BY <1>1, <1>2, <1>7, BelowModulus
  <2> QED
    BY <1>4, <2>1, <2>2
<1>9. Numbers'
  <2>1. \A d : Normal(d) => d \in Seq(Digit) /\ Value(d) \in Nat
    BY ValueNat DEF Normal
  <2> QED
    BY <1>1, <1>2, <1>5, <1>8, <2>1 DEF Numbers
<1>10. PowerPreserved'
  <2>1. CASE n = Zero
    BY <1>1, <2>1 DEF PowerPreserved
  <2>2. CASE n # Zero
    <3> DEFINE P == PowerModulo(A, H, N)
    <3>1. N \in Nat \ {0}
      BY <1>4, <2>2
    <3> HIDE DEF A, Z, N, X, H
    <3>2. P \in Nat /\ PowerModulo(A, Z, N) = (P * A) % N
      BY <1>4, <1>5, <3>1, PowerSteps
    <3> HIDE DEF P
    <3>3. (((X * A) % N) * P) % N = (X * ((P * A) % N)) % N
      <4> DEFINE t == X * A
                 u == P * A
      <4>1. t \in Nat /\ u \in Nat
        BY <1>4, <3>2, Distributes
      <4>2. t * P = X * u
        <5>1. (X * A) * P = X * (A * P) /\ A * P = P * A
          BY <1>4, <3>2, Distributes
        <5> QED
          BY <5>1
      <4> HIDE DEF t, u
      <4>3. (t * P) % N = ((t % N) * P) % N
        BY ONLY <3>1, <3>2, <4>1, ModuloProduct
      <4>4. (X * u) % N = (X * (u % N)) % N
        <5>1. X \in Nat
          BY <1>4
        <5> QED
          BY ONLY <3>1, <4>1, <5>1, ModuloProduct
      <4> QED
        BY <4>2, <4>3, <4>4 DEF t, u
    <3>4. (X * PowerModulo(A, Z, N)) % N = PowerModulo(Value(a), Value(z), N)
      BY <2>2 DEF ExpModInv, PowerPreserved, X, A, Z, N
    <3>5. Value(x') = (X * A) % N
      BY <1>8, <2>2
    <3> QED
      BY <1>1, <3>2, <3>3, <3>4, <3>5 DEF PowerPreserved, P, A, N, H
  <2> QED
    BY <2>1, <2>2
<1>11. LocalsStaySmall'
  BY <1>1, <1>8 DEF LocalsStaySmall, ExpModInv
<1> QED
  BY <1>6, <1>9, <1>10, <1>11 DEF ExpModInv

LEMMA NextExpMod ==
  ExpModInv /\ [Next]_vars => ExpModInv' /\ (UNCHANGED vars \/ pc # "inner" \/ Less(z1', z1))
<1> SUFFICES ASSUME ExpModInv, [Next]_vars
             PROVE  ExpModInv' /\ (UNCHANGED vars \/ pc # "inner" \/ Less(z1', z1))
  OBVIOUS
<1>1. CASE Square
  BY <1>1, SquareKeeps
<1>2. CASE MultiplyIn
  BY <1>2, MultiplyInKeeps
<1>3. CASE Enter \/ Return
  BY <1>3 DEF Enter, Return, ExpModInv, Numbers, PowerPreserved, LocalsStaySmall
<1>4. CASE UNCHANGED vars
  BY <1>4 DEF vars, ExpModInv, Numbers, PowerPreserved, LocalsStaySmall
<1> QED
  BY <1>1, <1>2, <1>3, <1>4 DEF Next, Terminated

LEMMA ExpModAlways == Spec => []ExpModInv
  BY InitExpMod, NextExpMod, PTL DEF Spec

\* In every turn of the loops, x times a1 to the z1-th is still what is asked for
\* (nu_unsigned_big_int.cpp:85-92).
THEOREM PowerAlwaysPreserved == Spec => []PowerPreserved
<1>1. ExpModInv => PowerPreserved
  BY DEF ExpModInv
<1> QED
  BY <1>1, ExpModAlways, PTL

\* The locals stay below the modulus, however large the exponent.
THEOREM LocalsAlwaysSmall == Spec => []LocalsStaySmall
<1>1. ExpModInv => LocalsStaySmall
  BY DEF ExpModInv
<1> QED
  BY <1>1, ExpModAlways, PTL

\* Every turn makes z1 smaller, so that the loops end, even for the modulus zero: the
\* inner one never sees the exponent zero (nu_unsigned_big_int.cpp:83-92).
THEOREM TurnsShrink == Spec => EveryTurnShrinks
<1>1. ExpModInv /\ [Next]_vars => [pc = "inner" => Less(z1', z1)]_vars
  BY NextExpMod
<1> QED
  BY <1>1, ExpModAlways, PTL DEF Spec, EveryTurnShrinks

\* expmod() calculates the power modulo n for numbers of every size, moduli zero
\* and one apart (nu_unsigned_big_int.cpp:73-93).
THEOREM ExpModCalculates == Spec => []CalculatesPower
<1>1. ExpModInv => CalculatesPower
  <2> SUFFICES ASSUME ExpModInv, pc = "done", n # Zero, n # One
               PROVE  Value(x) = PowerModulo(Value(a), Value(z), Value(n))
    BY DEF CalculatesPower
  <2> DEFINE A == Value(a1)
             N == Value(n)
             X == Value(x)
  <2>1. A \in Nat /\ N \in Nat /\ X \in Nat /\ Normal(n) /\ Normal(x) /\ z1 = Zero
    BY DEF ExpModInv, Numbers
  <2>2. X < N
    BY <2>1, LessCompares DEF ExpModInv, LocalsStaySmall
  <2>3. N # 0 /\ N # 1
    BY <2>1, SmallWords, IsZero, LessCompares
  <2>4. (X * PowerModulo(A, 0, N)) % N = PowerModulo(Value(a), Value(z), N)
    BY <2>1, ZeroNormal DEF ExpModInv, PowerPreserved
  <2> HIDE DEF A, X, N
  <2>5. PowerModulo(A, 0, N) = 1
    <3>1. PowerModulo(A, 0, N) = 1 % N
      BY <2>1, <2>3, PowerSteps
    <3>2. 1 % N = 1
      BY <2>1, <2>3
    <3> QED
      BY <3>1, <3>2
  <2>6. (X * 1) % N = X
    BY <2>1, <2>2
  <2> QED
    BY <2>4, <2>5, <2>6 DEF X, N
<1> QED
  BY <1>1, ExpModAlways, PTL
-----------------------------------------------------------------------------
(* as_decimal() and the constructor from a text. *)

\* The numbers that the heads of a text stand for.
Reads(g, t) == g = [k \in 0..Len(t) |-> IF k = 0 THEN 0 ELSE g[k - 1] * 10 + t[k]]
Read(t) == CHOOSE g : Reads(g, t)

LEMMA ReadSteps ==
  ASSUME NEW t \in Seq(Nat)
  PROVE  /\ Meaning(t) = Read(t)[Len(t)] /\ Meaning(t) \in Nat
         /\ Read(t)[0] = 0
         /\ \A k \in 1..Len(t) : Read(t)[k] = Read(t)[k - 1] * 10 + t[k]
         /\ \A k \in 0..Len(t) : Read(t)[k] \in Nat
<1> DEFINE l == Len(t)
           G == [p \in (1..l) \X Nat |-> p[2] * 10 + t[p[1]]]
<1>1. l \in Nat /\ \A k \in 1..l : t[k] \in Nat
  OBVIOUS
<1>2. PICK g : Naturals!Recurs(g, l, Nat, 0, G)
  <2>1. \A p \in (1..l) \X Nat : p[2] * 10 + t[p[1]] \in Nat
    BY <1>1
  <2>2. G \in [(1..l) \X Nat -> Nat] /\ 0 \in Nat
    BY <2>1
  <2> HIDE DEF l, G
  <2> QED
    BY <1>1, <2>2, Naturals!Recursive
<1>3. Reads(g, t)
  <2>1. g \in [0..l -> Nat] /\ g[0] = 0 /\ \A k \in 1..l : g[k] = G[<<k, g[k - 1]>>]
    BY <1>2 DEF Naturals!Recurs
  <2>2. ASSUME NEW k \in 0..l, k # 0 PROVE g[k] = g[k - 1] * 10 + t[k]
    <3>1. k \in 1..l /\ k - 1 \in 0..l
      BY <1>1, <2>2
    <3>2. g[k - 1] \in Nat
      BY <2>1, <3>1
    <3> QED
      BY <2>1, <3>1, <3>2
  <2> HIDE DEF G
  <2> QED
    BY <2>1, <2>2 DEF Reads
<1>4. Reads(Read(t), t)
  BY <1>3 DEF Read
<1> DEFINE r == Read(t)
<1>5. r[0] = 0 /\ \A k \in 1..l : r[k] = r[k - 1] * 10 + t[k]
  <2> HIDE DEF r
  <2>1. r = [k \in 0..l |-> IF k = 0 THEN 0 ELSE r[k - 1] * 10 + t[k]]
    BY <1>4 DEF Reads, r
  <2>2. 0 \in 0..l /\ \A k \in 1..l : k \in 0..l /\ k # 0
    BY <1>1
  <2> HIDE DEF l
  <2> QED
    BY <2>1, <2>2
<1>6. \A k \in 0..l : r[k] \in Nat
  <2> DEFINE T == {k \in 0..l : r[k] \in Nat}
  <2> HIDE DEF r, l
  <2>1. 0 \in T
    BY <1>1, <1>5
  <2>2. ASSUME NEW k \in 0..(l - 1), k \in T PROVE k + 1 \in T
    <3>1. k + 1 \in 1..l /\ k + 1 \in 0..l /\ (k + 1) - 1 = k
      BY <1>1
    <3>2. r[k] \in Nat /\ t[k + 1] \in Nat /\ r[k + 1] = r[k] * 10 + t[k + 1]
      BY <1>1, <1>5, <2>2, <3>1
    <3>3. r[k + 1] \in Nat
      BY <3>2
    <3> QED
      BY <3>1, <3>3
  <2>3. 0 \in Int /\ l \in Int
    BY <1>1
  <2> HIDE DEF T
  <2>4. \A k \in 0..l : k \in T
    BY <2>1, <2>2, <2>3, Naturals!Induction
  <2> QED
    BY <2>4 DEF T
<1>7. Meaning(t) = r[l]
  BY DEF Meaning, Read, Reads
<1>8. l \in 0..l
  BY <1>1
<1> QED
  BY <1>5, <1>6, <1>7, <1>8

LEMMA TenPowers ==
  /\ TenTo[0] = 1
  /\ \A k \in Nat : TenTo[k] \in Nat /\ TenTo[k + 1] = 10 * TenTo[k]
<1> DEFINE G == [p \in Nat \X Nat |-> 10 * p[2]]
           F(p) == [k \in Nat |-> IF k = 0 THEN 1 ELSE 10 * p[k - 1]]
           P == CHOOSE p : p = F(p)
<1>1. PICK g : Naturals!RecursOn(g, Nat, 1, G)
  <2>1. G \in [Nat \X Nat -> Nat] /\ 1 \in Nat
    OBVIOUS
  <2> HIDE DEF G
  <2> QED
    BY <2>1, Naturals!RecursiveOnNat
<1>2. g = F(g)
  <2>1. g \in [Nat -> Nat] /\ g[0] = 1 /\ \A k \in Nat : g[k + 1] = G[<<k, g[k]>>]
    BY <1>1 DEF Naturals!RecursOn
  <2>2. ASSUME NEW k \in Nat, k # 0 PROVE g[k] = 10 * g[k - 1]
    <3>1. k - 1 \in Nat /\ (k - 1) + 1 = k
      BY <2>2
    <3>2. g[k - 1] \in Nat
      BY <2>1, <3>1
    <3> QED
      BY <2>1, <3>1, <3>2
  <2> HIDE DEF G
  <2> QED
    BY <2>1, <2>2
<1>3. P = F(P)
  BY <1>2
<1>4. P[0] = 1 /\ \A k \in Nat : P[k + 1] = 10 * P[k]
  <2> HIDE DEF P
  <2>1. \A k \in Nat : k + 1 \in Nat /\ k + 1 # 0 /\ (k + 1) - 1 = k
    OBVIOUS
  <2>2. P[0] = 1
    BY <1>3
  <2>3. \A k \in Nat : k # 0 => P[k] = 10 * P[k - 1]
    BY <1>3
  <2> QED
    BY <2>1, <2>2, <2>3
<1>5. ASSUME NEW k \in Nat PROVE P[k] \in Nat
  <2> DEFINE T == {l \in 0..k : P[l] \in Nat}
  <2>1. 0 \in T
    BY <1>4
  <2>2. \A l \in 0..(k - 1) : l \in T => l + 1 \in T
    <3> HIDE DEF P
    <3>1. \A l \in 0..(k - 1) : l \in Nat /\ l + 1 \in 0..k
      OBVIOUS
    <3> QED
      BY <1>4, <3>1
  <2>3. 0 \in Int /\ k \in Int /\ k \in 0..k
    OBVIOUS
  <2> HIDE DEF T
  <2>4. \A l \in 0..k : l \in T
    BY <2>1, <2>2, <2>3, Naturals!Induction
  <2> QED
    BY <2>3, <2>4 DEF T
<1>6. TenTo = P
  BY DEF TenTo
<1> HIDE DEF P
<1> QED
  BY <1>4, <1>5, <1>6

\* A digit before a text.
LEMMA MeaningPrepend ==
  ASSUME NEW t \in Seq(Nat), NEW c \in Nat
  PROVE  Meaning(<<c>> \o t) = c * TenTo[Len(t)] + Meaning(t)
<1> DEFINE l == Len(t)
           u == <<c>> \o t
           R == Read(t)
           U == Read(u)
           T == {k \in 0..l : U[k + 1] = c * TenTo[k] + R[k]}
<1>1. /\ l \in Nat
      /\ u \in Seq(Nat) /\ Len(u) = l + 1
      /\ u[1] = c /\ \A k \in 1..l : u[k + 1] = t[k]
      /\ \A k \in 1..l : t[k] \in Nat
  OBVIOUS
<1> HIDE DEF u
<1>2. /\ Meaning(t) = R[l] /\ R[0] = 0
      /\ \A k \in 1..l : R[k] = R[k - 1] * 10 + t[k]
      /\ \A k \in 0..l : R[k] \in Nat
  BY ReadSteps
<1>3. /\ Meaning(u) = U[l + 1] /\ U[0] = 0
      /\ \A k \in 1..(l + 1) : U[k] = U[k - 1] * 10 + u[k]
  BY <1>1, ReadSteps
<1> HIDE DEF R, U, l
<1>4. 0 \in T
  <2>1. U[0 + 1] = c
    <3>1. 1 \in 1..(l + 1) /\ 1 - 1 = 0 /\ 0 + 1 = 1
      BY <1>1
    <3>2. U[1] = 0 * 10 + c
      BY <1>1, <1>3, <3>1
    <3> QED
      BY <3>1, <3>2
  <2>2. c * TenTo[0] + R[0] = c
    BY <1>2, TenPowers
  <2>3. 0 \in 0..l
    BY <1>1
  <2> QED
    BY <2>1, <2>2, <2>3
<1>5. ASSUME NEW k \in 0..(l - 1), k \in T PROVE k + 1 \in T
  <2> DEFINE p == TenTo[k]
             q == R[k]
             o == t[k + 1]
  <2>1. /\ k \in Nat /\ k + 1 \in 0..l /\ k + 1 \in 1..l /\ (k + 1) - 1 = k
        /\ (k + 1) + 1 \in 1..(l + 1) /\ ((k + 1) + 1) - 1 = k + 1 /\ k \in 0..l
    BY <1>1
  <2>2. p \in Nat /\ q \in Nat /\ o \in Nat
    BY <1>1, <1>2, <2>1, TenPowers
  <2>3. TenTo[k + 1] = 10 * p /\ R[k + 1] = q * 10 + o
    BY <1>2, <2>1, TenPowers
  <2>4. U[(k + 1) + 1] = U[k + 1] * 10 + o
    BY <1>1, <1>3, <2>1
  <2>5. U[k + 1] = c * p + q
    BY <1>5
  <2> HIDE DEF p, q, o
  <2>6. (c * p + q) * 10 + o = c * (10 * p) + (q * 10 + o)
    BY <2>2
  <2>7. U[(k + 1) + 1] = c * TenTo[k + 1] + R[k + 1]
    BY <2>3, <2>4, <2>5, <2>6
  <2> QED
    BY <2>1, <2>7
<1>6. 0 \in Int /\ l \in Int /\ l \in 0..l
  BY <1>1
<1> HIDE DEF T
<1>7. \A k \in 0..l : k \in T
  BY <1>4, <1>5, <1>6, Naturals!Induction
<1> QED
  BY <1>2, <1>3, <1>6, <1>7 DEF T, l, u

\* A number below the base is one octet.
LEMMA SmallNumber ==
  ASSUME NEW d, Normal(d), Value(d) < Base
  PROVE  At(d, 0) = Value(d)
<1>1. d \in Seq(Digit) /\ Len(d) \in Nat /\ Value(d) \in Nat
  BY ValueNat DEF Normal
<1>2. Weight[1] = Base /\ Weight[0] = 1
  <2>1. Weight[0 + 1] = Weight[0] * Base /\ 0 + 1 = 1
    BY WeightStep
  <2> QED
    BY <2>1, Weights, Powers
<1>3. Len(d) <= 1
  <2>1. CASE d = <<>>
    BY <2>1
  <2>2. CASE d # <<>>
    <3> DEFINE m == Len(d) - 1
    <3>1. m \in Nat /\ Weight[m] <= Value(d)
      BY <2>2, NormalBounds
    <3>2. Weight[m] \in Nat
      BY <3>1, WeightType
    <3>3. ASSUME 1 <= m PROVE FALSE
      <4>1. Weight[1] <= Weight[m]
        BY <3>1, <3>3, WeightGrows
      <4> QED
        BY <1>1, <1>2, <3>1, <3>2, <4>1, Powers
    <3> QED
      BY <1>1, <3>1, <3>3
  <2> QED
    BY <2>1, <2>2
<1>4. Value(d) = Part(d)[1]
  BY <1>1, <1>3, ValueIsAnyPart
<1>5. Part(d)[0] = 0 /\ Part(d)[0 + 1] = Part(d)[0] + At(d, 0) * Weight[0]
  BY <1>1, DigitParts
<1>6. At(d, 0) \in Int
  BY <1>1, AtDigit
<1> QED
  BY <1>2, <1>4, <1>5, <1>6

\* What is written and read, in every place of the program.
Texts ==
  /\ \A d \in {data, cache, temp} : Normal(d)
  /\ given \in BOOLEAN
  /\ s \in Seq(0..Letter) /\ (~given => s \in Seq(0..9))
  /\ i \in 0..Len(s)
  /\ phase \in {"write", "read", "done", "malformed"}

Written ==
  /\ phase = "write" => ~given /\ i = 0 /\ temp = Zero
  /\ phase # "write" /\ ~given => Value(data) = Meaning(s)

ReadSoFar ==
  /\ phase # "write" => Value(temp) = Read(s)[i]
  /\ phase = "done" => i = Len(s)
  /\ phase = "malformed" => \E k \in DOMAIN s : s[k] = Letter

DecimalInv == Texts /\ NothingLost /\ Written /\ ReadSoFar

LEMMA EmptyText == Meaning(<<>>) = 0 /\ TenTo[Len(<<>>)] = 1
<1>1. <<>> \in Seq(Nat) /\ Len(<<>>) = 0
  OBVIOUS
<1> QED
  BY <1>1, ReadSteps, TenPowers

LEMMA InitDecimal == DecimalInit => DecimalInv
<1> SUFFICES ASSUME DecimalInit PROVE DecimalInv
  OBVIOUS
<1>1. Normal(Zero) /\ Value(Zero) = 0 /\ temp = Zero /\ i = 0
  BY ZeroNormal DEF DecimalInit
<1>2. CASE phase = "write"
  <2>1. /\ given = FALSE /\ cache = data /\ s = <<>>
        /\ \E d \in UNION {Data(k) : k \in 0..MaxOctets} : data = Minimum(d)
    BY <1>2 DEF DecimalInit
  <2>2. PICK k \in 0..MaxOctets : \E d \in Data(k) : data = Minimum(d)
    BY <2>1
  <2> PICK d \in Data(k) : data = Minimum(d)
    BY <2>2
  <2>3. d \in Seq(Digit)
    <3>1. k \in Nat
      BY <2>2, TenAssumption
    <3> QED
      BY <2>2, <3>1 DEF Data
  <2>4. Normal(data) /\ Value(data) \in Nat
    BY <2>2, <2>3, MinimumNormal, ValueNat
  <2>5. s \in Seq(0..Letter) /\ s \in Seq(0..9) /\ Len(s) = 0 /\ 0 \in 0..Len(s)
    BY <2>1
  <2>6. Value(data) = Value(cache) * TenTo[Len(s)] + Meaning(s)
    BY <2>1, <2>4, EmptyText
  <2> QED
    BY <1>1, <1>2, <2>1, <2>4, <2>5, <2>6
       DEF DecimalInv, Texts, NothingLost, Written, ReadSoFar
<1>3. CASE phase # "write"
  <2>1. /\ phase = "read" /\ given = TRUE /\ data = Zero /\ cache = Zero
        /\ s \in UNION {[1..k -> 0..Letter] : k \in 0..MaxText}
    BY <1>3 DEF DecimalInit
  <2>2. PICK k \in 0..MaxText : s \in [1..k -> 0..Letter]
    BY <2>1
  <2>3. k \in Nat
    BY <2>2, TenAssumption
  <2>4. s \in Seq(0..Letter) /\ Len(s) = k /\ 0 \in 0..Len(s)
    <3> DEFINE E == 0..Letter
    <3> HIDE DEF E
    <3>1. \A t \in [1..k -> E] : t \in Seq(E) /\ Len(t) = k
      BY <2>3
    <3> QED
      BY <2>2, <2>3, <3>1 DEF E
  <2>5. Read(s)[0] = 0
    <3>1. s \in Seq(Nat)
      BY <2>4 DEF Letter
    <3> QED
      BY <3>1, ReadSteps
  <2> QED
    BY <1>1, <2>1, <2>4, <2>5 DEF DecimalInv, Texts, NothingLost, Written, ReadSoFar
<1> QED
  BY <1>2, <1>3

\* Texts are sequences of naturals.
LEMMA TextNat ==
  ASSUME Texts
  PROVE  /\ s \in Seq(Nat) /\ Len(s) \in Nat
         /\ \A d \in {data, cache, temp} : d \in Seq(Digit) /\ Value(d) \in Nat
<1>1. s \in Seq(0..Letter) /\ \A d \in {data, cache, temp} : d \in Seq(Digit)
  BY DEF Texts, Normal
<1>2. s \in Seq(Nat) /\ Len(s) \in Nat
  BY <1>1, SMTT(30) DEF Letter
<1>3. \A d \in Seq(Digit) : Value(d) \in Nat
  BY ValueNat
<1> QED
  BY ONLY <1>1, <1>2, <1>3

\* A digit is written before the text.
LEMMA DigitWritten ==
  ASSUME Texts, ~given, NEW c \in 0..9, s' = Prepend(s, <<c>>)
  PROVE  /\ s' \in Seq(0..Letter) /\ s' \in Seq(0..9) /\ Len(s') = Len(s) + 1
         /\ 0 \in 0..Len(s')
         /\ Meaning(s') = c * TenTo[Len(s)] + Meaning(s)
<1>1. s \in Seq(0..9) /\ s \in Seq(Nat)
  BY TextNat DEF Texts
<1>2. s' = <<c>> \o s
  BY DEF Prepend
<1>3. <<c>> \o s \in Seq(0..9) /\ Len(<<c>> \o s) = Len(s) + 1 /\ Len(s) \in Nat
  BY <1>1
<1>4. <<c>> \o s \in Seq(0..Letter)
  BY <1>3 DEF Letter
<1>5. c \in Nat
  OBVIOUS
<1>6. Meaning(s') = c * TenTo[Len(s)] + Meaning(s)
  BY <1>1, <1>2, <1>5, MeaningPrepend
<1>7. 0 \in 0..Len(s')
  BY <1>2, <1>3
<1> QED
  BY <1>2, <1>3, <1>4, <1>6, <1>7

LEMMA WriteDigitKeeps == DecimalInv /\ WriteDigit => DecimalInv'
<1> SUFFICES ASSUME DecimalInv, WriteDigit PROVE DecimalInv'
  OBVIOUS
<1> DEFINE q == Div(cache, Ten)
           r == Mod(cache, Ten)
           C == Value(cache)
           D == Value(data)
           Q == Value(q)
           R == Value(r)
           T == TenTo[Len(s)]
           M == Meaning(s)
<1>1. /\ Texts /\ ~given /\ i = 0 /\ temp = Zero /\ phase = "write"
      /\ D = C * T + M
  BY DEF WriteDigit, DecimalInv, Written, NothingLost
<1>2. Normal(cache) /\ C \in Nat /\ Normal(Ten) /\ Value(Ten) = 10 /\ Len(s) \in Nat
      /\ s \in Seq(Nat) /\ D \in Nat
  BY <1>1, TextNat, SmallWords DEF Texts
<1>3. C >= 10
  <2>1. ~Less(cache, Ten)
    BY DEF WriteDigit, More
  <2>2. ~(C < 10)
    BY <1>2, <2>1, LessCompares
  <2> HIDE DEF C
  <2> QED
    BY <1>2, <2>2
<1>4. Normal(q) /\ Normal(r) /\ Q = C \div 10 /\ R = C % 10
  <2>1. Normal(q) /\ Normal(r)
    BY <1>2, TurnResults
  <2>2. Value(Ten) # 0
    BY <1>2
  <2>3. Value(q) = Value(cache) \div Value(Ten) /\ Value(r) = Value(cache) % Value(Ten)
    BY <1>2, <2>2, TurnResults
  <2> QED
    BY <1>2, <2>1, <2>3
<1>5. Q \in Nat /\ R \in 0..9 /\ R \in Nat /\ C = 10 * Q + R /\ Q < C
  <2> HIDE DEF C, Q, R
  <2> QED
    BY <1>2, <1>3, <1>4
<1>6. Less(q, cache)
  BY <1>2, <1>4, <1>5, LessCompares
<1>7. At(r, 0) = R
  <2>1. R < Base
    <3> HIDE DEF R
    <3> QED
      BY <1>5, TenAssumption, Powers
  <2> QED
    BY <1>4, <2>1, SmallNumber
<1>8. /\ cache' = q /\ s' = Prepend(s, <<R>>) /\ phase' = "write"
      /\ UNCHANGED <<given, data, temp, i>>
  BY <1>6, <1>7 DEF WriteDigit, Digits, Div, Mod
<1>9. /\ s' \in Seq(0..Letter) /\ s' \in Seq(0..9) /\ Len(s') = Len(s) + 1 /\ 0 \in 0..Len(s')
      /\ Meaning(s') = R * T + M
  BY <1>1, <1>5, <1>8, DigitWritten
<1>10. D = Q * TenTo[Len(s')] + Meaning(s')
  <2>1. TenTo[Len(s')] = 10 * T /\ T \in Nat
    BY <1>2, <1>9, TenPowers
  <2>2. M \in Nat
    BY <1>2, ReadSteps
  <2> HIDE DEF C, D, Q, R, T, M
  <2>3. C * T + M = Q * (10 * T) + (R * T + M)
    <3>1. (10 * Q + R) * T = (10 * Q) * T + R * T
      BY <1>5, <2>1, Distributes
    <3>2. (10 * Q) * T = Q * (10 * T)
      BY <1>5, <2>1
    <3>3. (10 * Q) * T \in Nat /\ R * T \in Nat
      BY <1>5, <2>1
    <3> QED
      BY <1>5, <2>2, <3>1, <3>2, <3>3
  <2> QED
    BY <1>1, <1>9, <2>1, <2>3
<1>11. Texts'
  BY <1>1, <1>4, <1>8, <1>9 DEF Texts
<1> QED
  BY <1>1, <1>8, <1>10, <1>11 DEF DecimalInv, NothingLost, Written, ReadSoFar

LEMMA WriteLastKeeps == DecimalInv /\ WriteLast => DecimalInv'
<1> SUFFICES ASSUME DecimalInv, WriteLast PROVE DecimalInv'
  OBVIOUS
<1> DEFINE C == Value(cache)
<1>1. /\ Texts /\ ~given /\ i = 0 /\ temp = Zero /\ phase = "write"
      /\ Value(data) = C * TenTo[Len(s)] + Meaning(s)
  BY DEF WriteLast, DecimalInv, Written, NothingLost
<1>2. Normal(cache) /\ C \in Nat /\ Normal(Ten) /\ Value(Ten) = 10
  BY <1>1, TextNat, SmallWords DEF Texts
<1>3. C < 10
  BY <1>2, LessCompares DEF WriteLast, More
<1>4. At(cache, 0) = C /\ C \in 0..9
  <2>1. C < Base /\ C \in 0..9
    <3> HIDE DEF C
    <3> QED
      BY <1>2, <1>3, TenAssumption, Powers
  <2> QED
    BY <1>2, <2>1, SmallNumber
<1>5. s' = Prepend(s, <<C>>) /\ phase' = "read" /\ UNCHANGED <<given, data, cache, temp, i>>
  BY <1>4 DEF WriteLast, Digits
<1>6. /\ s' \in Seq(0..Letter) /\ s' \in Seq(0..9) /\ Len(s') = Len(s) + 1 /\ 0 \in 0..Len(s')
      /\ Meaning(s') = C * TenTo[Len(s)] + Meaning(s)
  BY <1>1, <1>4, <1>5, DigitWritten
<1>7. Texts'
  BY <1>1, <1>5, <1>6 DEF Texts
<1>8. Value(temp') = Read(s')[i']
  <2>1. s' \in Seq(Nat)
    BY <1>6
  <2>2. Read(s')[0] = 0
    BY <2>1, ReadSteps
  <2> QED
    BY <1>1, <1>5, <2>2, ZeroNormal
<1> QED
  BY <1>1, <1>5, <1>6, <1>7, <1>8 DEF DecimalInv, NothingLost, Written, ReadSoFar

LEMMA ReadDigitKeeps == DecimalInv /\ ReadDigit => DecimalInv'
<1> SUFFICES ASSUME DecimalInv, ReadDigit PROVE DecimalInv'
  OBVIOUS
<1> DEFINE c == s[i + 1]
           V == Value(temp)
           t == Multiply(temp, Ten)
<1>1. /\ phase = "read" /\ i < Len(s) /\ c # Letter
      /\ temp' = Add(t, FromWord(c)) /\ i' = i + 1
      /\ UNCHANGED <<phase, given, data, cache, s>>
  BY DEF ReadDigit
<1>2. Texts /\ V = Read(s)[i]
  BY <1>1 DEF DecimalInv, ReadSoFar
<1>3. Normal(temp) /\ V \in Nat /\ s \in Seq(Nat) /\ Len(s) \in Nat
  BY <1>2, TextNat DEF Texts
<1>4. i + 1 \in 1..Len(s) /\ i + 1 \in 0..Len(s) /\ (i + 1) - 1 = i
  BY <1>1, <1>2, <1>3 DEF Texts
<1>5. c \in 0..9
  <2>1. c \in 0..Letter
    <3> DEFINE k == i + 1
               E == 0..Letter
    <3>1. s \in Seq(0..Letter) /\ k \in 1..Len(s)
      BY <1>2, <1>4 DEF Texts
    <3> HIDE DEF k, E
    <3>2. \A q \in Seq(E) : \A l \in 1..Len(q) : q[l] \in E
      OBVIOUS
    <3> QED
      BY <3>1, <3>2 DEF k, E
  <2> HIDE DEF c
  <2> QED
    BY <1>1, <2>1 DEF Letter
<1>6. Normal(FromWord(c)) /\ FromWord(c) \in Seq(Digit) /\ Value(FromWord(c)) = c
  <2>1. c \in Nat /\ c < Base
    <3> HIDE DEF c
    <3> QED
      BY <1>5, TenAssumption, Powers
  <2> HIDE DEF c
  <2> QED
    BY <2>1, WordValue
<1>7. Normal(t) /\ t \in Seq(Digit) /\ Value(t) = V * 10
  <2>1. Normal(Ten) /\ Value(Ten) = 10
    BY SmallWords
  <2>2. Normal(t) /\ Value(t) = Value(temp) * Value(Ten)
    BY <1>3, <2>1, TurnResults
  <2> QED
    BY <2>1, <2>2 DEF Normal
<1>8. Normal(temp') /\ Value(temp') = V * 10 + c
  BY <1>1, <1>6, <1>7, AddAdds
<1>9. Value(temp') = Read(s)[i + 1]
  <2>1. Read(s)[i + 1] = Read(s)[i] * 10 + s[i + 1]
    BY <1>3, <1>4, ReadSteps
  <2> QED
    BY <1>2, <1>8, <2>1
<1>10. Texts'
  BY <1>1, <1>2, <1>4, <1>8 DEF Texts
<1> QED
  BY <1>1, <1>9, <1>10 DEF DecimalInv, NothingLost, Written, ReadSoFar

LEMMA NextDecimal == DecimalInv /\ [DecimalNext]_decimalVars => DecimalInv'
<1> SUFFICES ASSUME DecimalInv, [DecimalNext]_decimalVars PROVE DecimalInv'
  OBVIOUS
<1>1. CASE WriteDigit
  BY <1>1, WriteDigitKeeps
<1>2. CASE WriteLast
  BY <1>2, WriteLastKeeps
<1>3. CASE ReadDigit
  BY <1>3, ReadDigitKeeps
<1>4. CASE MalformedInput
  <2>1. /\ phase = "read" /\ s[i + 1] = Letter /\ phase' = "malformed" /\ i < Len(s)
        /\ UNCHANGED <<given, data, cache, s, temp, i>>
    BY <1>4 DEF MalformedInput
  <2>2. i + 1 \in DOMAIN s
    <3>1. i \in 0..Len(s) /\ s \in Seq(Nat) /\ Len(s) \in Nat
      BY TextNat DEF DecimalInv, Texts
    <3> QED
      BY <2>1, <3>1
  <2> QED
    BY <2>1, <2>2 DEF DecimalInv, Texts, NothingLost, Written, ReadSoFar
<1>5. CASE ReadEnds
  BY <1>5 DEF ReadEnds, DecimalInv, Texts, NothingLost, Written, ReadSoFar
<1>6. CASE UNCHANGED decimalVars
  BY <1>6 DEF decimalVars, DecimalInv, Texts, NothingLost, Written, ReadSoFar
<1> QED
  BY <1>1, <1>2, <1>3, <1>4, <1>5, <1>6 DEF DecimalNext, Stopped

LEMMA DecimalAlways == DecimalSpec => []DecimalInv
  BY InitDecimal, NextDecimal, PTL DEF DecimalSpec

\* The text and what is left to write always make up the number, for numbers of
\* every size (nu_unsigned_big_int.cpp:190-205).
THEOREM NothingEverLost == DecimalSpec => []NothingLost
<1>1. DecimalInv => NothingLost
  BY DEF DecimalInv
<1> QED
  BY <1>1, DecimalAlways, PTL

\* The branch that asks "why??" (nu_unsigned_big_int.cpp:194-198) is never taken.
THEOREM AlwaysSmaller == DecimalSpec => []DivGetsSmaller
<1>1. DecimalInv => DivGetsSmaller
  BY DEF DecimalInv, Texts, DivGetsSmaller
<1> QED
  BY <1>1, DecimalAlways, PTL

\* as_decimal() and the constructor from a text are inverse, for numbers and texts
\* of every length (nu_unsigned_big_int.cpp:185-212, nu_unsigned_big_int.h:17-30).
THEOREM AlwaysReadsBack == DecimalSpec => []ReadsBack
<1>1. DecimalInv => ReadsBack
  <2> SUFFICES ASSUME DecimalInv PROVE ReadsBack
    OBVIOUS
  <2>1. s \in Seq(Nat) /\ Normal(temp) /\ Normal(data)
    BY TextNat DEF DecimalInv, Texts
  <2>2. phase = "done" => Value(temp) = Meaning(s)
    BY <2>1, ReadSteps DEF DecimalInv, ReadSoFar
  <2>3. phase = "done" /\ ~given => temp = data
    <3>1. phase = "done" /\ ~given => Value(temp) = Value(data)
      BY <2>2 DEF DecimalInv, Written
    <3> QED
      BY <2>1, <3>1, LessCompares
  <2>4. phase = "malformed" => given /\ Letter \in Range(s)
    <3>1. SUFFICES ASSUME phase = "malformed" PROVE given /\ Letter \in Range(s)
      OBVIOUS
    <3>2. PICK k \in DOMAIN s : s[k] = Letter
      BY <3>1 DEF DecimalInv, ReadSoFar
    <3>3. given
      <4>1. s \in Seq(0..9) => s[k] \in 0..9
        BY <3>2
      <4> QED
        BY <3>2, <4>1 DEF DecimalInv, Texts, Letter
    <3> QED
      BY <3>2, <3>3 DEF Range
  <2> QED
    BY <2>2, <2>3, <2>4 DEF ReadsBack
<1> QED
  BY <1>1, DecimalAlways, PTL
-----------------------------------------------------------------------------
(* What RsaBlocks takes expmod() for. *)

Blocks == INSTANCE RsaBlocks WITH MaxAmount <- 0

\* Power of RsaBlocks, by squaring, is PowerModulo, by repeated multiplication.
LEMMA PowerIsPowerModulo ==
  ASSUME NEW b \in Nat, NEW e \in Nat, NEW m \in Nat, m > 1
  PROVE  Blocks!Power(b, e, m) = PowerModulo(b, e, m)
<1> DEFINE P(k) == PowerModulo(b, k, m)
           F(p) == [k \in 0..e |->
                      IF k = 0 THEN 1
                      ELSE IF k % 2 = 0 THEN (p[k \div 2] * p[k \div 2]) % m
                      ELSE (p[k - 1] * b) % m]
           g == [k \in 0..e |-> P(k)]
           f == CHOOSE p : p = F(p)
<1>1. m \in Nat \ {0} /\ 1 % m = 1
  OBVIOUS
<1>2. P(0) = 1 /\ \A k \in Nat : P(k + 1) = (P(k) * b) % m
  BY <1>1, PowerSteps
<1>3. \A h \in Nat : P(h + h) = (P(h) * P(h)) % m
  BY <1>1, PowerSum
<1> HIDE DEF P
<1>4. ASSUME NEW k \in 0..e, k # 0
      PROVE  /\ k - 1 \in 0..e /\ P(k) = (P(k - 1) * b) % m
             /\ k % 2 = 0 => k \div 2 \in 0..(k - 1) /\ P(k) = (P(k \div 2) * P(k \div 2)) % m
  <2>1. k \in Nat /\ k - 1 \in Nat /\ (k - 1) + 1 = k /\ k - 1 \in 0..e
    BY <1>4
  <2>2. P(k) = (P(k - 1) * b) % m
    BY <1>2, <2>1
  <2>3. ASSUME k % 2 = 0
        PROVE  k \div 2 \in 0..(k - 1) /\ P(k) = (P(k \div 2) * P(k \div 2)) % m
    <3> DEFINE h == k \div 2
    <3>1. h \in Nat /\ h + h = k /\ h \in 0..(k - 1)
      BY <1>4, <2>1, <2>3
    <3> HIDE DEF h
    <3>2. P(h + h) = (P(h) * P(h)) % m
      BY <1>3, <3>1
    <3> QED
      BY <3>1, <3>2 DEF h
  <2> QED
    BY <2>1, <2>2, <2>3
<1>5. g = F(g)
  <2>1. ASSUME NEW k \in 0..e
        PROVE  P(k) = IF k = 0 THEN 1
                      ELSE IF k % 2 = 0 THEN (g[k \div 2] * g[k \div 2]) % m
                      ELSE (g[k - 1] * b) % m
    <3>1. CASE k = 0
      BY <1>2, <3>1
    <3>2. CASE k # 0 /\ k % 2 = 0
      <4>1. k \div 2 \in 0..(k - 1) /\ P(k) = (P(k \div 2) * P(k \div 2)) % m
        BY <1>4, <3>2
      <4>2. k \div 2 \in 0..e
        BY <4>1
      <4> QED
        BY <3>2, <4>1, <4>2
    <3>3. CASE k # 0 /\ k % 2 # 0
      BY <1>4, <3>3
    <3> QED
      BY <3>1, <3>2, <3>3
  <2> QED
    BY <2>1
<1>6. f = F(f)
  BY <1>5
<1> HIDE DEF f
<1>7. /\ f[0] = 1
      /\ \A k \in 0..e : k # 0 => f[k] = IF k % 2 = 0 THEN (f[k \div 2] * f[k \div 2]) % m
                                         ELSE (f[k - 1] * b) % m
  <2>1. 0 \in 0..e
    OBVIOUS
  <2> QED
    BY <1>6, <2>1
<1> DEFINE T == {k \in 0..e : \A j \in 0..k : f[j] = P(j)}
<1>8. 0 \in T
  BY <1>2, <1>7
<1>9. ASSUME NEW k \in 0..(e - 1), k \in T PROVE k + 1 \in T
  <2> DEFINE l == k + 1
  <2>1. l \in 0..e /\ l # 0 /\ l - 1 = k /\ k \in 0..k
        /\ \A j \in 0..l : j \in 0..k \/ j = l
    OBVIOUS
  <2>2. \A j \in 0..k : f[j] = P(j)
    BY <1>9
  <2> HIDE DEF l
  <2>3. f[l] = P(l)
    <3>1. CASE l % 2 = 0
      <4>1. l \div 2 \in 0..k /\ P(l) = (P(l \div 2) * P(l \div 2)) % m
        BY <1>4, <2>1, <3>1
      <4>2. f[l \div 2] = P(l \div 2)
        BY <2>2, <4>1
      <4> QED
        BY <1>7, <2>1, <3>1, <4>1, <4>2
    <3>2. CASE l % 2 # 0
      <4>1. P(l) = (P(k) * b) % m
        BY <1>4, <2>1
      <4> QED
        BY <1>7, <2>1, <2>2, <3>2, <4>1
    <3> QED
      BY <3>1, <3>2
  <2>4. \A j \in 0..l : f[j] = P(j)
    BY <2>1, <2>2, <2>3
  <2> QED
    BY <2>1, <2>4 DEF l
<1>10. 0 \in Int /\ e \in Int /\ e \in 0..e
  OBVIOUS
<1> HIDE DEF T
<1>11. \A k \in 0..e : k \in T
  BY <1>8, <1>9, <1>10, Naturals!Induction
<1>12. f[e] = P(e)
  BY <1>10, <1>11 DEF T
<1>13. Blocks!Power(b, e, m) = f[e]
  BY DEF Blocks!Power, f
<1> QED
  BY <1>12, <1>13 DEF P

\* The numbers of rsa.cpp may be taken for naturals, and expmod() for Power of
\* RsaBlocks (rsa.cpp:10, 18).
THEOREM ExpModIsPower ==
  Spec => [](pc = "done" /\ n \notin {Zero, One} =>
               Value(x) = Blocks!Power(Value(a), Value(z), Value(n)))
<1> DEFINE IsPower == pc = "done" /\ n \notin {Zero, One} =>
                        Value(x) = Blocks!Power(Value(a), Value(z), Value(n))
<1>1. ExpModInv /\ CalculatesPower => IsPower
  <2> SUFFICES ASSUME ExpModInv, CalculatesPower, pc = "done", n # Zero, n # One
               PROVE  Value(x) = Blocks!Power(Value(a), Value(z), Value(n))
    OBVIOUS
  <2>1. /\ Value(a) \in Nat /\ Value(z) \in Nat /\ Value(n) \in Nat /\ Normal(n)
        /\ Value(x) = PowerModulo(Value(a), Value(z), Value(n))
    BY DEF ExpModInv, Numbers, CalculatesPower
  <2>2. Value(n) # 0 /\ Value(n) # 1
    BY <2>1, SmallWords, IsZero, LessCompares
  <2>3. Value(n) > 1
    BY <2>1, <2>2
  <2> QED
    BY <2>1, <2>3, PowerIsPowerModulo
<1> QED
  BY <1>1, ExpModAlways, ExpModCalculates, PTL
=============================================================================
