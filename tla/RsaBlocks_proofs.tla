-------------------------- MODULE RsaBlocks_proofs --------------------------
(***************************************************************************)
(* The two uses of rsa.cpp.  Messages: no block reaches the modulus, and   *)
(* decrypt() returns what encrypt() was given, for every key and every     *)
(* message.  Signatures: which octets open, exactly; that a chain is       *)
(* accepted exactly if every signature of it opens, for every set of       *)
(* certificates and every chain; and that it is never refused if they are  *)
(* made as they should be.                                                 *)
(***************************************************************************)
EXTENDS Rsa, CertChain, FiniteSetTheorems, SequenceTheorems, TLAPS

\* A modulus above 256, in the words of rsa.cpp:33-35.
HoldsAnOctet(modulus) == \E i \in 1..MaxAmount : Levels^i < modulus

\* What the loop keeps: msg_i octets of the message are encrypted.
IInv ==
  /\ key \in Keys
  /\ message \in Seq(Octet)
  /\ msg_i \in 0..Len(message)

-----------------------------------------------------------------------------
\* block_amount is a number, and not zero for a modulus that holds an octet
\* (rsa.cpp:24-32).
LEMMA BlockAmountType ==
  ASSUME NEW modulus
  PROVE  /\ BlockAmount(modulus) \in Nat
         /\ HoldsAnOctet(modulus) => BlockAmount(modulus) > 0
<1> DEFINE fitting == {i \in 1..MaxAmount : Levels^i < modulus}
<1>1. IsFiniteSet(1..MaxAmount)
  BY RsaAssumption, FS_Interval
<1>2. IsFiniteSet(fitting)
  BY <1>1, FS_Subset
<1>3. Cardinality(fitting) \in Nat
  BY <1>2, FS_CardinalityType
<1>4. HoldsAnOctet(modulus) => fitting # {}
  BY DEF HoldsAnOctet
<1>5. fitting # {} => Cardinality(fitting) # 0
  BY <1>2, FS_EmptySet
<1> QED
  BY <1>3, <1>4, <1>5 DEF BlockAmount

\* How many octets a turn takes: at least one, and not more than there are.
LEMMA AmountBounds ==
  ASSUME NEW amount \in Nat, NEW last \in Nat
  PROVE  /\ Min({amount, last}) \in 0..last
         /\ amount > 0 /\ last > 0 => Min({amount, last}) > 0
<1>1. PICK m \in {amount, last} : \A n \in {amount, last} : m <= n
  OBVIOUS
<1>2. /\ Min({amount, last}) \in {amount, last}
      /\ \A n \in {amount, last} : Min({amount, last}) <= n
  BY <1>1 DEF Min
<1> QED
  BY <1>2

-----------------------------------------------------------------------------
LEMMA InitIInv == RsaInit => IInv
<1> SUFFICES ASSUME RsaInit PROVE IInv
  OBVIOUS
<1>1. message \in Seq(Octet)
  <2>1. CASE message = <<>>
    BY <2>1
  <2>2. CASE message \in UNION {[1..n -> Octet] : n \in 0..MaxMessage}
    <3>1. PICK n \in 0..MaxMessage : message \in [1..n -> Octet]
      BY <2>2
    <3> QED
      BY <3>1
  <2> QED
    BY <2>1, <2>2 DEF RsaInit
<1>2. msg_i \in 0..Len(message)
  BY <1>1 DEF RsaInit
<1> QED
  BY <1>1, <1>2 DEF RsaInit, IInv

\* A turn takes octets that are left, and some if the modulus holds one.
LEMMA TurnConsumes ==
  ASSUME IInv, EncryptBlock
  PROVE  /\ msg_i' \in msg_i..Len(message)
         /\ HoldsAnOctet(key.n) /\ encrypted' # encrypted => msg_i' > msg_i
<1> DEFINE last   == Len(message) - msg_i
           amount == Min({BlockAmount(key.n), last})
<1>1. last \in Nat /\ last > 0 /\ Len(message) \in Nat /\ msg_i \in Nat
  BY DEF IInv, EncryptBlock
<1>2. /\ amount \in 0..last
      /\ HoldsAnOctet(key.n) => amount > 0
  <2> HIDE DEF last
  <2> QED
    BY <1>1, BlockAmountType, AmountBounds
<1>3. \/ msg_i' = msg_i + amount
      \/ msg_i' = msg_i /\ encrypted' = encrypted
  BY DEF EncryptBlock
<1> HIDE DEF amount
<1> QED
  BY <1>1, <1>2, <1>3

LEMMA NextIInv == IInv /\ [RsaNext]_rsaVars => IInv'
<1> SUFFICES ASSUME IInv, [RsaNext]_rsaVars PROVE IInv'
  OBVIOUS
<1>1. UNCHANGED <<key, message>>
  BY DEF RsaNext, EncryptBlock, EncryptReturns, DecryptBlock, DecryptAborts,
         DecryptReturns, Finished, rsaVars
<1>2. msg_i' \in 0..Len(message)
  <2>1. CASE EncryptBlock
    BY <2>1, TurnConsumes DEF IInv
  <2>2. CASE UNCHANGED msg_i
    BY <2>2 DEF IInv
  <2> QED
    BY <2>1, <2>2 DEF RsaNext, EncryptReturns, DecryptBlock, DecryptAborts,
                      DecryptReturns, Finished, rsaVars
<1> QED
  BY <1>1, <1>2 DEF IInv

LEMMA Invariance == RsaSpec => []IInv
  BY InitIInv, NextIInv, PTL DEF RsaSpec

\* encrypt() comes to the end of every message with every key whose modulus holds
\* an octet: each number it appends stands for octets that were left
\* (rsa.cpp:39-49).
THEOREM BlocksConsume ==
  (\A k \in Keys : HoldsAnOctet(k.n)) => (RsaSpec => EveryBlockConsumes)
<1> SUFFICES ASSUME \A k \in Keys : HoldsAnOctet(k.n) PROVE RsaSpec => EveryBlockConsumes
  OBVIOUS
<1>1. ASSUME IInv, [RsaNext]_rsaVars
      PROVE  [encrypted' # encrypted => msg_i' > msg_i]_rsaVars
  <2>1. CASE EncryptBlock
    <3>1. HoldsAnOctet(key.n)
      BY <1>1 DEF IInv
    <3> QED
      BY <1>1, <2>1, <3>1, TurnConsumes
  <2>2. CASE UNCHANGED encrypted
    BY <2>2
  <2> QED
    BY <1>1, <2>1, <2>2 DEF RsaNext, EncryptReturns, DecryptBlock, DecryptAborts,
                            DecryptReturns, Finished, rsaVars
<1> QED
  BY <1>1, Invariance, PTL DEF RsaSpec, EveryBlockConsumes
-----------------------------------------------------------------------------
\* What a turn of the loops over octets does to msg.
TakeOctet(c, msg, octet) == msg * Levels + octet

Taking == INSTANCE Folding WITH Op <- TakeOctet

LEMMA PowerOfTwo ==
  ASSUME NEW k \in 0..OctetBits
  PROVE  2^k \in Nat /\ 2^k > k
<1> DEFINE T == {i \in 0..OctetBits : 2^i \in Nat /\ 2^i > i}
<1>1. OctetBits \in Nat /\ 2^0 = 1 /\ \A i \in 0..(OctetBits - 1) : 2^(i + 1) = 2 * 2^i
  BY RsaAssumption DEF PowersUpTo
<1>2. 0 \in T
  BY <1>1
<1>3. ASSUME NEW i \in 0..(OctetBits - 1), i \in T PROVE i + 1 \in T
  <2> DEFINE x == 2^i
             y == 2^(i + 1)
  <2>1. x \in Nat /\ x > i /\ i \in Nat /\ y = 2 * x /\ i + 1 \in 0..OctetBits
    BY <1>1, <1>3
  <2> HIDE DEF x, y
  <2>2. y \in Nat /\ y > i + 1
    BY <2>1
  <2> QED
    BY <2>1, <2>2 DEF y
<1>4. 0 \in Int /\ OctetBits \in Int
  BY <1>1
<1> HIDE DEF T
<1>5. \A i \in 0..OctetBits : i \in T
  BY <1>2, <1>3, <1>4, Taking!Induction
<1> QED
  BY <1>5 DEF T

\* An octet has at least two values.
LEMMA LevelsType == Levels \in Nat /\ Levels > 1 /\ MaxAmount \in Nat
<1>1. OctetBits \in 0..OctetBits /\ OctetBits > 0 /\ OctetBits \in Nat /\ MaxAmount \in Nat
  BY RsaAssumption
<1> DEFINE x == 2^OctetBits
<1>2. x \in Nat /\ x > OctetBits
  BY <1>1, PowerOfTwo
<1> HIDE DEF x
<1>3. x > 1
  BY <1>1, <1>2
<1> QED
  BY <1>1, <1>2, <1>3 DEF Levels, x

LEMMA LevelsStep ==
  /\ Levels^0 = 1
  /\ \A k \in 0..(MaxAmount - 1) : Levels^(k + 1) = Levels * Levels^k
  BY RsaAssumption DEF PowersUpTo

LEMMA Scaled ==
  ASSUME NEW b \in Nat, NEW w \in Nat \ {0}, b > 1
  PROVE  b * w \in Nat \ {0} /\ b * w > w
<1>1. (b - 1) * w > 0
  OBVIOUS
<1>2. (b - 1) * w = b * w - w
  OBVIOUS
<1> QED
  BY <1>1, <1>2

LEMMA LevelsPowers ==
  ASSUME NEW k \in 0..MaxAmount
  PROVE  Levels^k \in Nat \ {0}
<1> DEFINE T == {i \in 0..MaxAmount : Levels^i \in Nat \ {0}}
<1>1. 0 \in T /\ 0 \in Int /\ MaxAmount \in Int
  BY LevelsType, LevelsStep
<1>2. ASSUME NEW i \in 0..(MaxAmount - 1), i \in T PROVE i + 1 \in T
  <2> DEFINE x == Levels^i
             y == Levels^(i + 1)
  <2>1. x \in Nat \ {0} /\ y = Levels * x /\ i + 1 \in 0..MaxAmount
    BY <1>2, LevelsType, LevelsStep
  <2> HIDE DEF x, y
  <2>2. y \in Nat \ {0}
    BY <2>1, LevelsType, Scaled
  <2> QED
    BY <2>1, <2>2 DEF y
<1> HIDE DEF T
<1>3. \A i \in 0..MaxAmount : i \in T
  BY <1>1, <1>2, Taking!Induction
<1> QED
  BY <1>3 DEF T

\* More octets hold larger numbers.
LEMMA LevelsGrow ==
  ASSUME NEW k \in 0..MaxAmount, NEW l \in k..MaxAmount
  PROVE  Levels^k <= Levels^l
<1> DEFINE T == {i \in k..MaxAmount : Levels^k <= Levels^i}
<1>1. k \in Int /\ MaxAmount \in Int
  BY LevelsType
<1>2. k \in T
  BY <1>1, LevelsPowers
<1>3. ASSUME NEW i \in k..(MaxAmount - 1), i \in T PROVE i + 1 \in T
  <2> DEFINE x == Levels^i
             y == Levels^(i + 1)
             z == Levels^k
  <2>1. x \in Nat \ {0} /\ z \in Nat /\ y = Levels * x /\ i + 1 \in k..MaxAmount /\ z <= x
    BY <1>1, <1>3, LevelsType, LevelsStep, LevelsPowers
  <2> HIDE DEF x, y, z
  <2>2. y \in Nat /\ y > x
    BY <2>1, LevelsType, Scaled
  <2>3. z <= y
    BY <2>1, <2>2
  <2> QED
    BY <2>1, <2>3 DEF y, z
<1> HIDE DEF T
<1>4. \A i \in k..MaxAmount : i \in T
  BY <1>1, <1>2, <1>3, Taking!Induction
<1> QED
  BY <1>4 DEF T

\* block_amount octets are below the modulus, whatever they are
\* (rsa.cpp:24-32, 54-63).
LEMMA BlockFits ==
  ASSUME NEW modulus \in Nat \ {0}
  PROVE  /\ BlockAmount(modulus) \in 0..MaxAmount
         /\ Levels^BlockAmount(modulus) <= modulus
<1> DEFINE fitting == {i \in 1..MaxAmount : Levels^i < modulus}
           amount == Cardinality(fitting)
<1>1. IsFiniteSet(1..MaxAmount) /\ Cardinality(1..MaxAmount) = MaxAmount
  BY LevelsType, FS_Interval
<1>2. IsFiniteSet(fitting) /\ amount \in Nat /\ amount <= MaxAmount
  BY <1>1, FS_Subset, FS_CardinalityType
<1>3. amount \in 0..MaxAmount
  BY <1>2, LevelsType
<1>4. Levels^amount <= modulus
  <2>1. CASE amount = 0
    BY <2>1, LevelsStep
  <2>2. CASE amount # 0
    <3>1. amount \in fitting
      <4> SUFFICES ASSUME amount \notin fitting PROVE FALSE
        OBVIOUS
      <4>1. fitting \subseteq 1..(amount - 1)
        <5> SUFFICES ASSUME NEW i \in fitting, ~(i \in 1..(amount - 1)) PROVE FALSE
          OBVIOUS
        <5>1. i \in 1..MaxAmount /\ Levels^i < modulus
          OBVIOUS
        <5>2. amount \in 1..MaxAmount
          BY <1>3, <2>2, LevelsType
        <5> HIDE DEF amount, fitting
        <5>3. amount \in 0..MaxAmount /\ i \in amount..MaxAmount
          BY <5>1, <5>2, LevelsType
        <5> DEFINE x == Levels^i
                   y == Levels^amount
        <5>4. y <= x /\ x \in Nat /\ y \in Nat
          BY <5>1, <5>3, LevelsGrow, LevelsPowers
        <5>5. x < modulus
          BY <5>1
        <5> HIDE DEF x, y
        <5>6. y < modulus
          BY <5>4, <5>5
        <5> QED
          BY <5>2, <5>6 DEF y, fitting
      <4>2. IsFiniteSet(1..(amount - 1)) /\ Cardinality(1..(amount - 1)) = amount - 1
        <5> DEFINE m == amount - 1
        <5>1. m \in Nat
          BY <1>3, <2>2
        <5> HIDE DEF m
        <5>2. IsFiniteSet(1..m) /\ Cardinality(1..m) = m
          BY <5>1, FS_Interval, SMTT(30)
        <5> QED
          BY <5>2 DEF m
      <4>3. amount <= amount - 1
        <5> DEFINE interval == 1..(amount - 1)
        <5> HIDE DEF interval
        <5>1. Cardinality(fitting) <= Cardinality(interval)
          <6> HIDE DEF fitting, amount
          <6> QED
            BY <4>1, <4>2, FS_Subset DEF interval
        <5> QED
          BY <4>2, <5>1 DEF interval
      <4> QED
        BY <1>3, <4>3
    <3> DEFINE y == Levels^amount
    <3>2. y < modulus
      BY <3>1
    <3>3. y \in Nat
      BY <1>3, LevelsPowers
    <3> HIDE DEF y
    <3>4. y <= modulus
      BY <3>2, <3>3
    <3> QED
      BY <3>4 DEF y
  <2> QED
    BY <2>1, <2>2
<1> QED
  BY <1>3, <1>4 DEF BlockAmount

\* For a block that holds no octet the bound is not strict.
LEMMA BlockBelow ==
  ASSUME NEW modulus \in Nat \ {0}, BlockAmount(modulus) # 0
  PROVE  1 < modulus
<1> DEFINE a == BlockAmount(modulus)
           x == Levels^a
<1>1. a \in 1..MaxAmount /\ x <= modulus
  BY BlockFits, LevelsType
<1> HIDE DEF a
<1>2. x \in Nat /\ Levels^1 <= x
  BY <1>1, LevelsPowers, LevelsGrow, LevelsType
<1>3. Levels^1 = Levels
  <2>1. 0 \in 0..(MaxAmount - 1) /\ 0 + 1 = 1
    BY <1>1, LevelsType
  <2>2. Levels^(0 + 1) = Levels * Levels^0
    BY <2>1, LevelsStep
  <2> QED
    BY <2>1, <2>2, LevelsStep, LevelsType
<1> HIDE DEF x
<1> QED
  BY <1>1, <1>2, <1>3, LevelsType
-----------------------------------------------------------------------------
LEMMA Quotient ==
  ASSUME NEW P \in Nat \ {0}, NEW q \in Int, NEW r \in 0..(P - 1)
  PROVE  (P * q + r) \div P = q /\ (P * q + r) % P = r
  BY SMT

\* The values of msg in the loop over the octets of a block, from the last one on.
Turns(octets, msg) ==
  /\ msg \in [0..Len(octets) -> Nat]
  /\ msg[0] = 0
  /\ \A i \in 1..Len(octets) :
       msg[i] = msg[i - 1] * Levels + octets[Len(octets) - i + 1]
  /\ Number(octets) = msg[Len(octets)]

LEMMA OctetType ==
  ASSUME NEW o \in Octet
  PROVE  o \in 0..(Levels - 1) /\ o \in Nat
  BY LevelsType DEF Octet

LEMMA NumberTurns ==
  ASSUME NEW octets \in Seq(Octet)
  PROVE  \E msg : Turns(octets, msg)
<1> DEFINE n == Len(octets)
           G == [p \in (1..n) \X Nat |-> p[2] * Levels + octets[n - p[1] + 1]]
           P(f) == f = [i \in 0..n |-> IF i = 0 THEN 0
                                       ELSE f[i - 1] * Levels + octets[n - i + 1]]
           f == CHOOSE h : P(h)
<1>1. n \in Nat /\ \A i \in 1..n : octets[n - i + 1] \in Octet
  OBVIOUS
<1>2. Number(octets) = f[n]
  BY DEF Number
<1> HIDE DEF n
<1>3. G \in [(1..n) \X Nat -> Nat]
  <2>1. ASSUME NEW i \in 1..n, NEW m \in Nat
        PROVE  m * Levels + octets[n - i + 1] \in Nat
    <3>1. octets[n - i + 1] \in Nat
      BY <1>1, OctetType
    <3> QED
      BY <3>1, LevelsType
  <2> QED
    BY <2>1
<1>4. PICK g : Taking!Recurs(g, n, Nat, 0, G)
  <2> HIDE DEF G
  <2> QED
    BY <1>1, <1>3, Taking!Recursive
<1>5. /\ g \in [0..n -> Nat] /\ g[0] = 0
      /\ \A i \in 1..n : g[i] = g[i - 1] * Levels + octets[n - i + 1]
  <2>1. ASSUME NEW i \in 1..n
        PROVE  g[i] = g[i - 1] * Levels + octets[n - i + 1]
    <3>1. i - 1 \in 0..n
      BY <1>1
    <3>2. g[i] = G[<<i, g[i - 1]>>] /\ g[i - 1] \in Nat
      <4> HIDE DEF G
      <4> QED
        BY <1>4, <3>1 DEF Taking!Recurs
    <3> QED
      BY <3>2
  <2> QED
    BY <1>4, <2>1 DEF Taking!Recurs
<1>6. P(g)
  BY <1>1, <1>5
<1>7. P(f)
  <2>1. \E h : P(h)
    <3> HIDE DEF P
    <3> QED
      BY <1>6
  <2> QED
    BY <2>1
<1> HIDE DEF f
<1> DEFINE T == {i \in 0..n : f[i] = g[i]}
<1>8. \A i \in 0..n : i \in T
  <2>1. 0 \in T /\ 0 \in Int /\ n \in Int
    BY <1>1, <1>5, <1>7
  <2>2. ASSUME NEW i \in 0..(n - 1), i \in T PROVE i + 1 \in T
    <3> DEFINE m == i + 1
    <3>1. m \in 1..n /\ m \in 0..n /\ m # 0 /\ m - 1 = i
      BY <1>1
    <3> HIDE DEF m
    <3>2. f[m] = f[m - 1] * Levels + octets[n - m + 1]
      BY <1>7, <3>1
    <3>3. g[m] = g[m - 1] * Levels + octets[n - m + 1] /\ f[i] = g[i]
      BY <1>5, <2>2, <3>1
    <3> QED
      BY <3>1, <3>2, <3>3 DEF m
  <2> HIDE DEF T
  <2> QED
    BY <2>1, <2>2, Taking!Induction
<1>9. f[n] = g[n]
  BY <1>1, <1>8
<1>10. Turns(octets, g)
  BY <1>2, <1>5, <1>9 DEF Turns, n
<1> QED
  BY <1>10

\* What lies below the k-th octet is less than one of it.
LEMMA NumberSplits ==
  ASSUME NEW octets \in Seq(Octet), Len(octets) <= MaxAmount,
         NEW msg, Turns(octets, msg), NEW k \in 0..Len(octets)
  PROVE  \E r \in 0..(Levels^k - 1) :
           Number(octets) = msg[Len(octets) - k] * Levels^k + r
<1> DEFINE n == Len(octets)
           T == {i \in 0..n : \E r \in 0..(Levels^i - 1) :
                                msg[n] = msg[n - i] * Levels^i + r}
<1>1. /\ n \in Nat /\ n <= MaxAmount /\ msg[n] = Number(octets)
      /\ \A i \in 0..n : msg[i] \in Nat
      /\ \A i \in 1..n : octets[i] \in Octet
  <2>1. n \in Nat /\ n <= MaxAmount /\ \A i \in 1..n : octets[i] \in Octet
    OBVIOUS
  <2>2. msg[n] = Number(octets) /\ \A i \in 0..n : msg[i] \in Nat
    BY DEF Turns
  <2> QED
    BY <2>1, <2>2
<1>2. \A i \in 1..n : msg[i] = msg[i - 1] * Levels + octets[n - i + 1]
  BY DEF Turns
<1> HIDE DEF n
<1>3. 0 \in T /\ 0 \in Int /\ n \in Int
  <2>1. n - 0 = n /\ msg[n] \in Nat /\ Levels^0 = 1 /\ 0 \in 0..n
    BY <1>1, LevelsStep
  <2>2. msg[n] = msg[n] * 1 + 0 /\ 0 \in 0..(1 - 1)
    BY <2>1
  <2>3. \E r \in 0..(Levels^0 - 1) : msg[n] = msg[n - 0] * Levels^0 + r
    BY <2>1, <2>2
  <2> QED
    BY <1>1, <2>1, <2>3
<1>4. ASSUME NEW i \in 0..(n - 1), i \in T PROVE i + 1 \in T
  <2> DEFINE x == Levels^i
             y == Levels^(i + 1)
             a == msg[n - i]
             b == msg[n - (i + 1)]
             o == octets[i + 1]
  <2>1. PICK r \in 0..(x - 1) : msg[n] = a * x + r
    BY <1>4
  <2>2. /\ x \in Nat \ {0} /\ y \in Nat \ {0} /\ y = Levels * x /\ i + 1 \in 0..n
    <3>1. i \in 0..(MaxAmount - 1) /\ i \in 0..MaxAmount /\ i + 1 \in 0..MaxAmount
      BY <1>1, LevelsType
    <3> QED
      BY <1>1, <3>1, LevelsPowers, LevelsStep
  <2>3. a = b * Levels + o
    <3> DEFINE j == n - i
    <3>1. j \in 1..n /\ j - 1 = n - (i + 1) /\ n - j + 1 = i + 1
      BY <1>1
    <3> HIDE DEF j
    <3>2. msg[j] = msg[j - 1] * Levels + octets[n - j + 1]
      BY <1>2, <3>1
    <3> QED
      BY <3>1, <3>2 DEF j
  <2>4. b \in Nat /\ o \in 0..(Levels - 1)
    <3>1. n - (i + 1) \in 0..n /\ i + 1 \in 1..n
      BY <1>1
    <3>2. octets[i + 1] \in Octet
      BY <1>1, <3>1
    <3> QED
      BY <1>1, <3>1, <3>2, OctetType
  <2> DEFINE s == o * x + r
             M == msg[n]
  <2> HIDE DEF x, y, a, b, o, M
  <2>5. s \in 0..(y - 1)
    <3>1. (Levels - 1 - o) * x >= 0
      BY <2>2, <2>4, LevelsType
    <3>2. (Levels - 1 - o) * x = Levels * x - x - o * x
      BY <2>2, <2>4, LevelsType
    <3>3. o * x \in Nat /\ Levels * x \in Nat
      BY <2>2, <2>4, LevelsType
    <3> DEFINE p == o * x
    <3> HIDE DEF p
    <3>4. p <= y - x /\ p \in Nat
      BY <2>2, <3>1, <3>2, <3>3, LevelsType DEF p
    <3>5. p + r \in 0..(y - 1)
      BY <2>1, <2>2, <3>4
    <3> QED
      BY <3>5 DEF p
  <2>6. M = b * y + s
    <3>1. (b * Levels + o) * x = b * (Levels * x) + o * x
      BY <2>2, <2>4, LevelsType
    <3>2. M = (b * Levels + o) * x + r
      BY <2>1, <2>3 DEF M
    <3>3. b * (Levels * x) \in Int /\ o * x \in Int /\ r \in Int
      BY <2>1, <2>2, <2>4, LevelsType
    <3> DEFINE p == o * x
               q == b * (Levels * x)
    <3> HIDE DEF p, q
    <3>4. M = q + p + r
      BY <3>1, <3>2 DEF p, q
    <3>5. q + p + r = q + (p + r)
      BY <3>3 DEF p, q
    <3> QED
      BY <2>2, <3>4, <3>5 DEF p, q
  <2> HIDE DEF s
  <2>7. \E t \in 0..(y - 1) : M = b * y + t
    BY <2>5, <2>6
  <2> QED
    BY <2>2, <2>7 DEF y, b, M
<1> HIDE DEF T
<1>5. \A i \in 0..n : i \in T
  BY <1>3, <1>4, Taking!Induction
<1> QED
  BY <1>1, <1>5 DEF T, n

\* Octets of a number are those it was read from, as long as there are so many,
\* and zeros behind (rsa.cpp:40-43, 70-79).
LEMMA NumberDigits ==
  ASSUME NEW octets \in Seq(Octet), Len(octets) <= MaxAmount
  PROVE  /\ Number(octets) \in 0..(Levels^Len(octets) - 1)
         /\ \A j \in 1..Len(octets) :
              (Number(octets) \div Levels^(j - 1)) % Levels = octets[j]
<1> DEFINE n == Len(octets)
           N == Number(octets)
<1>1. PICK msg : Turns(octets, msg)
  BY NumberTurns
<1>2. /\ n \in Nat /\ n \in 0..MaxAmount
      /\ msg[0] = 0 /\ \A i \in 0..n : msg[i] \in Nat
  BY <1>1, LevelsType DEF Turns
<1>3. ASSUME NEW k \in 0..n
      PROVE  /\ Levels^k \in Nat \ {0}
             /\ \E r \in 0..(Levels^k - 1) : N = msg[n - k] * Levels^k + r
  <2>1. k \in 0..MaxAmount
    BY <1>2, LevelsType
  <2> QED
    BY <1>1, <2>1, LevelsPowers, NumberSplits
<1>4. N \in 0..(Levels^n - 1)
  <2> DEFINE x == Levels^n
  <2>1. n \in 0..n /\ n - n = 0
    BY <1>2
  <2> HIDE DEF n, N
  <2>2. PICK r \in 0..(x - 1) : N = msg[n - n] * x + r
    BY <1>3, <2>1
  <2>3. x \in Nat \ {0}
    BY <1>3, <2>1
  <2> HIDE DEF x
  <2>4. N = r
    BY <1>2, <2>1, <2>2, <2>3
  <2> QED
    BY <2>4 DEF x
<1>5. ASSUME NEW j \in 1..n
      PROVE  (N \div Levels^(j - 1)) % Levels = octets[j]
  <2> DEFINE k == j - 1
             x == Levels^k
             a == msg[n - k]
             b == msg[n - j]
             o == octets[j]
  <2>1. k \in 0..n /\ n - k \in 1..n /\ n - j \in 0..n /\ (n - k) - 1 = n - j
        /\ n - (n - k) + 1 = j
    BY <1>2
  <2>2. PICK r \in 0..(x - 1) : N = a * x + r
    <3> HIDE DEF k, n, N
    <3> QED
      BY <1>3, <2>1
  <2>3. x \in Nat \ {0} /\ a \in Nat /\ b \in Nat
    <3>1. n - k \in 0..n
      BY <1>2, <2>1
    <3> HIDE DEF k, n
    <3> QED
      BY <1>2, <1>3, <2>1, <3>1
  <2>4. a = b * Levels + o
    <3> DEFINE m == n - k
    <3> HIDE DEF m
    <3>1. m \in 1..n /\ m - 1 = n - j /\ n - m + 1 = j
      BY <2>1 DEF m
    <3>2. msg[m] = msg[m - 1] * Levels + octets[n - m + 1]
      BY <1>1, <3>1 DEF Turns
    <3> QED
      BY <3>1, <3>2 DEF m
  <2>5. o \in 0..(Levels - 1)
    BY OctetType
  <2> HIDE DEF x, a, b, o, N
  <2>6. (x * a + r) \div x = a
    BY <2>2, <2>3, Quotient
  <2>7. N = x * a + r
    BY <2>2, <2>3
  <2>8. (Levels * b + o) % Levels = o
    BY <2>3, <2>5, LevelsType, Quotient
  <2>9. a = Levels * b + o
    BY <2>3, <2>4, LevelsType
  <2>10. (N \div x) % Levels = o
    BY <2>6, <2>7, <2>8, <2>9
  <2> QED
    BY <2>10 DEF x, o
<1> QED
  BY <1>4, <1>5

LEMMA OctetsBack ==
  ASSUME NEW octets \in Seq(Octet), NEW amount \in 0..MaxAmount, Len(octets) <= amount
  PROVE  Octets(Number(octets), amount) =
           [i \in 1..amount |-> IF i <= Len(octets) THEN octets[i] ELSE 0]
<1> DEFINE n == Len(octets)
           N == Number(octets)
<1>1. n \in 0..MaxAmount /\ n <= MaxAmount /\ n \in Nat /\ amount \in Nat
  BY LevelsType
<1>2. /\ N \in 0..(Levels^n - 1)
      /\ \A j \in 1..n : (N \div Levels^(j - 1)) % Levels = octets[j]
  BY <1>1, NumberDigits
<1> HIDE DEF n, N
<1>3. ASSUME NEW i \in 1..amount
      PROVE  (N \div Levels^(i - 1)) % Levels = IF i <= n THEN octets[i] ELSE 0
  <2>1. CASE i <= n
    <3>1. i \in 1..n
      BY <1>1, <2>1
    <3> QED
      BY <1>2, <2>1, <3>1
  <2>2. CASE ~(i <= n)
    <3> DEFINE k == i - 1
               x == Levels^k
               y == Levels^n
    <3>1. k \in n..MaxAmount /\ k \in 0..MaxAmount /\ n \in 0..MaxAmount
      BY <1>1, <2>2, LevelsType
    <3> HIDE DEF k
    <3>2. y <= x /\ x \in Nat \ {0} /\ y \in Nat
      BY <3>1, LevelsGrow, LevelsPowers
    <3>3. N \in 0..(y - 1)
      BY <1>2
    <3> HIDE DEF x, y
    <3>4. N \in 0..(x - 1)
      BY <3>2, <3>3
    <3>5. (x * 0 + N) \div x = 0
      BY <3>2, <3>4, Quotient
    <3>6. x * 0 + N = N
      BY <3>2, <3>4
    <3>7. (Levels * 0 + 0) % Levels = 0
      BY LevelsType, Quotient
    <3>8. Levels * 0 + 0 = 0
      BY LevelsType
    <3> QED
      BY <2>2, <3>5, <3>6, <3>7, <3>8 DEF x, k
  <2> QED
    BY <2>1, <2>2
<1> QED
  BY <1>3 DEF Octets, n, N
-----------------------------------------------------------------------------
\* The function by which Power is defined.
Powered(base, e, n, power) ==
  power = [k \in 0..e |->
            IF k = 0 THEN 1
            ELSE IF k % 2 = 0
            THEN (power[k \div 2] * power[k \div 2]) % n
            ELSE (power[k - 1] * base) % n]

LEMMA HalfBefore ==
  ASSUME NEW k \in Nat \ {0}
  PROVE  k \div 2 \in 0..(k - 1) /\ k - 1 \in 0..(k - 1)
  OBVIOUS

LEMMA RemainderType ==
  ASSUME NEW a \in Nat, NEW n \in Nat \ {0}
  PROVE  a % n \in 0..(n - 1) /\ a % n \in Nat
  OBVIOUS

\* What is encrypted is a number, below the modulus if that is more than one
\* (rsa.cpp:9).
LEMMA PowerBelow ==
  ASSUME NEW base \in Nat, NEW e \in Nat, NEW n \in Nat \ {0}
  PROVE  Power(base, e, n) \in Nat /\ (n > 1 => Power(base, e, n) < n)
<1> DEFINE F == [0..e -> Nat]
           step(k, f) == IF k % 2 = 0 THEN (f[k \div 2] * f[k \div 2]) % n
                         ELSE (f[k - 1] * base) % n
           G == [p \in (1..e) \X F |-> step(p[1], p[2])]
<1>1. ASSUME NEW k \in 1..e, NEW f \in F
      PROVE  step(k, f) \in 0..(n - 1) /\ step(k, f) \in Nat
  <2>1. k \div 2 \in 0..e /\ k - 1 \in 0..e
    BY HalfBefore
  <2>2. f[k \div 2] \in Nat /\ f[k - 1] \in Nat
    BY <2>1
  <2>3. f[k \div 2] * f[k \div 2] \in Nat /\ f[k - 1] * base \in Nat
    BY <2>2
  <2> QED
    BY <2>3, RemainderType
<1>2. G \in [(1..e) \X F -> Nat]
  BY <1>1
<1>3. ASSUME NEW k \in 1..e, NEW f \in F, NEW g \in F, \A j \in 0..(k - 1) : f[j] = g[j]
      PROVE  G[<<k, f>>] = G[<<k, g>>]
  <2>1. f[k \div 2] = g[k \div 2] /\ f[k - 1] = g[k - 1]
    BY <1>3, HalfBefore
  <2>2. G[<<k, f>>] = step(k, f) /\ G[<<k, g>>] = step(k, g)
    OBVIOUS
  <2> QED
    BY <2>1, <2>2
<1>4. PICK g : Taking!RecursOver(g, e, Nat, 1, G)
  <2>1. e \in Nat /\ 1 \in Nat
    OBVIOUS
  <2>2. G \in [(1..e) \X [0..e -> Nat] -> Nat]
    BY <1>2
  <2>3. \A k \in 1..e : \A f, h \in [0..e -> Nat] :
          (\A j \in 0..(k - 1) : f[j] = h[j]) => G[<<k, f>>] = G[<<k, h>>]
    <3> HIDE DEF G
    <3> QED
      BY <1>3
  <2> HIDE DEF G
  <2> QED
    BY <2>1, <2>2, <2>3, Taking!CourseOfValues
<1>5. /\ g \in F /\ g[0] = 1
      /\ \A k \in 1..e : g[k] = step(k, g)
  <2>1. g \in F /\ g[0] = 1 /\ \A k \in 1..e : g[k] = G[<<k, g>>]
    <3> HIDE DEF G
    <3> QED
      BY <1>4 DEF Taking!RecursOver
  <2> QED
    BY <2>1
<1>6. Powered(base, e, n, g)
  <2>1. g = [k \in 0..e |-> g[k]]
    BY <1>5
  <2>2. ASSUME NEW k \in 0..e
        PROVE  g[k] = IF k = 0 THEN 1 ELSE step(k, g)
    BY <1>5
  <2> QED
    BY <2>1, <2>2 DEF Powered
<1> DEFINE f == CHOOSE h : Powered(base, e, n, h)
<1>7. Powered(base, e, n, f)
  BY <1>6
<1>8. Power(base, e, n) = f[e]
  BY DEF Power, Powered
<1> HIDE DEF f
<1>9. /\ f[0] = 1
      /\ \A k \in 1..e : f[k] = step(k, f)
  BY <1>7 DEF Powered
<1>10. \A k \in 0..e : f[k] \in Nat
  <2> DEFINE P(k) == \A j \in 0..k : f[j] \in Nat
             T == {k \in 0..e : P(k)}
  <2>1. 0 \in T /\ 0 \in Int /\ e \in Int
    BY <1>9
  <2>2. ASSUME NEW k \in 0..(e - 1), k \in T PROVE k + 1 \in T
    <3> DEFINE m == k + 1
    <3>1. m \in 1..e /\ m - 1 = k
      OBVIOUS
    <3> HIDE DEF m
    <3>2. m \div 2 \in 0..k /\ m - 1 \in 0..k
      BY <3>1, HalfBefore
    <3>3. f[m \div 2] \in Nat /\ f[m - 1] \in Nat
      BY <2>2, <3>2
    <3>4. f[m \div 2] * f[m \div 2] \in Nat /\ f[m - 1] * base \in Nat
      BY <3>3
    <3>5. f[m] \in Nat
      BY <1>9, <3>1, <3>4, RemainderType
    <3> QED
      BY <2>2, <3>1, <3>5 DEF m
  <2> HIDE DEF T
  <2>3. \A k \in 0..e : k \in T
    BY <2>1, <2>2, Taking!Induction
  <2>4. e \in T
    BY <2>3
  <2> QED
    BY <2>4 DEF T
<1>11. e # 0 => f[e] \in 0..(n - 1)
  <2> SUFFICES ASSUME e # 0 PROVE f[e] \in 0..(n - 1)
    OBVIOUS
  <2>1. e \in 1..e /\ e \div 2 \in 0..e /\ e - 1 \in 0..e
    BY HalfBefore
  <2>2. f[e \div 2] \in Nat /\ f[e - 1] \in Nat
    BY <1>10, <2>1
  <2>3. f[e \div 2] * f[e \div 2] \in Nat /\ f[e - 1] * base \in Nat
    BY <2>2
  <2> QED
    BY <1>9, <2>1, <2>3, RemainderType
<1>12. Power(base, e, n) \in {1} \cup 0..(n - 1)
  BY <1>8, <1>9, <1>11
<1> QED
  BY <1>12
-----------------------------------------------------------------------------
\* Where the block of the b-th turn lies in the message: from behind its From to
\* its Upto.
Size     == BlockAmount(key.n)
From(b)  == Max({0, Len(message) - b * Size})
Upto(b)  == Len(message) - (b - 1) * Size
Turn(b)  == SubSeq(message, From(b) + 1, Upto(b))

\* What has been encrypted and decrypted so far.
EncryptedInv ==
  /\ encrypted \in Seq(Nat)
  /\ msg_i = Min({Len(encrypted) * Size, Len(message)})
  /\ Len(encrypted) # 0 => (Len(encrypted) - 1) * Size < Len(message)
  /\ \A b \in 1..Len(encrypted) : encrypted[b] = Power(Number(Turn(b)), key.e, key.n)

DecryptedInv ==
  /\ pc \in {"encrypt", "decrypt", "return"}
  /\ done \in 0..Len(encrypted)
  /\ ret = FlattenSeq([b \in 1..done |-> DecryptedOctets(encrypted[b], key.d, key.n)])
  /\ pc = "encrypt" => done = 0
  /\ pc # "encrypt" => msg_i = Len(message)
  /\ pc = "return" => done = Len(encrypted)

BlocksInv == IInv /\ (message # <<>> => EncryptedInv /\ DecryptedInv)

\* Of two numbers.
LEMMA LesserOf ==
  ASSUME NEW a \in Int, NEW b \in Int
  PROVE  Min({a, b}) = IF a <= b THEN a ELSE b
<1>1. PICK m \in {a, b} : \A n \in {a, b} : m <= n
  OBVIOUS
<1>2. /\ Min({a, b}) \in {a, b}
      /\ \A n \in {a, b} : Min({a, b}) <= n
  BY <1>1 DEF Min
<1> QED
  BY <1>2

LEMMA GreaterOf ==
  ASSUME NEW a \in Int, NEW b \in Int
  PROVE  Max({a, b}) = IF a >= b THEN a ELSE b
<1>1. PICK m \in {a, b} : \A n \in {a, b} : m >= n
  OBVIOUS
<1>2. /\ Max({a, b}) \in {a, b}
      /\ \A n \in {a, b} : Max({a, b}) >= n
  BY <1>1 DEF Max
<1> QED
  BY <1>2

LEMMA KeyType ==
  ASSUME IInv
  PROVE  /\ key.n \in Nat \ {0} /\ key.e \in Nat /\ key.d \in Nat
         /\ \A m \in 0..(key.n - 1) : Power(Power(m, key.e, key.n), key.d, key.n) = m
         /\ Size \in 0..MaxAmount /\ Size \in Nat
         /\ Levels^Size \in Nat \ {0} /\ Levels^Size <= key.n
         /\ Size # 0 => key.n > 1
<1>1. /\ key.n \in Nat \ {0} /\ key.e \in Nat /\ key.d \in Nat
      /\ \A m \in 0..(key.n - 1) : Power(Power(m, key.e, key.n), key.d, key.n) = m
  BY KeysAssumption DEF IInv
<1>2. Size \in 0..MaxAmount /\ Levels^Size <= key.n
  BY <1>1, BlockFits DEF Size
<1>3. Size # 0 => key.n > 1
  BY <1>1, BlockBelow DEF Size
<1>4. Size \in Nat
  BY <1>2, LevelsType
<1> QED
  BY <1>1, <1>2, <1>3, <1>4, LevelsPowers

\* Octets of a block, as long as there are any left.
LEMMA TurnOctets ==
  ASSUME IInv, NEW b \in Nat \ {0}, b - 1 = 0 \/ (b - 1) * Size < Len(message)
  PROVE  /\ From(b) \in Nat /\ Upto(b) \in Nat /\ Upto(b) <= Len(message)
         /\ From(b) <= Upto(b) /\ Upto(b) - From(b) <= Size
         /\ Turn(b) \in Seq(Octet) /\ Len(Turn(b)) = Upto(b) - From(b)
         /\ \A i \in 1..(Upto(b) - From(b)) : Turn(b)[i] = message[From(b) + i]
<1> DEFINE L == Len(message)
           S == Size
           p == (b - 1) * S
           q == b * S
<1>1. S \in Nat /\ L \in Nat /\ message \in Seq(Octet)
  BY KeyType DEF IInv
<1>2. p \in Nat /\ q \in Nat /\ q = p + S
  BY <1>1
<1>3. p <= L
  BY <1>1, <1>2
<1>4. From(b) = (IF 0 >= L - q THEN 0 ELSE L - q) /\ Upto(b) = L - p
  <2>1. L - q \in Int /\ 0 \in Int
    BY <1>1, <1>2
  <2> QED
    BY <2>1, GreaterOf DEF From, Upto
<1> HIDE DEF p, q, S, L
<1>5. /\ From(b) \in Nat /\ Upto(b) \in Nat /\ Upto(b) <= L
      /\ From(b) <= Upto(b) /\ Upto(b) - From(b) <= S
  BY <1>1, <1>2, <1>3, <1>4
<1> DEFINE f == From(b)
           u == Upto(b)
<1>6. f \in Nat /\ u \in Nat /\ u <= L /\ f <= u
  BY <1>5
<1> HIDE DEF f, u
<1>7. /\ SubSeq(message, f + 1, u) \in Seq(Octet)
      /\ Len(SubSeq(message, f + 1, u)) = u - f
      /\ \A i \in 1..(u - f) : SubSeq(message, f + 1, u)[i] = message[f + i]
  <2>1. f + 1 \in 1..(L + 1) /\ u \in f..L
    BY <1>1, <1>6
  <2>2. \A i \in 1..(u - f) : (f + 1) + i - 1 = f + i
    BY <1>6
  <2> QED
    BY <1>1, <1>6, <2>1, <2>2 DEF L
<1> QED
  BY <1>5, <1>7 DEF Turn, f, u, S, L

\* Its number is below the modulus, and encrypts to one below the modulus.
LEMMA TurnFits ==
  ASSUME IInv, NEW b \in Nat \ {0}, b - 1 = 0 \/ (b - 1) * Size < Len(message)
  PROVE  /\ Number(Turn(b)) \in 0..(key.n - 1)
         /\ Power(Number(Turn(b)), key.e, key.n) \in Nat
         /\ Size # 0 => Power(Number(Turn(b)), key.e, key.n) < key.n
<1> DEFINE n == Len(Turn(b))
           N == Number(Turn(b))
           x == Levels^n
           y == Levels^Size
<1>1. Turn(b) \in Seq(Octet) /\ n <= Size /\ n \in Nat
  BY TurnOctets
<1>2. /\ Size \in 0..MaxAmount /\ y \in Nat /\ y <= key.n /\ key.n \in Nat \ {0}
      /\ key.e \in Nat
  BY KeyType
<1>3. n \in 0..MaxAmount /\ Size \in n..MaxAmount /\ n <= MaxAmount
  BY <1>1, <1>2, LevelsType
<1>4. x <= y /\ x \in Nat
  BY <1>3, LevelsGrow, LevelsPowers
<1>5. N \in 0..(x - 1)
  BY <1>1, <1>3, NumberDigits
<1> HIDE DEF x, y, N
<1>6. N \in 0..(key.n - 1) /\ N \in Nat
  BY <1>2, <1>4, <1>5
<1>7. Power(N, key.e, key.n) \in Nat /\ (key.n > 1 => Power(N, key.e, key.n) < key.n)
  BY <1>2, <1>6, PowerBelow
<1> QED
  BY <1>6, <1>7, KeyType DEF N

\* The octets encrypted next are the block of the next turn.
LEMMA NextTurn ==
  ASSUME BlocksInv, EncryptBlock, message # <<>>
  PROVE  LET m      == Len(encrypted)
             last   == Len(message) - msg_i
             amount == Min({Size, last})
         IN /\ m \in Nat /\ msg_i = m * Size /\ m * Size < Len(message)
            /\ Block(last, amount) = Turn(m + 1)
            /\ msg_i + amount = Min({(m + 1) * Size, Len(message)})
<1> DEFINE m      == Len(encrypted)
           L      == Len(message)
           S      == Size
           p      == m * S
           q      == (m + 1) * S
           last   == L - msg_i
           amount == Min({S, last})
<1>1. S \in Nat /\ L \in Nat /\ m \in Nat /\ msg_i < L
  BY KeyType DEF BlocksInv, EncryptedInv, IInv, EncryptBlock
<1>2. p \in Nat /\ q \in Nat /\ q = p + S
  BY <1>1
<1>3. msg_i = Min({p, L})
  BY DEF BlocksInv, EncryptedInv
<1> HIDE DEF m, S, L, p, q
<1>4. msg_i = p /\ p < L
  <2>1. msg_i = IF p <= L THEN p ELSE L
    BY <1>1, <1>2, <1>3, LesserOf
  <2> QED
    BY <1>1, <1>2, <2>1
<1>5. last = L - p /\ last \in Nat /\ last \in Int
  BY <1>1, <1>2, <1>4
<1> HIDE DEF last
<1>6. amount = IF S <= last THEN S ELSE last
  BY <1>1, <1>5, LesserOf
<1> HIDE DEF amount
<1>7. Min({q, L}) = IF q <= L THEN q ELSE L
  BY <1>1, <1>2, LesserOf
<1>8. msg_i + amount = Min({q, L})
  BY <1>1, <1>2, <1>4, <1>5, <1>6, <1>7
<1>9. Upto(m + 1) = last
  <2>1. (m + 1) - 1 = m
    BY <1>1
  <2> QED
    BY <1>5, <2>1 DEF Upto, p, L, S
<1>10. From(m + 1) = last - amount
  <2>1. From(m + 1) = Max({0, L - q})
    BY DEF From, L, q, S
  <2>2. L - q \in Int /\ 0 \in Int
    BY <1>1, <1>2
  <2>3. Max({0, L - q}) = IF 0 >= L - q THEN 0 ELSE L - q
    BY <2>2, GreaterOf
  <2> QED
    BY <1>1, <1>2, <1>5, <1>6, <2>1, <2>3
<1>11. Block(last, amount) = Turn(m + 1)
  BY <1>9, <1>10 DEF Block, Turn
<1> QED
  BY <1>1, <1>4, <1>8, <1>11 DEF m, S, L, p, q, last, amount

LEMMA InitBlocks == RsaInit => BlocksInv
<1> SUFFICES ASSUME RsaInit, message # <<>> PROVE IInv /\ EncryptedInv /\ DecryptedInv
  BY InitIInv DEF BlocksInv
<1>1. IInv
  BY InitIInv
<1>2. pc = "encrypt" /\ encrypted = <<>> /\ msg_i = 0 /\ done = 0 /\ ret = <<>>
  BY DEF RsaInit
<1>3. Len(encrypted) = 0 /\ encrypted \in Seq(Nat)
  BY <1>2
<1>4. msg_i = Min({Len(encrypted) * Size, Len(message)})
  <2>1. 0 * Size = 0 /\ Len(message) \in Nat
    BY <1>1, KeyType DEF IInv
  <2>2. Min({0, Len(message)}) = 0
    BY <2>1, LesserOf
  <2> QED
    BY <1>2, <1>3, <2>1, <2>2
<1>5. EncryptedInv
  BY <1>3, <1>4 DEF EncryptedInv
<1>6. ret = FlattenSeq([b \in 1..done |-> DecryptedOctets(encrypted[b], key.d, key.n)])
  <2> DEFINE q == [b \in 1..done |-> DecryptedOctets(encrypted[b], key.d, key.n)]
  <2>1. q = <<>> /\ Len(q) = 0
    BY <1>2
  <2> HIDE DEF q
  <2>2. FlattenSeq(q) = q
    BY <2>1 DEF FlattenSeq
  <2> QED
    BY <1>2, <2>1, <2>2 DEF q
<1>7. DecryptedInv
  BY <1>2, <1>3, <1>6 DEF DecryptedInv
<1> QED
  BY <1>1, <1>5, <1>7

\* Size, From, Upto and Turn stay the same.
LEMMA TurnsStay ==
  ASSUME UNCHANGED <<key, message>>
  PROVE  Size' = Size /\ \A b : Turn(b)' = Turn(b)
BY DEF Size, From, Upto, Turn

LEMMA EncryptBlockKeeps == BlocksInv /\ EncryptBlock => BlocksInv'
<1> SUFFICES ASSUME BlocksInv, EncryptBlock PROVE BlocksInv'
  OBVIOUS
<1>1. IInv'
  BY NextIInv DEF BlocksInv, RsaNext
<1>2. UNCHANGED <<key, message, done, ret>>
  BY DEF EncryptBlock
<1> SUFFICES ASSUME message # <<>> PROVE EncryptedInv' /\ DecryptedInv'
  BY <1>1, <1>2 DEF BlocksInv
<1> DEFINE m      == Len(encrypted)
           last   == Len(message) - msg_i
           amount == Min({Size, last})
           msg    == Number(Block(last, amount))
           new    == Power(msg, key.e, key.n)
<1>3. /\ m \in Nat /\ m * Size < Len(message)
      /\ Block(last, amount) = Turn(m + 1)
      /\ msg_i + amount = Min({(m + 1) * Size, Len(message)})
  BY NextTurn
<1>4. /\ msg \in 0..(key.n - 1) /\ new \in Nat
  <2> DEFINE b == m + 1
  <2>1. b \in Nat \ {0} /\ b - 1 = m
    BY <1>3
  <2>2. (b - 1) * Size < Len(message)
    BY <1>3, <2>1
  <2> HIDE DEF b, m
  <2>3. Number(Turn(b)) \in 0..(key.n - 1) /\ Power(Number(Turn(b)), key.e, key.n) \in Nat
    BY <2>1, <2>2, TurnFits DEF BlocksInv
  <2> QED
    BY <1>3, <2>3 DEF b
<1>5. msg < key.n
  BY <1>4, KeyType DEF BlocksInv
<1>6. /\ encrypted' = Append(encrypted, new)
      /\ msg_i' = msg_i + amount /\ pc' = pc /\ pc = "encrypt"
  BY <1>5 DEF EncryptBlock, Size
<1>7. /\ encrypted' \in Seq(Nat) /\ Len(encrypted') = m + 1
      /\ \A b \in 1..m : encrypted'[b] = encrypted[b]
      /\ encrypted'[m + 1] = new
  <2>1. encrypted \in Seq(Nat)
    BY DEF BlocksInv, EncryptedInv
  <2> HIDE DEF new
  <2> QED
    BY <1>4, <1>6, <2>1
<1>8. new = Power(Number(Turn(m + 1)), key.e, key.n)
  BY <1>3
<1> HIDE DEF new, msg, amount, last
<1>9. Size' = Size /\ \A b : Turn(b)' = Turn(b)
  BY <1>2, TurnsStay
<1>10. EncryptedInv'
  <2>1. msg_i' = Min({Len(encrypted') * Size, Len(message)})
    BY <1>3, <1>6, <1>7
  <2>2. (Len(encrypted') - 1) * Size < Len(message)
    <3>1. Len(encrypted') - 1 = m
      BY <1>3, <1>7
    <3> QED
      BY <1>3, <3>1
  <2>3. ASSUME NEW b \in 1..(m + 1)
        PROVE  encrypted'[b] = Power(Number(Turn(b)), key.e, key.n)
    <3>1. CASE b = m + 1
      BY <1>7, <1>8, <3>1
    <3>2. CASE b # m + 1
      <4>1. b \in 1..m
        BY <1>3, <3>2
      <4> QED
        BY <1>7, <4>1 DEF BlocksInv, EncryptedInv
    <3> QED
      BY <3>1, <3>2
  <2> QED
    BY <1>2, <1>7, <1>9, <2>1, <2>2, <2>3 DEF EncryptedInv
<1>11. DecryptedInv'
  <2>1. /\ done = 0
        /\ ret = FlattenSeq([b \in 1..done |-> DecryptedOctets(encrypted[b], key.d, key.n)])
    BY <1>6 DEF BlocksInv, DecryptedInv
  <2>2. [b \in 1..0 |-> DecryptedOctets(encrypted[b], key.d, key.n)]
          = [b \in 1..0 |-> DecryptedOctets(encrypted'[b], key.d, key.n)]
    OBVIOUS
  <2>3. ret' = FlattenSeq([b \in 1..done' |-> DecryptedOctets(encrypted'[b], key'.d, key'.n)])
    BY <1>2, <2>1, <2>2
  <2>4. done' \in 0..Len(encrypted') /\ done' = 0
    BY <1>2, <1>3, <1>7, <2>1
  <2> QED
    BY <1>6, <2>3, <2>4 DEF DecryptedInv
<1> QED
  BY <1>10, <1>11

LEMMA EncryptReturnsKeeps == BlocksInv /\ EncryptReturns => BlocksInv'
<1> SUFFICES ASSUME BlocksInv, EncryptReturns PROVE BlocksInv'
  OBVIOUS
<1>1. IInv'
  BY NextIInv DEF BlocksInv, RsaNext
<1>2. UNCHANGED <<key, message, msg_i, encrypted, done, ret>> /\ pc = "encrypt" /\ pc' = "decrypt"
  BY DEF EncryptReturns
<1>3. Size' = Size /\ \A b : Turn(b)' = Turn(b)
  BY <1>2, TurnsStay
<1>4. message # <<>> => EncryptedInv'
  BY <1>2, <1>3 DEF BlocksInv, EncryptedInv
<1>5. msg_i = Len(message)
  BY DEF BlocksInv, IInv, EncryptReturns
<1>6. message # <<>> => DecryptedInv'
  BY <1>2, <1>5 DEF BlocksInv, DecryptedInv
<1> QED
  BY <1>1, <1>2, <1>4, <1>6 DEF BlocksInv

LEMMA DivType ==
  ASSUME NEW a \in Nat, NEW w \in Nat \ {0}
  PROVE  a \div w \in Nat
  OBVIOUS

LEMMA DecryptedType ==
  ASSUME IInv, NEW c \in Nat
  PROVE  DecryptedOctets(c, key.d, key.n) \in Seq(Nat)
<1> DEFINE p == Power(c, key.d, key.n)
<1>1. p \in Nat
  BY KeyType, PowerBelow
<1> HIDE DEF p
<1>2. ASSUME NEW i \in 1..Size
      PROVE  (p \div Levels^(i - 1)) % Levels \in Nat
  <2> DEFINE k == i - 1
             x == Levels^k
  <2>1. k \in 0..MaxAmount
    BY KeyType, LevelsType
  <2> HIDE DEF k
  <2>2. x \in Nat \ {0}
    BY <2>1, LevelsPowers
  <2> HIDE DEF x
  <2>3. p \div x \in Nat
    BY <1>1, <2>2, DivType
  <2>4. Levels \in Nat \ {0}
    BY LevelsType
  <2>5. (p \div x) % Levels \in Nat
    BY <2>3, <2>4, RemainderType
  <2> QED
    BY <2>5 DEF x, k
<1>3. Size \in Nat
  BY KeyType
<1>4. [i \in 1..Size |-> (p \div Levels^(i - 1)) % Levels] \in Seq(Nat)
  BY <1>2, <1>3
<1> QED
  BY <1>4 DEF DecryptedOctets, Octets, Size, p

LEMMA DecryptBlockKeeps == BlocksInv /\ DecryptBlock => BlocksInv'
<1> SUFFICES ASSUME BlocksInv, DecryptBlock PROVE BlocksInv'
  OBVIOUS
<1>1. IInv'
  BY NextIInv DEF BlocksInv, RsaNext
<1>2. UNCHANGED <<pc, key, message, msg_i, encrypted>> /\ pc = "decrypt" /\ done' = done + 1
  BY DEF DecryptBlock
<1> SUFFICES ASSUME message # <<>> PROVE EncryptedInv' /\ DecryptedInv'
  BY <1>1, <1>2 DEF BlocksInv
<1>3. Size' = Size /\ \A b : Turn(b)' = Turn(b)
  BY <1>2, TurnsStay
<1>4. EncryptedInv'
  BY <1>2, <1>3 DEF BlocksInv, EncryptedInv
<1> DEFINE D(b) == DecryptedOctets(encrypted[b], key.d, key.n)
           q == [b \in 1..done |-> D(b)]
           r == D(done + 1)
<1>5. /\ ret = FlattenSeq(q) /\ ret' = ret \o r
      /\ done \in Nat /\ done + 1 \in 0..Len(encrypted) /\ encrypted \in Seq(Nat)
  BY DEF BlocksInv, DecryptedInv, EncryptedInv, DecryptBlock
<1>6. \A b \in 1..(done + 1) : D(b) \in Seq(Nat)
  <2> SUFFICES ASSUME NEW b \in 1..(done + 1) PROVE D(b) \in Seq(Nat)
    OBVIOUS
  <2>1. encrypted[b] \in Nat
    BY <1>5
  <2> QED
    BY <2>1, DecryptedType DEF BlocksInv
<1> HIDE DEF D
<1>7. q \in Seq(Seq(Nat)) /\ r \in Seq(Nat)
  BY <1>5, <1>6
<1>8. Append(q, r) = [b \in 1..(done + 1) |-> D(b)]
  BY <1>5, <1>7
<1> HIDE DEF q, r
<1>9. Taking!FlattenSeq(Append(q, r)) = Taking!FlattenSeq(q) \o r
  BY <1>7, Taking!FlattenAppend
<1>10. \A s : Taking!FlattenSeq(s) = FlattenSeq(s)
  BY DEF Taking!FlattenSeq, FlattenSeq
<1>11. ret' = FlattenSeq([b \in 1..(done + 1) |-> D(b)])
  BY <1>5, <1>8, <1>9, <1>10
<1>12. DecryptedInv'
  BY <1>2, <1>5, <1>11 DEF BlocksInv, DecryptedInv, D
<1> QED
  BY <1>4, <1>12

\* What was encrypted is below the modulus, so that decrypt() takes it
\* (rsa.cpp:14-17).
LEMMA NoDecryptAbort ==
  ASSUME BlocksInv, message # <<>>, pc = "decrypt", done < Len(encrypted)
  PROVE  encrypted[done + 1] < key.n
<1> DEFINE b == done + 1
<1>1. /\ b \in 1..Len(encrypted) /\ encrypted[b] = Power(Number(Turn(b)), key.e, key.n)
      /\ b \in Nat \ {0} /\ Len(encrypted) \in Nat
      /\ (Len(encrypted) - 1) * Size < Len(message)
      /\ msg_i = Len(message)
  <2>1. done \in 0..Len(encrypted) /\ Len(encrypted) \in Nat
    BY DEF BlocksInv, DecryptedInv, EncryptedInv
  <2>2. b \in 1..Len(encrypted) /\ b \in Nat \ {0} /\ Len(encrypted) # 0
    BY <2>1
  <2> HIDE DEF b
  <2> QED
    BY <2>1, <2>2 DEF BlocksInv, DecryptedInv, EncryptedInv
<1> HIDE DEF b
<1>2. Size \in Nat /\ Len(message) \in Nat /\ Len(message) # 0
  BY KeyType DEF BlocksInv, IInv
<1>3. Size # 0
  <2> SUFFICES ASSUME Size = 0 PROVE FALSE
    OBVIOUS
  <2>1. Len(encrypted) * Size = 0
    BY <1>1
  <2>2. msg_i = Min({0, Len(message)})
    BY <2>1 DEF BlocksInv, EncryptedInv
  <2> QED
    BY <1>1, <1>2, <2>2, LesserOf
<1>4. (b - 1) * Size < Len(message)
  <2>1. (Len(encrypted) - b) * Size >= 0
    BY <1>1, <1>2
  <2>2. (Len(encrypted) - b) * Size = (Len(encrypted) - 1) * Size - (b - 1) * Size
    BY <1>1, <1>2
  <2>3. (Len(encrypted) - 1) * Size \in Int /\ (b - 1) * Size \in Int
    BY <1>1, <1>2
  <2> QED
    BY <1>1, <1>2, <2>1, <2>2, <2>3
<1>5. Power(Number(Turn(b)), key.e, key.n) < key.n
  BY <1>1, <1>3, <1>4, TurnFits DEF BlocksInv
<1> QED
  BY <1>1, <1>5 DEF b

LEMMA DecryptAbortsKeeps == BlocksInv /\ DecryptAborts => BlocksInv'
<1> SUFFICES ASSUME BlocksInv, DecryptAborts PROVE BlocksInv'
  OBVIOUS
<1>1. IInv'
  BY NextIInv DEF BlocksInv, RsaNext
<1>2. message = <<>>
  <2> SUFFICES ASSUME message # <<>> PROVE FALSE
    OBVIOUS
  <2>1. pc = "decrypt" /\ done < Len(encrypted) /\ encrypted[done + 1] >= key.n
    BY DEF DecryptAborts
  <2>2. encrypted[done + 1] < key.n
    BY <2>1, NoDecryptAbort
  <2>3. encrypted[done + 1] \in Nat /\ key.n \in Nat
    <3>1. done \in Nat /\ done + 1 \in 1..Len(encrypted) /\ encrypted \in Seq(Nat)
      BY <2>1 DEF BlocksInv, DecryptedInv, EncryptedInv
    <3> QED
      BY <3>1, KeyType DEF BlocksInv
  <2> QED
    BY <2>1, <2>2, <2>3
<1> QED
  BY <1>1, <1>2 DEF DecryptAborts, BlocksInv

LEMMA DecryptReturnsKeeps == BlocksInv /\ DecryptReturns => BlocksInv'
<1> SUFFICES ASSUME BlocksInv, DecryptReturns PROVE BlocksInv'
  OBVIOUS
<1>1. IInv'
  BY NextIInv DEF BlocksInv, RsaNext
<1>2. /\ UNCHANGED <<key, message, msg_i, encrypted, done, ret>>
      /\ pc = "decrypt" /\ pc' = "return" /\ done = Len(encrypted)
  BY DEF DecryptReturns
<1>3. Size' = Size /\ \A b : Turn(b)' = Turn(b)
  BY <1>2, TurnsStay
<1>4. message # <<>> => EncryptedInv'
  BY <1>2, <1>3 DEF BlocksInv, EncryptedInv
<1>5. message # <<>> => DecryptedInv'
  BY <1>2 DEF BlocksInv, DecryptedInv
<1> QED
  BY <1>1, <1>2, <1>4, <1>5 DEF BlocksInv

LEMMA NextBlocks == BlocksInv /\ [RsaNext]_rsaVars => BlocksInv'
<1>1. BlocksInv /\ UNCHANGED rsaVars => BlocksInv'
  <2> SUFFICES ASSUME BlocksInv, UNCHANGED rsaVars PROVE BlocksInv'
    OBVIOUS
  <2>1. IInv' /\ Size' = Size /\ \A b : Turn(b)' = Turn(b)
    BY NextIInv, TurnsStay DEF BlocksInv, rsaVars
  <2> QED
    BY <2>1 DEF rsaVars, BlocksInv, EncryptedInv, DecryptedInv
<1> QED
  BY <1>1, EncryptBlockKeeps, EncryptReturnsKeeps, DecryptBlockKeeps,
     DecryptAbortsKeeps, DecryptReturnsKeeps
  DEF RsaNext, Finished

LEMMA BlocksAlways == RsaSpec => []BlocksInv
  BY InitBlocks, NextBlocks, PTL DEF RsaSpec

\* A message can always be encrypted, and what comes out decrypted, with every key
\* whose modulus is not zero: no block reaches the modulus (rsa.cpp:6-9, 14-17,
\* 24-32, 44-46).
THEOREM BlocksFit == RsaSpec => []BlocksFitModulus
<1>1. BlocksInv => BlocksFitModulus
  BY DEF BlocksInv, DecryptedInv, BlocksFitModulus
<1> QED
  BY <1>1, BlocksAlways, PTL

\* A block comes back as it was, with zeros behind its octets.
LEMMA TurnComesBack ==
  ASSUME BlocksInv, message # <<>>, NEW b \in 1..Len(encrypted)
  PROVE  DecryptedOctets(encrypted[b], key.d, key.n) =
           [i \in 1..Size |-> IF From(b) + i <= Upto(b) THEN message[From(b) + i] ELSE 0]
<1> DEFINE t == Turn(b)
           N == Number(t)
<1>1. /\ b \in Nat \ {0} /\ Len(encrypted) \in Nat /\ Size \in Nat
      /\ Len(message) \in Nat /\ (Len(encrypted) - 1) * Size < Len(message)
  BY KeyType, SMTT(30) DEF BlocksInv, EncryptedInv, IInv
<1>2. (b - 1) * Size < Len(message)
  <2>1. (Len(encrypted) - b) * Size >= 0
    BY <1>1
  <2>2. (Len(encrypted) - b) * Size = (Len(encrypted) - 1) * Size - (b - 1) * Size
    BY <1>1
  <2>3. (Len(encrypted) - 1) * Size \in Int /\ (b - 1) * Size \in Int
    BY <1>1
  <2> QED
    BY <1>1, <2>1, <2>2, <2>3
<1>3. N \in 0..(key.n - 1)
  BY <1>1, <1>2, TurnFits DEF BlocksInv
<1>4. encrypted[b] = Power(N, key.e, key.n)
  BY DEF BlocksInv, EncryptedInv
<1>5. Power(encrypted[b], key.d, key.n) = N
  <2> HIDE DEF N
  <2> QED
    BY <1>3, <1>4, KeyType DEF BlocksInv
<1>6. DecryptedOctets(encrypted[b], key.d, key.n) = Octets(N, Size)
  BY <1>5 DEF DecryptedOctets, Size
<1> DEFINE f == From(b)
           u == Upto(b)
<1>7. /\ f \in Nat /\ u \in Nat /\ f <= u /\ u - f <= Size
      /\ t \in Seq(Octet) /\ Len(t) = u - f
      /\ \A i \in 1..(u - f) : t[i] = message[f + i]
  BY <1>1, <1>2, TurnOctets DEF BlocksInv
<1>8. Size \in 0..MaxAmount
  BY KeyType DEF BlocksInv
<1> HIDE DEF t, f, u
<1>9. Octets(N, Size) = [i \in 1..Size |-> IF i <= Len(t) THEN t[i] ELSE 0]
  BY <1>7, <1>8, OctetsBack
<1>10. ASSUME NEW i \in 1..Size
       PROVE  (IF i <= Len(t) THEN t[i] ELSE 0) = IF f + i <= u THEN message[f + i] ELSE 0
  <2>1. i <= Len(t) <=> f + i <= u
    BY <1>1, <1>7
  <2>2. i <= Len(t) => i \in 1..(u - f)
    BY <1>1, <1>7
  <2> QED
    BY <1>7, <2>1, <2>2
<1>11. [i \in 1..Size |-> IF i <= Len(t) THEN t[i] ELSE 0]
         = [i \in 1..Size |-> IF f + i <= u THEN message[f + i] ELSE 0]
  BY <1>10
<1> QED
  BY <1>6, <1>9, <1>11 DEF f, u

\* With every key whose exponents undo each other decrypt() returns the message:
\* its blocks from the end to the head, each in the order of the message, the head
\* filled up with zeros behind its octets (rsa.cpp:37-50, 67-81).
THEOREM BlocksReturned == RsaSpec => []BlocksFromTheEnd
<1>1. BlocksInv => BlocksFromTheEnd
  <2> SUFFICES ASSUME BlocksInv, pc = "return", message # <<>>
               PROVE  BlocksFromTheEnd
    BY DEF BlocksFromTheEnd
  <2> DEFINE m == Len(encrypted)
             L == Len(message)
             S == Size
             p == (m - 1) * S
             q == m * S
             Back(b) == DecryptedOctets(encrypted[b], key.d, key.n)
             FilledUp(b) == [i \in 1..S |-> IF From(b) + i <= Upto(b)
                                          THEN message[From(b) + i] ELSE 0]
  <2>1. /\ ret = FlattenSeq([b \in 1..m |-> Back(b)])
        /\ m \in Nat /\ L \in Nat /\ L # 0 /\ S \in Nat
        /\ L = Min({q, L}) /\ (m # 0 => p < L)
    <3>1. EncryptedInv /\ DecryptedInv /\ IInv
      BY DEF BlocksInv
    <3>2. S \in Nat /\ L \in Nat /\ L # 0
      BY <3>1, KeyType DEF IInv
    <3>3. m \in Nat /\ msg_i = Min({q, L}) /\ (m # 0 => p < L)
      BY <3>1 DEF EncryptedInv
    <3>4. ret = FlattenSeq([b \in 1..done |-> Back(b)]) /\ done = m /\ msg_i = L
      <4> HIDE DEF m
      <4> QED
        BY <3>1 DEF DecryptedInv, m
    <3> HIDE DEF m, L, S, p, q, Back
    <3> QED
      BY <3>2, <3>3, <3>4
  <2>2. \A b \in 1..m : Back(b) = FilledUp(b)
    BY TurnComesBack
  <2>3. ret = FlattenSeq([b \in 1..m |-> FilledUp(b)])
    <3> HIDE DEF Back, FilledUp, m
    <3>1. [b \in 1..m |-> Back(b)] = [b \in 1..m |-> FilledUp(b)]
      BY <2>2
    <3> QED
      BY <2>1, <3>1
  <2>4. (L + S - 1) \div S = m
    <3> HIDE DEF m, L, S
    <3>1. p \in Int /\ q \in Int /\ q = p + S /\ q = S * m
      BY <2>1
    <3> HIDE DEF p, q
    <3>2. q >= L
      BY <2>1, <3>1, LesserOf
    <3>3. m # 0
      <4> SUFFICES ASSUME m = 0 PROVE FALSE
        OBVIOUS
      <4>1. q = 0
        BY <2>1, <3>1
      <4> QED
        BY <2>1, <3>2, <4>1
    <3>4. S # 0
      BY <2>1, <3>1, <3>2, <3>3
    <3> DEFINE r == L - 1 - p
    <3>5. r \in 0..(S - 1)
      BY <2>1, <3>1, <3>2, <3>3
    <3>6. L + S - 1 = q + r
      BY <2>1, <3>1
    <3> HIDE DEF r
    <3>7. S \in Nat \ {0} /\ m \in Int
      BY <2>1, <3>4
    <3>8. (S * m + r) \div S = m
      BY <3>5, <3>7, Quotient
    <3> QED
      BY <3>1, <3>6, <3>8
  <2> HIDE DEF m
  <2> QED
    BY <2>3, <2>4 DEF BlocksFromTheEnd, Size, From, Upto
<1> QED
  BY <1>1, BlocksAlways, PTL
-----------------------------------------------------------------------------
(* verify_cert_chain(). *)

Counters ==
  /\ certs \in Seq(Certs)
  /\ oi \in 0..Len(certs)
  /\ verdict \in {"none", "true", "false", "abort"}

\* A refusal is about a certificate there is; an approval leaves none.
Decided ==
  /\ verdict \in {"false", "abort"} => current \in DOMAIN certs
  /\ verdict = "true" => current = 0

\* What the loop asks of certificate k.
OpensNext(k) ==
  Opens(certs[k], certs[IF k = Len(certs) THEN k ELSE k + 1].public_key)

OpenedSuffix ==
  /\ \A k \in (current + 1)..Len(certs) : OpensNext(k)
  /\ verdict \in {"false", "abort"} => ~OpensNext(current)

ChainInv == Counters /\ Decided /\ OpenedSuffix

LEMMA InitChain == Init => ChainInv
BY ChainsAssumption DEF Init, ChainInv, Counters, Decided, OpenedSuffix, current

\* What a certificate is checked against is the key OpensNext names.
LEMMA OpensIffOpensNext ==
  ASSUME Counters, Pending
  PROVE  /\ current \in DOMAIN certs
         /\ Opens(certs[current], CaKey) <=> OpensNext(current)
<1>1. current \in DOMAIN certs
  BY DEF Counters, Pending, current
<1>2. CaKey = certs[IF current = Len(certs) THEN current ELSE current + 1].public_key
  BY DEF CaKey
<1> QED
  BY <1>1, <1>2 DEF OpensNext

LEMMA NextChain == ChainInv /\ [Next]_vars => ChainInv'
<1> SUFFICES ASSUME ChainInv, [Next]_vars PROVE ChainInv'
  OBVIOUS
<1> USE DEF ChainInv
<1>1. CASE MalformedSignature \/ HashMismatch
  <2>1. Pending /\ ~Opens(certs[current], CaKey)
    BY <1>1 DEF MalformedSignature, HashMismatch, Opens
  <2>2. verdict' \in {"false", "abort"} /\ UNCHANGED <<certs, oi>>
    BY <1>1 DEF MalformedSignature, HashMismatch, Verdict
  <2>3. current \in DOMAIN certs /\ ~OpensNext(current)
    BY <2>1, OpensIffOpensNext
  <2> QED
    BY <2>2, <2>3 DEF Counters, Decided, OpenedSuffix, current, OpensNext
<1>2. CASE Verified
  <2>1. Pending /\ Opens(certs[current], CaKey) /\ oi' = oi + 1 /\ UNCHANGED <<certs, verdict>>
    BY <1>2 DEF Verified
  <2>2. current \in DOMAIN certs /\ OpensNext(current)
    BY <2>1, OpensIffOpensNext
  <2>3. Counters'
    BY <2>1 DEF Counters, Pending, current
  <2>4. current' = current - 1 /\ verdict' = "none"
    BY <2>1 DEF Counters, Pending, current
  <2>5. \A k \in (current' + 1)..Len(certs) : OpensNext(k)
    BY <2>2, <2>4 DEF OpenedSuffix, Counters, current
  <2> QED
    BY <2>1, <2>3, <2>4, <2>5 DEF Decided, OpenedSuffix, OpensNext
<1>3. CASE AllVerified
  BY <1>3 DEF AllVerified, Verdict, Counters, Decided, OpenedSuffix, current, OpensNext
<1>4. CASE UNCHANGED vars
  BY <1>4 DEF vars, Counters, Decided, OpenedSuffix, current, OpensNext
<1> QED
  BY <1>1, <1>2, <1>3, <1>4 DEF Next, Step, Terminated

LEMMA ChainAlways == Spec => []ChainInv
BY InitChain, NextChain, PTL DEF Spec

\* Whatever its length and the octets of its signatures, a chain is accepted exactly
\* if each of them opens under the key of the certificate behind it, the last one
\* under its own (http.cpp:85-121).
AcceptedIffOpens ==
  verdict # "none" => (verdict = "true" <=> \A k \in DOMAIN certs : OpensNext(k))

THEOREM AcceptedExactlyIfOpens == Spec => []AcceptedIffOpens
<1>1. ChainInv => AcceptedIffOpens
  BY DEF ChainInv, Counters, Decided, OpenedSuffix, AcceptedIffOpens, current
<1> QED
  BY <1>1, ChainAlways, PTL

LEMMA OpensIffSignedByNext ==
  ASSUME Counters, SignaturesBind, NEW k \in DOMAIN certs
  PROVE  OpensNext(k) <=> SignedByNext(k)
<1> DEFINE j == IF k = Len(certs) THEN k ELSE k + 1
<1>1. k \in DOMAIN certs /\ j \in DOMAIN certs
  BY DEF Counters
<1>2. certs[k] \in Range(certs) /\ certs[j] \in Range(certs)
  BY <1>1 DEF Range
<1> QED
  BY <1>2 DEF OpensNext, SignedByNext, SignaturesBind

\* If the owners of the keys signed what opens under them, the certificates verified
\* are at any time those at the end of the chain, each signed by the next one, and a
\* refusal is about the first one that is not (http.cpp:86-87, 114-118).
THEOREM SuffixSigned == Spec /\ []SignaturesBind => []VerifiedSuffix
<1>1. ChainInv /\ SignaturesBind => VerifiedSuffix
  <2> SUFFICES ASSUME ChainInv, SignaturesBind PROVE VerifiedSuffix
    OBVIOUS
  <2>1. \A k \in DOMAIN certs : OpensNext(k) <=> SignedByNext(k)
    BY OpensIffSignedByNext DEF ChainInv
  <2>2. \A k \in (current + 1)..Len(certs) : k \in DOMAIN certs
    BY DEF ChainInv, Counters, current
  <2> QED
    BY <2>1, <2>2 DEF ChainInv, Decided, OpenedSuffix, VerifiedSuffix
<1> QED
  BY <1>1, ChainAlways, PTL

\* If so, a chain is accepted exactly if every certificate is signed by the next one
\* and the last one by itself (http.cpp:85-121).
THEOREM AcceptedExactlyIfSigned == Spec /\ []SignaturesBind => []AcceptedIffSigned
<1>1. ChainInv /\ SignaturesBind /\ AcceptedIffOpens => AcceptedIffSigned
  BY OpensIffSignedByNext DEF ChainInv, AcceptedIffOpens, AcceptedIffSigned
<1> QED
  BY <1>1, ChainAlways, AcceptedExactlyIfOpens, PTL
-----------------------------------------------------------------------------
(* Signatures that are made as PKCS #1 prescribes. *)

\* The hash of a certificate and its digest info behind a padding without zero
\* octets.  The first octet is 0 and left out, as the number stays the same.
PaddedHash(padding, cert) ==
  << 1 >> \o padding \o << 0 >> \o DigestInfo \o Hash(cert.raw_bytes)

\* The signature is the number of these octets to the private exponent d, which
\* the public one undoes.
SignedAsPrescribed(cert, pub) ==
  \E d \in Nat, padding \in Seq(1..(Levels - 1)) :
    LET block == PaddedHash(padding, cert) IN
      /\ DigestInfo \in Seq(Octet) /\ Hash(cert.raw_bytes) \in Seq(Octet)
      /\ Len(block) = BlockAmount(pub.n)
      /\ \A m \in 0..(pub.n - 1) : Power(Power(m, d, pub.n), pub.e, pub.n) = m
      /\ cert.signature = Power(Number(Reverse(block)), d, pub.n)

LEMMA ReverseType ==
  ASSUME NEW octets \in Seq(Octet)
  PROVE  /\ Reverse(octets) \in Seq(Octet) /\ Len(Reverse(octets)) = Len(octets)
         /\ \A i \in 1..Len(octets) : Reverse(octets)[i] = octets[Len(octets) - i + 1]
         /\ Reverse(Reverse(octets)) = octets
<1> DEFINE n == Len(octets)
           r == [i \in 1..n |-> octets[n - i + 1]]
<1>1. n \in Nat /\ octets \in [1..n -> Octet] /\ DOMAIN octets = 1..n
  BY LenProperties
<1>2. \A i \in 1..n : n - i + 1 \in 1..n /\ octets[n - i + 1] \in Octet /\ n - (n - i + 1) + 1 = i
  BY <1>1
<1>3. Reverse(octets) = r
  BY <1>1 DEF Reverse
<1>4. r \in Seq(Octet) /\ Len(r) = n
  BY <1>1, <1>2
<1>5. Reverse(r) = [i \in 1..n |-> r[n - i + 1]]
  BY <1>4 DEF Reverse
<1>6. \A i \in 1..n : r[n - i + 1] = octets[i]
  BY <1>2
<1>7. Reverse(r) = octets
  <2> HIDE DEF n, r
  <2>1. [i \in 1..n |-> r[n - i + 1]] = [i \in 1..n |-> octets[i]]
    BY <1>6
  <2> QED
    BY <1>1, <1>5, <2>1
<1> QED
  BY <1>3, <1>4, <1>7

\* What the public exponent makes of the number of the octets are these octets.
LEMMA OpenedIsBlock ==
  ASSUME NEW cert, NEW pub, pub.n \in Nat \ {0}, NEW d \in Nat, pub.e \in Nat,
         NEW block \in Seq(Octet), block # <<>>, Len(block) = BlockAmount(pub.n),
         \A m \in 0..(pub.n - 1) : Power(Power(m, d, pub.n), pub.e, pub.n) = m,
         cert.signature = Power(Number(Reverse(block)), d, pub.n)
  PROVE  SignatureFits(cert, pub) /\ Decrypted(cert, pub) = block
<1> DEFINE n == pub.n
           a == Len(block)
           back == Reverse(block)
           m == Number(Reverse(block))
<1>1. a \in 0..MaxAmount /\ a \in Nat \ {0} /\ Levels^a <= n /\ n \in Nat \ {0}
      /\ a = BlockAmount(n)
  BY BlockFits
<1>2. back \in Seq(Octet) /\ Len(back) = a /\ Reverse(back) = block
  BY ReverseType
<1>3. m \in 0..(Levels^a - 1)
  BY <1>1, <1>2, NumberDigits
<1>4. Levels^a \in Nat \ {0}
  BY <1>1, LevelsPowers
<1>5. m \in 0..(n - 1) /\ m \in Nat
  <2> DEFINE p == Levels^a
  <2>1. p \in Nat \ {0} /\ p <= n /\ n \in Nat /\ m \in 0..(p - 1)
    BY <1>1, <1>3, <1>4
  <2> HIDE DEF p, n, m
  <2> QED
    BY <2>1
<1>6. n > 1
  BY <1>1, BlockBelow
<1>7. cert.signature < n
  <2> HIDE DEF n, m
  <2>1. Power(m, d, n) < n
    BY <1>1, <1>5, <1>6, PowerBelow
  <2> QED
    BY <2>1 DEF n, m
<1>8. Power(cert.signature, pub.e, n) = m
  BY <1>5
<1>9. DecryptedOctets(cert.signature, pub.e, pub.n) = Octets(m, a)
  BY <1>1, <1>8 DEF DecryptedOctets
<1>10. Octets(m, a) = [i \in 1..a |-> IF i <= Len(back) THEN back[i] ELSE 0]
  BY <1>1, <1>2, OctetsBack
<1>11. [i \in 1..a |-> IF i <= Len(back) THEN back[i] ELSE 0] = back
  <2>1. back \in [1..a -> Octet]
    BY <1>2, LenProperties
  <2>2. \A i \in 1..a : i <= Len(back)
    BY <1>1, <1>2
  <2> HIDE DEF back, a
  <2>3. [i \in 1..a |-> IF i <= Len(back) THEN back[i] ELSE 0] = [i \in 1..a |-> back[i]]
    BY <2>2
  <2> QED
    BY <2>1, <2>3
<1> HIDE DEF m, a, back, n
<1>12. DecryptedOctets(cert.signature, pub.e, pub.n) = back
  BY <1>9, <1>10, <1>11
<1> QED
  BY <1>2, <1>7, <1>12 DEF SignatureFits, Decrypted, n

LEMMA Behind ==
  ASSUME NEW S, NEW f \in Seq(S), NEW g \in Seq(S)
  PROVE  /\ f \o g \in Seq(S) /\ Len(f \o g) = Len(f) + Len(g)
         /\ Len(f) \in Nat /\ Len(g) \in Nat
         /\ SubSeq(f \o g, Len(f) + 1, Len(f \o g)) = g
         /\ SubSeq(f \o g, 1, Len(f)) = f
OBVIOUS

LEMMA InFront ==
  ASSUME NEW S, NEW f \in Seq(S), NEW g \in Seq(S), NEW j \in 1..Len(f)
  PROVE  (f \o g)[j] = f[j]
OBVIOUS

LEMMA Associates ==
  ASSUME NEW S, NEW f \in Seq(S), NEW g \in Seq(S), NEW h \in Seq(S)
  PROVE  (f \o g) \o h = f \o (g \o h)
OBVIOUS

\* Octets of which only the first may be 0, a zero octet, the digest info and further
\* octets: the padding ends where it should, and these further ones are left.
LEMMA ChopsToRest ==
  ASSUME NEW head \in Seq(Octet), head # <<>>, \A j \in 2..Len(head) : head[j] # 0,
         DigestInfo \in Seq(Octet), NEW hash \in Seq(Octet),
         NEW block, block = head \o << 0 >> \o DigestInfo \o hash
  PROVE  block \in Seq(Octet) /\ block # <<>> /\ Padded(block) /\ Chop(block) = hash
<1> DEFINE info == DigestInfo
           front == head \o << 0 >>
           p == Len(head) - 1
<1>1. 0 \in Octet
  BY LevelsType DEF Octet
<1>2. p \in Nat /\ Len(head) = p + 1
  OBVIOUS
<1>3. /\ front \in Seq(Octet) /\ Len(front) = p + 2 /\ front[p + 2] = 0
      /\ \A j \in 2..(p + 1) : front[j] # 0
  <2>1. front \in Seq(Octet) /\ Len(front) = p + 2 /\ front[p + 2] = 0
    BY <1>1, <1>2
  <2>2. ASSUME NEW j \in 2..(p + 1) PROVE front[j] # 0
    <3>1. j \in 2..Len(head) /\ front[j] = head[j]
      BY <1>2
    <3> QED
      BY <3>1
  <2> QED
    BY <2>1, <2>2
<1> HIDE DEF front, p
<1>4. block = (front \o info) \o hash
  BY DEF front
<1> HIDE DEF info
<1>14. info \in Seq(Octet) /\ hash \in Seq(Octet)
  BY DEF info
<1>15. block = front \o (info \o hash) /\ info \o hash \in Seq(Octet)
  <2>1. front \in Seq(Octet)
    BY <1>3
  <2>2. (front \o info) \o hash = front \o (info \o hash)
    BY ONLY <1>14, <2>1, Associates
  <2>3. info \o hash \in Seq(Octet)
    BY ONLY <1>14, Behind
  <2> QED
    BY <1>4, <2>2, <2>3
<1>16. front \in Seq(Octet) /\ Len(front) = p + 2
  BY <1>3
<1>5. /\ block \in Seq(Octet) /\ block # <<>>
      /\ Len(block) = p + 2 + Len(info) + Len(hash) /\ Len(info) \in Nat /\ Len(hash) \in Nat
      /\ \A j \in 1..(p + 2) : block[j] = front[j]
  <2>1. /\ block \in Seq(Octet) /\ Len(block) = p + 2 + Len(info \o hash)
        /\ \A j \in 1..(p + 2) : block[j] = front[j]
    <3> DEFINE rest == info \o hash
    <3>1. block = front \o rest /\ rest \in Seq(Octet)
      BY <1>15
    <3> HIDE DEF rest
    <3>2. /\ front \o rest \in Seq(Octet) /\ Len(front \o rest) = Len(front) + Len(rest)
      BY ONLY <1>16, <3>1, Behind
    <3>3. \A j \in 1..Len(front) : (front \o rest)[j] = front[j]
      BY ONLY <1>16, <3>1, InFront
    <3> QED
      BY <1>16, <3>1, <3>2, <3>3 DEF rest
  <2>2. /\ Len(info \o hash) = Len(info) + Len(hash)
        /\ Len(info) \in Nat /\ Len(hash) \in Nat
    BY <1>14, Behind
  <2>3. Len(block) > 0
    BY <1>2, <2>1, <2>2
  <2> QED
    BY <1>2, <2>1, <2>2, <2>3
<1>6. /\ p + 2 \in PaddingEnds(block)
      /\ \A j \in PaddingEnds(block) : p + 2 <= j
  <2>1. p + 2 \in 2..Len(block) /\ block[p + 2] = 0
    BY <1>2, <1>3, <1>5
  <2>2. ASSUME NEW j \in 2..Len(block), block[j] = 0 PROVE p + 2 <= j
    <3>1. CASE j \in 2..(p + 1)
      <4>1. j \in 1..(p + 2)
        BY <1>2, <3>1
      <4> QED
        BY <1>3, <1>5, <2>2, <3>1, <4>1
    <3>2. CASE j \notin 2..(p + 1)
      BY <1>2, <1>5, <3>2
    <3> QED
      BY <3>1, <3>2
  <2> QED
    BY <2>1, <2>2 DEF PaddingEnds
<1>7. Min(PaddingEnds(block)) = p + 2
  <2>1. \A j \in PaddingEnds(block) : j \in Nat
    BY <1>5 DEF PaddingEnds
  <2> DEFINE S == PaddingEnds(block)
  <2>2. p + 2 \in S /\ \A j \in S : p + 2 <= j /\ j \in Nat
    BY <1>6, <2>1
  <2> HIDE DEF S
  <2>3. Min(S) \in S /\ \A j \in S : Min(S) <= j
    BY <2>2 DEF Min
  <2>4. Min(S) = p + 2
    BY <1>2, <2>2, <2>3
  <2> QED
    BY <2>4 DEF S
<1>8. SubSeq(block, p + 3, Len(block)) = info \o hash
  <2>1. p + 3 = Len(front) + 1
    BY <1>2, <1>16
  <2> DEFINE rest == info \o hash
  <2>2. block = front \o rest /\ rest \in Seq(Octet)
    BY <1>15
  <2> HIDE DEF rest
  <2>3. SubSeq(front \o rest, Len(front) + 1, Len(front \o rest)) = rest
    BY ONLY <1>16, <2>2, Behind
  <2> QED
    BY <2>1, <2>2, <2>3 DEF rest
<1>9. SubSeq(block, p + 2 + Len(info) + 1, Len(block)) = hash
  <2> DEFINE first == front \o info
  <2>1. first \in Seq(Octet) /\ Len(first) = Len(front) + Len(info)
    BY ONLY <1>14, <1>16, Behind
  <2>2. block = first \o hash
    BY <1>4
  <2> HIDE DEF first
  <2>3. SubSeq(first \o hash, Len(first) + 1, Len(first \o hash)) = hash
    BY ONLY <1>14, <2>1, Behind
  <2> QED
    BY <1>16, <2>1, <2>2, <2>3
<1>10. IsPrefix(info, info \o hash)
  <2>1. /\ SubSeq(info \o hash, 1, Len(info)) = info
        /\ Len(info \o hash) = Len(info) + Len(hash) /\ Len(info) \in Nat /\ Len(hash) \in Nat
    BY <1>14, Behind
  <2>2. SubSeq(info, 1, Len(info)) = info /\ Len(info) <= Len(info \o hash)
    BY <1>14, <2>1
  <2> QED
    BY <2>1, <2>2 DEF IsPrefix
<1>11. p + 2 + 1 = p + 3
  BY <1>2
<1>12. Padded(block)
  BY <1>6, <1>7, <1>8, <1>10, <1>11 DEF Padded, info
<1>13. Chop(block) = hash
  BY <1>7, <1>9 DEF Chop, info
<1> QED
  BY <1>5, <1>12, <1>13

\* So it is for a block that is made as it should be, and what is left is the hash.
LEMMA BlockIsPadded ==
  ASSUME NEW padding \in Seq(1..(Levels - 1)), NEW cert,
         DigestInfo \in Seq(Octet), Hash(cert.raw_bytes) \in Seq(Octet),
         NEW block, block = PaddedHash(padding, cert)
  PROVE  /\ block \in Seq(Octet) /\ block # <<>>
         /\ Padded(block) /\ Chop(block) = Hash(cert.raw_bytes)
<1> DEFINE head == << 1 >> \o padding
<1>1. 1 \in Octet /\ \A o \in 1..(Levels - 1) : o \in Octet /\ o # 0
  BY LevelsType DEF Octet
<1>2. padding \in Seq(Octet) /\ \A j \in 1..Len(padding) : padding[j] # 0
  <2> DEFINE S == 1..(Levels - 1)
  <2>1. S \subseteq Octet /\ 0 \notin S
    BY <1>1
  <2> HIDE DEF S
  <2>2. padding \in Seq(S)
    BY DEF S
  <2>3. padding \in [1..Len(padding) -> S]
    BY <2>2, LenProperties
  <2> QED
    BY <2>1, <2>2, <2>3
<1>3. head \in Seq(Octet) /\ head # <<>> /\ \A j \in 2..Len(head) : head[j] # 0
  <2>1. head \in Seq(Octet) /\ head # <<>> /\ Len(head) = Len(padding) + 1
    BY <1>1, <1>2
  <2>2. ASSUME NEW j \in 2..Len(head) PROVE head[j] # 0
    <3>1. j - 1 \in 1..Len(padding) /\ head[j] = padding[j - 1]
      BY <1>2, <2>1
    <3> QED
      BY <1>2, <3>1
  <2> QED
    BY <2>1, <2>2
<1>4. block = head \o << 0 >> \o DigestInfo \o Hash(cert.raw_bytes)
  BY DEF PaddedHash
<1> HIDE DEF head
<1> QED
  BY <1>3, <1>4, ChopsToRest

LEMMA MinOfNaturals ==
  ASSUME NEW S \in SUBSET Nat, S # {}
  PROVE  Min(S) \in S /\ \A k \in S : Min(S) <= k
<1>1. \E x \in S : \A y \in S : x <= y
  BY Taking!Least
<1> QED
  BY <1>1 DEF Min

\* Whatever the block: if it is padded, it is made up so, and of what the chopping
\* leaves.
LEMMA PaddedIsMadeUp ==
  ASSUME NEW data \in Seq(Octet), DigestInfo \in Seq(Octet), Padded(data)
  PROVE  \E head \in Seq(Octet) :
           /\ head # <<>> /\ \A j \in 2..Len(head) : head[j] # 0
           /\ Chop(data) \in Seq(Octet)
           /\ data = head \o << 0 >> \o DigestInfo \o Chop(data)
<1> DEFINE j == Min(PaddingEnds(data))
           n == Len(data)
           m == Len(DigestInfo)
           behind == SubSeq(data, j + 1, n)
           head == SubSeq(data, 1, j - 1)
           rest == SubSeq(data, j + m + 1, n)
<1>1. n \in Nat /\ m \in Nat
  OBVIOUS
<1>2. j \in 2..n /\ data[j] = 0 /\ \A k \in 2..(j - 1) : data[k] # 0
  <2> DEFINE S == PaddingEnds(data)
  <2>1. S # {} /\ S \subseteq 2..n
    BY DEF Padded, PaddingEnds
  <2> HIDE DEF S
  <2>2. Min(S) \in S /\ \A k \in S : Min(S) <= k
    BY <1>1, <2>1, MinOfNaturals
  <2>3. j \in S /\ \A k \in S : j <= k
    BY <2>2 DEF S
  <2>4. j \in 2..n /\ data[j] = 0
    BY <2>3 DEF S, PaddingEnds
  <2>5. ASSUME NEW k \in 2..(j - 1), data[k] = 0 PROVE FALSE
    <3>1. k \in 2..n /\ k < j
      BY <1>1, <2>4
    <3>2. k \in S
      BY <2>5, <3>1 DEF S, PaddingEnds
    <3> QED
      BY <2>3, <2>4, <3>1, <3>2
  <2> QED
    BY <2>4, <2>5
<1>3. IsPrefix(DigestInfo, behind)
  BY DEF Padded
<1>4. Chop(data) = rest
  BY DEF Chop
<1> HIDE DEF j
<1>5. behind \in Seq(Octet) /\ Len(behind) = n - j /\ \A k \in 1..(n - j) : behind[k] = data[j + k]
  BY <1>1, <1>2
<1>6. m <= n - j /\ \A k \in 1..m : DigestInfo[k] = data[j + k]
  <2>1. m <= Len(behind) /\ SubSeq(DigestInfo, 1, m) = SubSeq(behind, 1, m)
    BY <1>3 DEF IsPrefix
  <2>2. ASSUME NEW k \in 1..m PROVE DigestInfo[k] = data[j + k]
    <3> HIDE DEF behind
    <3>1. SubSeq(DigestInfo, 1, m)[k] = DigestInfo[k]
      OBVIOUS
    <3>2. SubSeq(behind, 1, m)[k] = behind[k]
      BY <1>5, <2>1
    <3>3. k \in 1..(n - j)
      BY <1>1, <1>2, <1>5, <2>1
    <3> QED
      BY <1>5, <2>1, <3>1, <3>2, <3>3
  <2> QED
    BY <1>5, <2>1, <2>2
<1>7. /\ head \in Seq(Octet) /\ Len(head) = j - 1 /\ head # <<>>
      /\ \A k \in 1..(j - 1) : head[k] = data[k]
  <2>1. head \in Seq(Octet) /\ Len(head) = j - 1 /\ \A k \in 1..(j - 1) : head[k] = data[k]
    BY <1>1, <1>2
  <2> HIDE DEF head
  <2>2. Len(head) # 0
    BY <1>2, <2>1
  <2>3. head # <<>>
    BY <2>2
  <2> QED
    BY <2>1, <2>3
<1>8. /\ rest \in Seq(Octet) /\ Len(rest) = n - j - m
      /\ \A k \in 1..(n - j - m) : rest[k] = data[j + m + k]
  BY <1>1, <1>2, <1>6
<1> HIDE DEF head, rest, behind, n, m
<1>9. \A k \in 2..Len(head) : head[k] # 0
  <2>1. ASSUME NEW k \in 2..Len(head) PROVE head[k] # 0
    <3>1. k \in 2..(j - 1) /\ k \in 1..(j - 1)
      BY <1>2, <1>7
    <3> QED
      BY <1>2, <1>7, <3>1
  <2> QED
    BY <2>1
<1>10. data = head \o << 0 >> \o DigestInfo \o rest
  <2> DEFINE front == head \o << 0 >>
             first == front \o DigestInfo
             all == first \o rest
  <2>1. 0 \in Octet /\ << 0 >> \in Seq(Octet)
    BY LevelsType DEF Octet
  <2>2. front \in Seq(Octet) /\ Len(front) = j /\ \A k \in 1..j : front[k] = data[k]
    <3>1. front \in Seq(Octet) /\ Len(front) = j
      BY <1>2, <1>7, <2>1
    <3>2. ASSUME NEW k \in 1..j PROVE front[k] = data[k]
      <4>1. CASE k = j
        BY <1>2, <1>7, <4>1
      <4>2. CASE k # j
        <5>1. k \in 1..(j - 1) /\ k \in 1..Len(head)
          BY <1>2, <1>7, <4>2
        <5> QED
          BY <1>7, <5>1
      <4> QED
        BY <4>1, <4>2
    <3> QED
      BY <3>1, <3>2
  <2> HIDE DEF front
  <2>3. first \in Seq(Octet) /\ Len(first) = j + m /\ \A k \in 1..(j + m) : first[k] = data[k]
    <3>1. first \in Seq(Octet) /\ Len(first) = j + m
      BY <1>2, <2>2 DEF m
    <3>2. ASSUME NEW k \in 1..(j + m) PROVE first[k] = data[k]
      <4>1. CASE k \in 1..j
        BY <2>2, <4>1
      <4>2. CASE k \notin 1..j
        <5>1. k - j \in 1..m /\ j + (k - j) = k
          BY <1>1, <1>2, <4>2
        <5>2. first[k] = DigestInfo[k - j]
          BY <1>2, <2>2, <5>1 DEF m
        <5> QED
          BY <1>6, <5>1, <5>2
      <4> QED
        BY <4>1, <4>2
    <3> QED
      BY <3>1, <3>2
  <2> HIDE DEF first
  <2>4. all \in Seq(Octet) /\ Len(all) = n /\ \A k \in 1..n : all[k] = data[k]
    <3>0. all \in Seq(Octet) /\ Len(all) = Len(first) + Len(rest)
      BY <1>8, <2>3, Behind
    <3>1. all \in Seq(Octet) /\ Len(all) = n
      BY <1>1, <1>2, <1>6, <1>8, <2>3, <3>0
    <3>2. ASSUME NEW k \in 1..n PROVE all[k] = data[k]
      <4>1. CASE k \in 1..(j + m)
        BY <2>3, <4>1
      <4>2. CASE k \notin 1..(j + m)
        <5>1. k - (j + m) \in 1..(n - j - m) /\ j + m + (k - (j + m)) = k
          BY <1>1, <1>2, <4>2
        <5>2. all[k] = rest[k - (j + m)]
          BY <1>8, <2>3, <5>1
        <5> QED
          BY <1>8, <5>1, <5>2
      <4> QED
        BY <4>1, <4>2
    <3> QED
      BY <3>1, <3>2
  <2>5. Len(data) = n /\ data \in Seq(Octet)
    BY DEF n
  <2> HIDE DEF all
  <2>6. all = data
    BY <2>4, <2>5
  <2> QED
    BY <2>6 DEF all, first, front
<1> QED
  BY <1>4, <1>7, <1>8, <1>9, <1>10


\* A signature that is made as it should be opens: octets that are dropped, reversed,
\* padded and compared are those of the hash (rsa.cpp:53-82, certparser.cpp:14-32,
\* http.cpp:101-118).
THEOREM PrescribedOpens ==
  ASSUME NEW cert, NEW pub, pub.n \in Nat \ {0}, pub.e \in Nat, SignedAsPrescribed(cert, pub)
  PROVE  Opens(cert, pub)
<1>1. PICK d \in Nat, padding \in Seq(1..(Levels - 1)) :
             LET block == PaddedHash(padding, cert) IN
               /\ DigestInfo \in Seq(Octet) /\ Hash(cert.raw_bytes) \in Seq(Octet)
               /\ Len(block) = BlockAmount(pub.n)
               /\ \A m \in 0..(pub.n - 1) : Power(Power(m, d, pub.n), pub.e, pub.n) = m
               /\ cert.signature = Power(Number(Reverse(block)), d, pub.n)
  BY DEF SignedAsPrescribed
<1>2. PICK block : block = PaddedHash(padding, cert)
  OBVIOUS
<1>3. block \in Seq(Octet) /\ block # <<>> /\ Padded(block) /\ Chop(block) = Hash(cert.raw_bytes)
  BY <1>1, <1>2, BlockIsPadded
<1>4. SignatureFits(cert, pub) /\ Decrypted(cert, pub) = block
  BY <1>1, <1>2, <1>3, OpenedIsBlock
<1>5. Mismatches(Hash(cert.raw_bytes), Hash(cert.raw_bytes)) = {}
  <2> DEFINE hash == Hash(cert.raw_bytes)
  <2>1. \A p \in DOMAIN hash : ~(p > Len(hash))
    <3>1. DOMAIN hash = 1..Len(hash) /\ Len(hash) \in Nat
      BY <1>1
    <3> QED
      BY <3>1
  <2> QED
    BY <2>1 DEF Mismatches
<1> QED
  BY <1>3, <1>4, <1>5 DEF Opens, WellFormed, WrongOctets

LEMMA DecryptedOctetsType ==
  ASSUME NEW cert, NEW pub, cert.signature \in Nat, pub.n \in Nat \ {0}, pub.e \in Nat
  PROVE  Decrypted(cert, pub) \in Seq(Octet)
<1> DEFINE m == Power(cert.signature, pub.e, pub.n)
           a == BlockAmount(pub.n)
<1>1. m \in Nat /\ a \in 0..MaxAmount /\ a \in Nat
  <2>1. m \in Nat
    BY PowerBelow
  <2>2. a \in 0..MaxAmount
    BY BlockFits
  <2> QED
    BY <2>1, <2>2, LevelsType
<1> HIDE DEF m, a
<1>2. ASSUME NEW i \in 1..a PROVE (m \div Levels^(i - 1)) % Levels \in Octet
  <2>1. i - 1 \in 0..MaxAmount
    BY <1>1, LevelsType
  <2>2. Levels^(i - 1) \in Nat \ {0}
    BY <2>1, LevelsPowers
  <2> DEFINE q == m \div Levels^(i - 1)
  <2>3. q \in Nat
    BY <1>1, <2>2, DivType
  <2> HIDE DEF q
  <2>4. q % Levels \in 0..(Levels - 1)
    BY <2>3, LevelsType
  <2> QED
    BY <2>4 DEF q, Octet
<1>3. Octets(m, a) \in Seq(Octet)
  BY <1>1, <1>2 DEF Octets
<1>4. DecryptedOctets(cert.signature, pub.e, pub.n) \in Seq(Octet)
  BY <1>3 DEF DecryptedOctets, m, a
<1> QED
  BY <1>4, ReverseType DEF Decrypted

\* What opens, of all octets there are: what the public exponent makes of the
\* signature is some first octet, others that are not 0, a zero octet, the digest info
\* and a beginning of the hash, of any length.  So the padding may be anything, and
\* the hash may be missing (rsa.cpp:53-82, certparser.cpp:14-32, http.cpp:101-118).
THEOREM OpensExactlyIf ==
  ASSUME NEW cert, NEW pub, cert.signature \in Nat, pub.n \in Nat \ {0}, pub.e \in Nat,
         DigestInfo \in Seq(Octet), Hash(cert.raw_bytes) \in Seq(Octet)
  PROVE  Opens(cert, pub) <=>
           /\ cert.signature < pub.n
           /\ \E head, hash \in Seq(Octet) :
                /\ head # <<>> /\ \A j \in 2..Len(head) : head[j] # 0
                /\ Decrypted(cert, pub) = head \o << 0 >> \o DigestInfo \o hash
                /\ IsPrefix(hash, Hash(cert.raw_bytes))
<1> DEFINE full == Hash(cert.raw_bytes)
           data == Decrypted(cert, pub)
<1>1. data \in Seq(Octet)
  BY DecryptedOctetsType
<1>2. ASSUME NEW hash \in Seq(Octet)
      PROVE  Mismatches(hash, full) = {} <=> IsPrefix(hash, full)
  <2> HIDE DEF full
  <2>1. full \in Seq(Octet)
    BY DEF full
  <2>2. Len(hash) \in Nat /\ Len(full) \in Nat /\ DOMAIN hash = 1..Len(hash)
    BY <2>1
  <2>3. CASE Len(hash) <= Len(full)
    <3> DEFINE f == SubSeq(hash, 1, Len(hash))
               g == SubSeq(full, 1, Len(hash))
    <3>1. /\ f \in Seq(Octet) /\ Len(f) = Len(hash) /\ \A p \in 1..Len(hash) : f[p] = hash[p]
          /\ g \in Seq(Octet) /\ Len(g) = Len(hash) /\ \A p \in 1..Len(hash) : g[p] = full[p]
      BY <2>1, <2>2, <2>3
    <3>2. f = g <=> \A p \in 1..Len(hash) : hash[p] = full[p]
      <4> HIDE DEF f, g
      <4>1. f = g => \A p \in 1..Len(hash) : f[p] = g[p]
        OBVIOUS
      <4>2. f = [p \in 1..Len(hash) |-> f[p]] /\ g = [p \in 1..Len(hash) |-> g[p]]
        BY <2>2, <3>1, LenProperties
      <4>3. (\A p \in 1..Len(hash) : f[p] = g[p]) => f = g
        BY <4>2, Zenon
      <4> QED
        BY <3>1, <4>1, <4>3
    <3>3. Mismatches(hash, full) = {} <=> \A p \in 1..Len(hash) : hash[p] = full[p]
      BY ONLY <2>1, <2>2, <2>3, SMTT(30) DEF Mismatches
    <3> QED
      BY <2>3, <3>2, <3>3 DEF IsPrefix
  <2>4. CASE ~(Len(hash) <= Len(full))
    <3>1. Len(hash) \in Mismatches(hash, full)
      BY <2>2, <2>4 DEF Mismatches
    <3> QED
      BY <2>4, <3>1 DEF IsPrefix
  <2> QED
    BY <2>3, <2>4
<1>3. ASSUME Opens(cert, pub)
      PROVE  /\ cert.signature < pub.n
             /\ \E head, hash \in Seq(Octet) :
                  /\ head # <<>> /\ \A j \in 2..Len(head) : head[j] # 0
                  /\ data = head \o << 0 >> \o DigestInfo \o hash
                  /\ IsPrefix(hash, full)
  <2>1. cert.signature < pub.n /\ Padded(data) /\ Mismatches(Chop(data), full) = {}
    BY <1>3 DEF Opens, WellFormed, SignatureFits, WrongOctets
  <2> HIDE DEF data, full
  <2>2. PICK head \in Seq(Octet) :
          /\ head # <<>> /\ \A j \in 2..Len(head) : head[j] # 0
          /\ Chop(data) \in Seq(Octet)
          /\ data = head \o << 0 >> \o DigestInfo \o Chop(data)
    BY <1>1, <2>1, PaddedIsMadeUp
  <2>3. IsPrefix(Chop(data), full)
    BY <1>2, <2>1, <2>2
  <2> QED
    BY <2>1, <2>2, <2>3
<1>4. ASSUME cert.signature < pub.n,
             NEW head \in Seq(Octet), NEW hash \in Seq(Octet),
             head # <<>>, \A j \in 2..Len(head) : head[j] # 0,
             data = head \o << 0 >> \o DigestInfo \o hash,
             IsPrefix(hash, full)
      PROVE  Opens(cert, pub)
  <2> HIDE DEF data, full
  <2>0. PICK block : block = data
    OBVIOUS
  <2>1. Padded(data) /\ Chop(data) = hash
    <3>1. Padded(block) /\ Chop(block) = hash
      BY ONLY <1>4, <2>0, DigestInfo \in Seq(Octet), ChopsToRest, ZenonT(60)
    <3> QED
      BY ONLY <3>1, <2>0
  <2>2. Mismatches(Chop(data), full) = {}
    BY <1>2, <1>4, <2>1
  <2> QED
    BY <1>4, <2>1, <2>2 DEF Opens, WellFormed, SignatureFits, WrongOctets, data, full
<1> HIDE DEF data, full
<1> QED
  BY <1>3, <1>4 DEF data, full

\* Every certificate is signed so by the next one and the last one by itself.
EachSignedAsPrescribed ==
  \A k \in DOMAIN certs :
    LET pub == certs[IF k = Len(certs) THEN k ELSE k + 1].public_key IN
      pub.n \in Nat \ {0} /\ pub.e \in Nat /\ SignedAsPrescribed(certs[k], pub)

PassInv ==
  /\ certs \in Seq(Certs)
  /\ EachSignedAsPrescribed
  /\ oi \in 0..Len(certs)
  /\ verdict \in {"none", "true"}

LEMMA NextPass == PassInv /\ [Next]_vars => PassInv'
<1> SUFFICES ASSUME PassInv, [Next]_vars PROVE PassInv'
  OBVIOUS
<1>1. UNCHANGED certs
  BY DEF Next, Step, MalformedSignature, HashMismatch, Verdict, Verified, AllVerified,
         Terminated, vars
<1>2. certs' \in Seq(Certs) /\ EachSignedAsPrescribed'
  BY <1>1 DEF PassInv, EachSignedAsPrescribed
<1>3. ASSUME Pending
      PROVE  Opens(certs[current], CaKey)
  <2>1. current \in DOMAIN certs
    BY <1>3 DEF PassInv, Pending, current
  <2> DEFINE pub == certs[IF current = Len(certs) THEN current ELSE current + 1].public_key
  <2>2. pub.n \in Nat \ {0} /\ pub.e \in Nat /\ SignedAsPrescribed(certs[current], pub)
    BY <2>1 DEF PassInv, EachSignedAsPrescribed
  <2>3. CaKey = pub
    BY DEF CaKey
  <2> HIDE DEF pub
  <2> QED
    BY <2>2, <2>3, PrescribedOpens
<1>4. CASE MalformedSignature \/ HashMismatch
  BY <1>3, <1>4 DEF MalformedSignature, HashMismatch, Opens
<1>5. CASE Verified
  <2>1. Pending /\ oi' = oi + 1 /\ UNCHANGED verdict
    BY <1>5 DEF Verified
  <2>2. oi' \in 0..Len(certs)
    BY <2>1 DEF PassInv, Pending, current
  <2> QED
    BY <1>1, <1>2, <2>1, <2>2 DEF PassInv
<1>6. CASE AllVerified \/ Terminated \/ UNCHANGED vars
  BY <1>1, <1>2, <1>6 DEF PassInv, AllVerified, Verdict, Terminated, vars
<1> QED
  BY <1>4, <1>5, <1>6 DEF Next, Step

\* Whatever its length, a chain whose certificates are signed as they should be is
\* never refused, nor is the program ended (http.cpp:85-121).  What a signature
\* binds, and whom, plays no part here.
THEOREM PrescribedIsAccepted ==
  Spec /\ EachSignedAsPrescribed => [](verdict \notin {"false", "abort"})
<1>1. Init /\ EachSignedAsPrescribed => PassInv
  BY ChainsAssumption DEF Init, PassInv
<1>2. PassInv => verdict \notin {"false", "abort"}
  BY DEF PassInv
<1> QED
  BY NextPass, <1>1, <1>2, PTL DEF Spec
=============================================================================
