----------------------- MODULE SignedRegisters_proofs -----------------------
(***************************************************************************)
(* The octets of both objects stay canonical, whatever the operators; and  *)
(* what the operators do to the octets is the arithmetic of the naturals   *)
(* and of the integers.                                                    *)
(***************************************************************************)
EXTENDS SignedRegisters, UnsignedBigInt_proofs

\* Both objects are canonical, and a sign is a sign.
Inv ==
  /\ Normal(x) /\ Normal(y)
  /\ signed \in BOOLEAN /\ x_neg \in BOOLEAN /\ y_neg \in BOOLEAN

LEMMA Results ==
  ASSUME NEW a, Normal(a), NEW b, Normal(b)
  PROVE  /\ a \in Seq(Digit) /\ b \in Seq(Digit) /\ Value(a) \in Nat /\ Value(b) \in Nat
         /\ Normal(Add(a, b)) /\ Value(Add(a, b)) = Value(a) + Value(b)
         /\ Normal(Multiply(a, b)) /\ Value(Multiply(a, b)) = Value(a) * Value(b)
         /\ ~Less(a, b) => /\ Normal(Subtract(a, b)) /\ Value(b) <= Value(a)
                           /\ Value(Subtract(a, b)) = Value(a) - Value(b)
         /\ Normal(Div(a, b)) /\ Normal(Mod(a, b))
         /\ Value(b) = 0 => Value(Mod(a, b)) = Value(a)
         /\ Value(b) # 0 => /\ Value(Div(a, b)) = Value(a) \div Value(b)
                            /\ Value(Mod(a, b)) = Value(a) % Value(b)
         /\ Less(a, b) <=> Value(a) < Value(b)
         /\ a = b <=> Value(a) = Value(b)
<1>1. a \in Seq(Digit) /\ b \in Seq(Digit)
  BY DEF Normal
<1>2. Value(a) \in Nat /\ Value(b) \in Nat
  BY <1>1, ValueNat
<1>3. (Less(a, b) <=> Value(a) < Value(b)) /\ (a = b <=> Value(a) = Value(b))
  BY LessCompares
<1>4. ~Less(a, b) => Value(b) <= Value(a)
  BY <1>2, <1>3
<1>5. ~Less(a, b) => Normal(Subtract(a, b)) /\ Value(Subtract(a, b)) = Value(a) - Value(b)
  BY <1>1, <1>4, SubtractSubtracts
<1>6. /\ Normal(Add(a, b)) /\ Value(Add(a, b)) = Value(a) + Value(b)
      /\ Normal(Multiply(a, b)) /\ Value(Multiply(a, b)) = Value(a) * Value(b)
  BY <1>1, AddAdds, MultiplyMultiplies
<1>7. /\ Normal(Div(a, b)) /\ Normal(Mod(a, b))
      /\ IF Value(b) = 0 THEN Value(Mod(a, b)) = Value(a)
         ELSE /\ Value(Div(a, b)) = Value(a) \div Value(b)
              /\ Value(Mod(a, b)) = Value(a) % Value(b)
  BY <1>1, DivModDivides
<1> QED
  BY <1>1, <1>2, <1>3, <1>4, <1>5, <1>6, <1>7

LEMMA AmountIsNat == \A n \in Amounts : n \in Nat
<1>1. MaxOctets * OctetBits \in Nat
  BY BoundAssumption, OctetBitsAssumption
<1> QED
  BY <1>1 DEF Amounts

\* The largest number of a size_t, and half of it.
LEMMA Halves ==
  /\ Base^SizeOctets = Weight[SizeOctets] /\ Base <= Weight[SizeOctets]
  /\ Weight[SizeOctets] \in Nat
  /\ Base^SizeOctets \div 2 \in Nat /\ Base^SizeOctets \div 2 < Weight[SizeOctets]
<1> DEFINE w == Weight[SizeOctets]
           p == Base^SizeOctets
<1>1. SizeOctets \in 0..SizeOctets /\ SizeOctets \in Nat /\ 1 <= SizeOctets /\ 1 \in Nat
  BY SizeAssumption
<1>2. p = w
  BY <1>1, SizeAssumption, WeightIsPower
<1>3. w \in Nat \ {0}
  BY <1>1, WeightType
<1>4. Weight[1] = Base
  <2>1. Weight[0 + 1] = Weight[0] * Base /\ 0 + 1 = 1
    BY WeightStep
  <2> QED
    BY <2>1, Weights, Powers
<1>5. Base <= w
  <2>1. Weight[1] <= w
    BY <1>1, WeightGrows
  <2> QED
    BY <1>4, <2>1
<1> HIDE DEF p, w
<1>6. w \div 2 \in Nat /\ w \div 2 < w
  BY <1>3
<1> QED
  BY <1>2, <1>3, <1>5, <1>6 DEF p, w

LEMMA FromNumberResults ==
  /\ \A n \in 0..(Base - 1) :
       Normal(FromNumber(n, SizeOctets)) /\ Value(FromNumber(n, SizeOctets)) = n
  /\ LET Half == Base^SizeOctets \div 2 IN
       \A n \in (-Half)..(Half - 1) :
         LET m == IF n < 0 THEN n + Half ELSE n IN
           /\ Normal(FromNumber(m, SizeOctets)) /\ Value(FromNumber(m, SizeOctets)) = m
           /\ m \in Nat
<1>1. \A n \in Nat : n < Weight[SizeOctets] =>
        Normal(FromNumber(n, SizeOctets)) /\ Value(FromNumber(n, SizeOctets)) = n
  BY SizeAssumption, FromNumberKeeps
<1> DEFINE w == Weight[SizeOctets]
           h == Base^SizeOctets \div 2
<1>2. Base \in Nat /\ Base <= w /\ w \in Nat /\ h \in Nat /\ h < w
  BY Halves, Powers
<1> HIDE DEF w, h
<1>3. \A n \in 0..(Base - 1) : n \in Nat /\ n < w
  BY <1>2
<1>4. \A n \in (-h)..(h - 1) : /\ (IF n < 0 THEN n + h ELSE n) \in Nat
                               /\ (IF n < 0 THEN n + h ELSE n) < w
  BY <1>2
<1>5. \A n \in 0..(Base - 1) :
        Normal(FromNumber(n, SizeOctets)) /\ Value(FromNumber(n, SizeOctets)) = n
  BY <1>1, <1>3 DEF w
<1>6. \A n \in (-h)..(h - 1) :
         LET m == IF n < 0 THEN n + h ELSE n IN
           /\ Normal(FromNumber(m, SizeOctets)) /\ Value(FromNumber(m, SizeOctets)) = m
           /\ m \in Nat
  <2> SUFFICES ASSUME NEW n \in (-h)..(h - 1), NEW m, m = IF n < 0 THEN n + h ELSE n
               PROVE  /\ Normal(FromNumber(m, SizeOctets))
                      /\ Value(FromNumber(m, SizeOctets)) = m
                      /\ m \in Nat
    OBVIOUS
  <2>1. m \in Nat /\ m < w
    BY <1>4
  <2> QED
    BY <1>1, <2>1 DEF w
<1> QED
  BY <1>5, <1>6 DEF h

-----------------------------------------------------------------------------

LEMMA InvInit == SignedInit => Inv
<1> SUFFICES ASSUME SignedInit PROVE Inv
  OBVIOUS
<1>1. PICK d, e \in UNION {Data(n) : n \in 0..MaxOctets} : x = Minimum(d) /\ y = Minimum(e)
  BY DEF SignedInit, Init
<1>2. d \in Seq(Digit) /\ e \in Seq(Digit)
  <2>1. \A n \in 0..MaxOctets : \A f \in Data(n) : f \in Seq(Digit)
    BY BoundAssumption DEF Data
  <2> QED
    BY <1>1, <2>1
<1>3. Normal(x) /\ Normal(y)
  BY <1>1, <1>2, MinimumNormal
<1>4. signed \in BOOLEAN /\ x_neg \in BOOLEAN /\ y_neg \in BOOLEAN
  BY DEF SignedInit
<1> QED
  BY <1>3, <1>4 DEF Inv

LEMMA InvNext == Inv /\ [SignedNext]_allVars => Inv'
<1> SUFFICES ASSUME Inv, [SignedNext]_allVars PROVE Inv'
  OBVIOUS
<1>1. Normal(x) /\ Normal(y) /\ signed \in BOOLEAN /\ x_neg \in BOOLEAN /\ y_neg \in BOOLEAN
  BY DEF Inv
<1>2. CASE UNCHANGED allVars
  BY <1>1, <1>2 DEF allVars, vars, Inv, Normal
<1>3. CASE SignedNext
  <2>1. signed' = signed
    BY <1>3 DEF SignedNext
  <2>2. SUFFICES Normal(x') /\ Normal(y') /\ x_neg' \in BOOLEAN /\ y_neg' \in BOOLEAN
    BY <1>1, <2>1 DEF Inv, Normal
  <2>3. CASE ~signed /\ Next /\ UNCHANGED <<x_neg, y_neg>>
    <3>1. SUFFICES Normal(x') /\ Normal(y')
      BY <1>1, <2>2, <2>3
    <3>2. CASE Swap
      BY <1>1, <3>2 DEF Swap
    <3>3. CASE Plus
      BY <1>1, <3>3, Results DEF Plus, Assign
    <3>4. CASE Times
      BY <1>1, <3>4, Results DEF Times, Assign
    <3>5. CASE Shift
      <4>1. PICK n \in Amounts : x' = ShiftLeft(x, n) /\ y' = y
        BY <3>5 DEF Shift, Assign
      <4>2. x \in Seq(Digit) /\ n \in Nat
        BY <1>1, AmountIsNat DEF Normal
      <4> QED
        BY <1>1, <4>1, <4>2, ShiftMultiplies
    <3>6. CASE Minus
      BY <1>1, <3>6, Results DEF Minus, Assign
    <3>7. CASE MinusAborts
      BY <1>1, <3>7 DEF MinusAborts
    <3>8. CASE PutBit
      <4>1. PICK p \in Amounts, value \in BOOLEAN : x' = SetBit(x, p, value) /\ y' = y
        BY <3>8 DEF PutBit, Assign
      <4>2. x \in Seq(Digit) /\ p \in Nat
        BY <1>1, AmountIsNat DEF Normal
      <4> QED
        BY <1>1, <4>1, <4>2, SetBitSets
    <3>9. CASE Divide
      BY <1>1, <3>9, Results DEF Divide
    <3>10. CASE Compare
      BY <1>1, <3>10 DEF Compare
    <3>11. CASE UNCHANGED vars
      BY <1>1, <3>11 DEF vars
    <3> QED
      BY <2>3, <3>2, <3>3, <3>4, <3>5, <3>6, <3>7, <3>8, <3>9, <3>10, <3>11 DEF Next
  <2>4. CASE signed /\ SwapSigned
    BY <1>1, <2>2, <2>4 DEF SwapSigned, Swap
  <2>5. CASE signed /\ SignedPlus
    <3>1. x' = Add(x, y) /\ y' = y /\ y_neg' = y_neg /\ x_neg' \in BOOLEAN
      BY <1>1, <2>5 DEF SignedPlus, AssignSigned, Assign
    <3> QED
      BY <1>1, <2>2, <3>1, Results
  <2>6. CASE signed /\ SignedMinus
    <3>1. x' = Add(x, y) /\ y' = y /\ y_neg' = y_neg /\ x_neg' \in BOOLEAN
      BY <1>1, <2>6 DEF SignedMinus, AssignSigned, Assign
    <3> QED
      BY <1>1, <2>2, <3>1, Results
  <2>7. CASE signed /\ SignedTimes
    <3>1. x' = Multiply(x, y) /\ y' = y /\ y_neg' = y_neg /\ x_neg' \in BOOLEAN
      BY <1>1, <2>7 DEF SignedTimes, AssignSigned, Assign
    <3> QED
      BY <1>1, <2>2, <3>1, Results
  <2>8. CASE signed /\ SignedDivide
    <3>1. x' = Div(x, y) /\ y' = Mod(x, y) /\ y_neg' = x_neg /\ x_neg' \in BOOLEAN
      BY <1>1, <2>8 DEF SignedDivide, Divide
    <3> QED
      BY <1>1, <2>2, <3>1, Results
  <2>9. CASE signed /\ SignedCompare
    BY <1>1, <2>2, <2>9 DEF SignedCompare
  <2>10. CASE signed /\ FromText
    <3>1. PICK n \in 0..(Base - 1), text \in {"+", "-", "unsigned"} :
            /\ x' = (IF text = "unsigned" THEN Zero ELSE FromNumber(n, SizeOctets))
            /\ y' = y /\ y_neg' = y_neg /\ x_neg' = FALSE
      BY <2>10 DEF FromText, AssignSigned, Assign
    <3> QED
      BY <1>1, <2>2, <3>1, FromNumberResults, ZeroNormal
  <2>11. CASE signed /\ FromSigned
    <3> DEFINE Half == Base^SizeOctets \div 2
    <3>1. PICK n \in (-Half)..(Half - 1) :
            /\ x' = FromNumber(IF n < 0 THEN n + Half ELSE n, SizeOctets)
            /\ y' = y /\ y_neg' = y_neg /\ x_neg' = (n < 0)
      BY <2>11 DEF FromSigned, AssignSigned, Assign
    <3>2. Normal(FromNumber(IF n < 0 THEN n + Half ELSE n, SizeOctets))
      BY FromNumberResults
    <3> HIDE DEF Half
    <3> QED
      BY <1>1, <2>2, <3>1, <3>2
  <2> QED
    BY <1>3, <2>3, <2>4, <2>5, <2>6, <2>7, <2>8, <2>9, <2>10, <2>11 DEF SignedNext
<1> QED
  BY <1>2, <1>3

LEMMA InvAlways == SignedSpec => []Inv
<1>1. SignedInit => Inv
  BY InvInit
<1>2. Inv /\ [SignedNext]_allVars => Inv'
  BY InvNext
<1> QED
  BY <1>1, <1>2, PTL DEF SignedSpec

\* The octets of an UnsignedBigInt are octets and have no zeros in front, after
\* any operators and for every size of octet: the comparison, which looks at the
\* sizes first, relies on it.
THEOREM CanonicalAlways == SignedSpec => []AlwaysCanonical
<1>1. Inv => AlwaysCanonical
  BY DEF Inv, AlwaysCanonical, Normal, Canonical
<1> QED
  BY <1>1, InvAlways, PTL
-----------------------------------------------------------------------------
(* UnsignedBigInt objects are natural numbers. *)

LEMMA NaturalsInit == SignedInit => Registers!Init
<1> SUFFICES ASSUME SignedInit PROVE Registers!Init
  OBVIOUS
<1>1. Value(x) \in Nat /\ Value(y) \in Nat /\ call = "none"
  BY InvInit, ValueNat DEF Inv, Normal, SignedInit, Init
<1> QED
  BY <1>1 DEF Registers!Init

\* Of bits: those of the number are those of the octets.
LEMMA PutBitPuts ==
  ASSUME NEW p \in Amounts, NEW value \in BOOLEAN, NEW d, Normal(d)
  PROVE  LET bit == (Value(d) \div 2^p) % 2 IN
           Value(SetBit(d, p, value)) \in {Value(d) + (1 - bit) * 2^p, Value(d) - bit * 2^p}
<1> DEFINE w == BitWeight(p)
           v == Value(d)
           bit == (v \div w) % 2
           set == IsBitSet(d, p)
           r == Value(SetBit(d, p, value))
<1>1. MaxOctets * OctetBits \in Nat
  BY BoundAssumption, OctetBitsAssumption
<1>2. p \in 0..(MaxOctets * OctetBits) /\ p \in Nat /\ d \in Seq(Digit)
  BY <1>1 DEF Amounts, Normal
<1>3. 2^p = w
  <2> DEFINE m == MaxOctets * OctetBits
  <2>1. m \in Nat /\ p \in 0..m /\ PowersUpTo(2, m)
    BY <1>1, <1>2, BoundAssumption
  <2> HIDE DEF m
  <2> QED
    BY <2>1, BitWeightIsPower
<1>4. r = v + (IF value /\ ~set THEN w ELSE 0) - (IF ~value /\ set THEN w ELSE 0)
  BY <1>2, SetBitSets
<1>5. set <=> bit = 1
  BY <1>2, BitValue
<1>6. v \in Nat /\ w \in Nat \ {0}
  BY <1>2, ValueNat, BitWeightType
<1>7. bit \in {0, 1}
  <2> HIDE DEF v, w
  <2> QED
    BY <1>6, OneBitMore
<1> HIDE DEF v, w, bit, set, r
<1>8. r \in {v + (1 - bit) * w, v - bit * w}
  <2>1. CASE bit = 1
    <3>1. (1 - bit) * w = 0 /\ bit * w = w
      BY <1>6, <2>1
    <3> QED
      BY <1>4, <1>5, <1>6, <2>1, <3>1
  <2>2. CASE bit = 0
    <3>1. (1 - bit) * w = w /\ bit * w = 0
      BY <1>6, <2>2
    <3> QED
      BY <1>4, <1>5, <1>6, <2>2, <3>1
  <2> QED
    BY <1>7, <2>1, <2>2
<1> QED
  BY <1>3, <1>8 DEF r, v, bit

LEMMA NaturalsStep ==
  Inv /\ Inv' /\ [SignedNext]_allVars => [Registers!Next]_(Registers!vars)
<1> SUFFICES ASSUME Inv, Inv', [SignedNext]_allVars
             PROVE  [Registers!Next]_(Registers!vars)
  OBVIOUS
<1> DEFINE v == Value(x)
           w == Value(y)
<1>1. CASE UNCHANGED allVars
  BY <1>1 DEF allVars, vars, Registers!vars
<1>2. CASE SignedNext /\ signed
  BY <1>2 DEF SignedNext, Registers!vars
<1>3. CASE SignedNext /\ ~signed
  <2>1. ~signed /\ ~signed' /\ Next
    BY <1>3 DEF SignedNext
  <2>2. Normal(x) /\ Normal(y)
    BY DEF Inv
  <2>3. /\ x \in Seq(Digit) /\ y \in Seq(Digit) /\ v \in Nat /\ w \in Nat
    BY <2>2, Results
  <2>4. CASE UNCHANGED vars
    BY <2>1, <2>4 DEF vars, Registers!vars
  <2>5. CASE call # "abort"
    <3>1. CASE Swap
      BY <2>1, <2>5, <3>1 DEF Swap, Registers!Swap, Registers!Next
    <3>2. CASE Plus
      <4>1. call' = "+" /\ y' = y /\ Value(x') = v + w
        BY <2>2, <3>2, Results DEF Plus, Assign
      <4> QED
        BY <2>1, <2>5, <4>1 DEF Registers!Plus, Registers!Next
    <3>3. CASE Times
      <4>1. call' = "*" /\ y' = y /\ Value(x') = v * w
        BY <2>2, <3>3, Results DEF Times, Assign
      <4> QED
        BY <2>1, <2>5, <4>1 DEF Registers!Times, Registers!Next
    <3>4. CASE Shift
      <4>1. PICK n \in Amounts : x' = ShiftLeft(x, n) /\ y' = y /\ call' = "<<"
        BY <3>4 DEF Shift, Assign
      <4>2. Value(x') = v * 2^n
        <5> DEFINE m == MaxOctets * OctetBits
        <5>1. m \in Nat /\ PowersUpTo(2, m) /\ n \in 0..m /\ n \in Nat
          BY BoundAssumption, OctetBitsAssumption DEF Amounts
        <5> HIDE DEF m
        <5>2. BitWeight(n) = 2^n
          BY <5>1, BitWeightIsPower
        <5> QED
          BY <2>3, <4>1, <5>1, <5>2, ShiftMultiplies
      <4> QED
        BY <2>1, <2>5, <4>1, <4>2 DEF Registers!Shift, Registers!Next
    <3>5. CASE Minus
      <4>1. call' = "-" /\ y' = y /\ Value(x') = v - w /\ w <= v
        BY <2>2, <3>5, Results DEF Minus, Assign
      <4> QED
        BY <2>1, <2>5, <4>1 DEF Registers!Minus, Registers!Next
    <3>6. CASE MinusAborts
      <4>1. call' = "abort" /\ y' = y /\ x' = x /\ w > v
        BY <2>2, <2>3, <3>6, Results DEF MinusAborts
      <4> QED
        BY <2>1, <2>5, <4>1 DEF Registers!Abort, Registers!Next
    <3>7. CASE PutBit
      <4>1. PICK p \in Amounts, value \in BOOLEAN :
              x' = SetBit(x, p, value) /\ y' = y /\ call' = "set_bit"
        BY <3>7 DEF PutBit, Assign
      <4> DEFINE bit == (v \div 2^p) % 2
      <4>2. Value(x') \in {v + (1 - bit) * 2^p, v - bit * 2^p}
        BY <2>2, <4>1, PutBitPuts
      <4> QED
        BY <2>1, <2>5, <4>1, <4>2 DEF Registers!SetBit, Registers!Next
    <3>8. CASE Divide
      <4>1. /\ call' = "divmod" /\ Value(x') \in Nat
            /\ IF w = 0 THEN Value(y') = v ELSE Value(x') = v \div w /\ Value(y') = v % w
        <5>1. x' = Div(x, y) /\ y' = Mod(x, y) /\ call' = "divmod"
          BY <3>8 DEF Divide
        <5>2. Value(Div(x, y)) \in Nat
          BY <2>2, Results, ValueNat DEF Normal
        <5>3. IF w = 0 THEN Value(Mod(x, y)) = v
              ELSE Value(Div(x, y)) = v \div w /\ Value(Mod(x, y)) = v % w
          <6>1. Normal(x) /\ Normal(y)
            BY <2>2
          <6>2. w = 0 => Value(Mod(x, y)) = v
            BY <6>1, Results
          <6>3. w # 0 => Value(Div(x, y)) = v \div w /\ Value(Mod(x, y)) = v % w
            BY <6>1, Results
          <6> HIDE DEF v, w
          <6> QED
            BY <6>2, <6>3
        <5> HIDE DEF v, w
        <5> QED
          BY <5>1, <5>2, <5>3
      <4> QED
        BY <2>1, <2>5, <4>1 DEF Registers!Divide, Registers!Next
    <3>9. CASE Compare
      <4>1. /\ x' = x /\ y' = y
            /\ call' = CASE v < w -> "less" [] v = w -> "equal" [] v > w -> "greater"
        <5>1. (Less(x, y) <=> v < w) /\ (Less(y, x) <=> w < v)
          BY <2>2, Results
        <5>2. /\ x' = x /\ y' = y
              /\ call' = CASE Less(x, y) -> "less" [] Less(y, x) -> "greater" [] OTHER -> "equal"
          BY <3>9 DEF Compare
        <5> HIDE DEF v, w
        <5> QED
          BY <2>3, <5>1, <5>2
      <4> QED
        BY <2>1, <2>5, <4>1 DEF Registers!Compare, Registers!Next
    <3> QED
      BY <2>1, <2>5, <3>1, <3>2, <3>3, <3>4, <3>5, <3>6, <3>7, <3>8, <3>9 DEF Next
  <2> QED
    BY <2>1, <2>4, <2>5 DEF Next
<1> QED
  BY <1>1, <1>2, <1>3

\* nu_unsigned_big_int.cpp computes with octets what NatRegisters computes with
\* naturals: sums, differences, products, quotients, remainders, shifts, bits and
\* comparisons, for every size of octet and any numbers that fit.
THEOREM RefinesNaturals == SignedSpec => ComputesNaturals
<1>1. SignedInit => Registers!Init
  BY NaturalsInit
<1>2. Inv /\ Inv' /\ [SignedNext]_allVars => [Registers!Next]_(Registers!vars)
  BY NaturalsStep
<1> QED
  BY <1>1, <1>2, InvAlways, PTL DEF SignedSpec, ComputesNaturals, Registers!Spec
-----------------------------------------------------------------------------
(* BigInt objects are integers. *)

\* The number of an absolute value and a sign.
Signed(v, negative) == IF negative THEN -v ELSE v

\* Signs of a product.
LEMMA SignsOfProduct ==
  ASSUME NEW v \in Nat, NEW w \in Nat, NEW a \in BOOLEAN, NEW b \in BOOLEAN
  PROVE  /\ v * w \in Nat /\ (v * w = 0 <=> v = 0 \/ w = 0)
         /\ Signed(v, a) * Signed(w, b) = Signed(v * w, a # b)
<1>1. v * w \in Nat /\ (v * w = 0 <=> v = 0 \/ w = 0)
  OBVIOUS
<1>2. (-v) * w = -(v * w) /\ v * (-w) = -(v * w) /\ (-v) * (-w) = v * w
  OBVIOUS
<1> DEFINE p == v * w
           c == a # b
           d == Signed(v, a) * Signed(w, b)
<1>3. ASSUME a /\ b PROVE d = Signed(p, c)
  <2>1. d = p /\ ~c
    BY <1>2, <1>3 DEF Signed
  <2> QED
    BY <2>1 DEF Signed
<1>4. ASSUME a /\ ~b PROVE d = Signed(p, c)
  <2>1. d = -p /\ c
    BY <1>2, <1>4 DEF Signed
  <2> QED
    BY <2>1 DEF Signed
<1>5. ASSUME ~a /\ b PROVE d = Signed(p, c)
  <2>1. d = -p /\ c
    BY <1>2, <1>5 DEF Signed
  <2> QED
    BY <2>1 DEF Signed
<1>6. ASSUME ~a /\ ~b PROVE d = Signed(p, c)
  <2>1. d = p /\ ~c
    BY <1>2, <1>6 DEF Signed
  <2> QED
    BY <2>1 DEF Signed
<1>7. d = Signed(p, c)
  BY <1>3, <1>4, <1>5, <1>6
<1> QED
  BY <1>1, <1>7

LEMMA PlusOfSigns ==
  ASSUME NEW v \in Nat, NEW w \in Nat, NEW a \in BOOLEAN, NEW b \in BOOLEAN,
         Signed(v, a) * Signed(w, b) >= 0,
         ~(Signed(v, a) < 0 /\ Signed(v, a) = Signed(w, b))
  PROVE  Signed(v + w, v # w /\ (IF w < v THEN a ELSE b)) = Signed(v, a) + Signed(w, b)
<1> DEFINE p == v * w
<1>1. p \in Nat /\ (p = 0 <=> v = 0 \/ w = 0) /\ Signed(p, a # b) >= 0
  BY SignsOfProduct
<1> HIDE DEF p
<1>2. a # b => v = 0 \/ w = 0
  BY <1>1 DEF Signed
<1> QED
  BY <1>2 DEF Signed

LEMMA MinusOfSigns ==
  ASSUME NEW v \in Nat, NEW w \in Nat, NEW a \in BOOLEAN, NEW b \in BOOLEAN,
         Signed(v, a) * Signed(w, b) <= 0,
         ~(Signed(v, a) < 0 /\ Signed(v, a) = -Signed(w, b))
  PROVE  Signed(v + w, v # w /\ (IF w < v THEN a ELSE ~b)) = Signed(v, a) - Signed(w, b)
<1> DEFINE p == v * w
<1>1. p \in Nat /\ (p = 0 <=> v = 0 \/ w = 0) /\ Signed(p, a # b) <= 0
  BY SignsOfProduct
<1> HIDE DEF p
<1>2. a = b => v = 0 \/ w = 0
  BY <1>1 DEF Signed
<1> QED
  BY <1>2 DEF Signed

LEMMA QuotientOfSigns ==
  ASSUME NEW v \in Nat, NEW w \in Nat \ {0}, NEW a \in BOOLEAN, NEW b \in BOOLEAN
  PROVE  LET X == Signed(v, a)
             Y == Signed(w, b)
             Q == Signed(v \div w, a # b)
         IN /\ Q = SignedNumbers!Sign(X) * SignedNumbers!Sign(Y)
                     * (SignedNumbers!Abs(X) \div SignedNumbers!Abs(Y))
            /\ Signed(v % w, a) = X - Y * Q
<1> DEFINE X == Signed(v, a)
           Y == Signed(w, b)
           q == v \div w
           m == v % w
           Q == Signed(q, a # b)
           p == w * q
<1>1. q \in Nat /\ m \in 0..(w - 1) /\ v = p + m /\ p \in Nat
  <2>1. q \in Nat /\ m \in 0..(w - 1) /\ v = p + m
    BY NatDivision
  <2> HIDE DEF q, m
  <2> QED
    BY <2>1
<1>2. SignedNumbers!Abs(X) = v /\ SignedNumbers!Abs(Y) = w
  BY DEF Signed, SignedNumbers!Abs
<1>3. Y * Q = Signed(p, b # (a # b))
  <2>1. (a # b) \in BOOLEAN /\ q \in Nat
    BY <1>1
  <2> DEFINE c == a # b
  <2>3. c \in BOOLEAN /\ q \in Nat
    BY <2>1
  <2> HIDE DEF c, q
  <2>2. Signed(w, b) * Signed(q, c) = Signed(w * q, b # c)
    BY <2>3, SignsOfProduct
  <2> QED
    BY <2>2 DEF c
<1>4. SignedNumbers!Sign(X) = (IF a /\ v # 0 THEN -1 ELSE 1) /\ SignedNumbers!Sign(Y) = IF b THEN -1 ELSE 1
  BY DEF Signed, SignedNumbers!Sign
<1>5. v = 0 => q = 0
  BY <1>1
<1> DEFINE s == SignedNumbers!Sign(X)
           t == SignedNumbers!Sign(Y)
<1>6. Q = s * t * q
  <2> HIDE DEF q
  <2> HIDE DEF s, t
  <2>1. s = (IF a /\ v # 0 THEN -1 ELSE 1) /\ t = IF b THEN -1 ELSE 1
    BY <1>4 DEF s, t
  <2>2. (-1) * q = -q /\ 1 * q = q /\ (-1) * (-1) = 1 /\ 1 * (-1) = -1 /\ (-1) * 1 = -1 /\ 1 * 1 = 1
    BY <1>1
  <2>3. s * t * q = IF (a /\ v # 0) # b THEN -q ELSE q
    BY <1>1, <2>1, <2>2
  <2> QED
    BY <1>1, <1>5, <2>3 DEF Signed
<1>7. Signed(m, a) = X - Y * Q
  <2> HIDE DEF p, q, m, Q
  <2>1. (b # (a # b)) <=> a
    OBVIOUS
  <2>2. Y * Q = Signed(p, a)
    BY <1>3, <2>1 DEF Signed
  <2>3. Signed(m, a) = X - Signed(p, a)
    BY <1>1 DEF Signed
  <2> QED
    BY <2>2, <2>3
<1> QED
  BY <1>2, <1>6, <1>7

LEMMA IntegersInit == SignedInit => SignedNumbers!Init
<1> SUFFICES ASSUME SignedInit PROVE SignedNumbers!Init
  OBVIOUS
<1>1. Value(x) \in Int /\ Value(y) \in Int /\ call = "none"
  BY InvInit, ValueNat DEF Inv, Normal, SignedInit, Init
<1> QED
  BY <1>1 DEF SignedNumbers!Init, SignedValue

LEMMA IntegersStep ==
  Inv /\ Inv' /\ [SignedNext]_allVars => [SignedNumbers!Next]_(SignedNumbers!vars)
<1> SUFFICES ASSUME Inv, Inv', [SignedNext]_allVars
             PROVE  [SignedNumbers!Next]_(SignedNumbers!vars)
  OBVIOUS
<1> DEFINE v == Value(x)
           w == Value(y)
           X == Signed(v, x_neg)
           Y == Signed(w, y_neg)
<1>1. CASE UNCHANGED allVars
  BY <1>1 DEF allVars, vars, SignedNumbers!vars, SignedValue
<1>2. CASE SignedNext /\ ~signed
  BY <1>2 DEF SignedNext, SignedNumbers!vars, SignedValue
<1>3. CASE SignedNext /\ signed
  <2>1. signed /\ signed'
    BY <1>3 DEF SignedNext
  <2>2. Normal(x) /\ Normal(y) /\ x_neg \in BOOLEAN /\ y_neg \in BOOLEAN
    BY DEF Inv
  <2>3. v \in Nat /\ w \in Nat
    BY <2>2, Results
  <2>4. SignedValue(x, x_neg) = X /\ SignedValue(y, y_neg) = Y
    BY DEF SignedValue, Signed
  <2>5. X \in Int /\ Y \in Int /\ X * Y \in Int
    BY <2>2, <2>3 DEF Signed
  <2>6. (Less(y, x) <=> w < v) /\ (Less(x, y) <=> v < w) /\ (x = y <=> v = w)
    BY <2>2, Results
  <2>8. CASE SwapSigned
    <3>1. call' = "swap" /\ x' = y /\ y' = x /\ x_neg' = y_neg /\ y_neg' = x_neg
      BY <2>8 DEF SwapSigned, Swap
    <3> QED
      BY <2>1, <3>1 DEF SignedNumbers!Swap, SignedNumbers!Next
  <2>9. CASE SignedPlus
    <3>1. /\ call' = "+" /\ x' = Add(x, y) /\ y' = y /\ y_neg' = y_neg
          /\ x_neg' = (x # y /\ (IF Less(y, x) THEN x_neg ELSE y_neg))
      BY <2>9 DEF SignedPlus, AssignSigned, Assign
    <3>2. Value(Add(x, y)) = v + w
      BY <2>2, Results
    <3>3. SignedValue(Add(x, y), x_neg') = Signed(v + w, v # w /\ (IF w < v THEN x_neg ELSE y_neg))
      BY <2>6, <3>1, <3>2 DEF SignedValue, Signed
    <3>4. X * Y >= 0 /\ ~(X < 0 /\ X = Y) => SignedValue(Add(x, y), x_neg') = X + Y
      BY <2>2, <2>3, <3>3, PlusOfSigns
    <3>5. SignedValue(Add(x, y), x_neg') \in Int
      BY <2>3, <3>2 DEF SignedValue
    <3> HIDE DEF X, Y
    <3> QED
      BY <2>1, <2>4, <3>1, <3>4, <3>5 DEF SignedNumbers!Plus, SignedNumbers!Next
  <2>10. CASE SignedMinus
    <3>1. /\ call' = "-" /\ x' = Add(x, y) /\ y' = y /\ y_neg' = y_neg
          /\ x_neg' = (x # y /\ (IF Less(y, x) THEN x_neg ELSE ~y_neg))
      BY <2>10 DEF SignedMinus, AssignSigned, Assign
    <3>2. Value(Add(x, y)) = v + w
      BY <2>2, Results
    <3>3. SignedValue(Add(x, y), x_neg') = Signed(v + w, v # w /\ (IF w < v THEN x_neg ELSE ~y_neg))
      BY <2>6, <3>1, <3>2 DEF SignedValue, Signed
    <3>4. X * Y <= 0 /\ ~(X < 0 /\ X = -Y) => SignedValue(Add(x, y), x_neg') = X - Y
      BY <2>2, <2>3, <3>3, MinusOfSigns
    <3>5. SignedValue(Add(x, y), x_neg') \in Int
      BY <2>3, <3>2 DEF SignedValue
    <3> HIDE DEF X, Y
    <3> QED
      BY <2>1, <2>4, <3>1, <3>4, <3>5 DEF SignedNumbers!Minus, SignedNumbers!Next
  <2>11. CASE SignedTimes
    <3>1. /\ call' = "*" /\ x' = Multiply(x, y) /\ y' = y /\ y_neg' = y_neg
          /\ x_neg' = (x_neg # y_neg)
      BY <2>11 DEF SignedTimes, AssignSigned, Assign
    <3>2. Value(Multiply(x, y)) = v * w
      BY <2>2, Results
    <3>3. SignedValue(Multiply(x, y), x_neg') = Signed(v * w, x_neg # y_neg)
      BY <3>1, <3>2 DEF SignedValue, Signed
    <3>4. SignedValue(Multiply(x, y), x_neg') = X * Y
      BY <2>2, <2>3, <3>3, SignsOfProduct
    <3> HIDE DEF X, Y
    <3> QED
      BY <2>1, <2>4, <3>1, <3>4 DEF SignedNumbers!Times, SignedNumbers!Next
  <2>12. CASE SignedDivide
    <3>1. /\ call' = "divmod" /\ x' = Div(x, y) /\ y' = Mod(x, y)
          /\ x_neg' = (x_neg # y_neg) /\ y_neg' = x_neg
      BY <2>12 DEF SignedDivide, Divide
    <3>2. Value(Div(x, y)) \in Nat
      BY <2>2, Results, ValueNat DEF Normal
    <3>3. SignedValue(x', x_neg') \in Int
      BY <3>1, <3>2 DEF SignedValue
    <3>4. CASE w = 0
      <4>1. Value(Mod(x, y)) = v
        BY <2>2, <3>4, Results
      <4>2. SignedValue(y', y_neg') = X
        BY <3>1, <4>1 DEF SignedValue, Signed
      <4>3. Y = 0
        <5>1. w \in Nat /\ w <= 0
          BY <2>3, <3>4
        <5> HIDE DEF w
        <5> QED
          BY <5>1 DEF Signed
      <4> HIDE DEF X, Y
      <4> QED
        BY <2>1, <2>4, <3>1, <3>3, <4>2, <4>3 DEF SignedNumbers!Divide, SignedNumbers!Next
    <3>5. CASE w # 0
      <4> DEFINE Q == Signed(v \div w, x_neg # y_neg)
      <4>1. Value(Div(x, y)) = v \div w /\ Value(Mod(x, y)) = v % w
        BY <2>2, <3>5, Results
      <4>2. SignedValue(x', x_neg') = Q /\ SignedValue(y', y_neg') = Signed(v % w, x_neg)
        BY <3>1, <4>1 DEF SignedValue, Signed
      <4>3. /\ Q = SignedNumbers!Sign(X) * SignedNumbers!Sign(Y)
                     * (SignedNumbers!Abs(X) \div SignedNumbers!Abs(Y))
            /\ Signed(v % w, x_neg) = X - Y * Q
        BY <2>2, <2>3, <3>5, QuotientOfSigns
      <4>4. Y # 0
        BY <2>3, <3>5 DEF Signed
      <4> HIDE DEF X, Y, Q, v, w
      <4> QED
        BY <2>1, <2>4, <3>1, <4>2, <4>3, <4>4 DEF SignedNumbers!Divide, SignedNumbers!Next
    <3> QED
      BY <3>4, <3>5
  <2>13. CASE SignedCompare
    <3>1. /\ x' = x /\ y' = y /\ x_neg' = x_neg /\ y_neg' = y_neg
          /\ call' = CASE ~x_neg /\ y_neg -> "greater"
                       [] x_neg /\ ~y_neg -> "less"
                       [] x_neg = y_neg /\ x = y -> "equal"
                       [] OTHER           -> IF Less(x, y) # x_neg THEN "less" ELSE "greater"
      BY <2>13 DEF SignedCompare
    <3> DEFINE other == IF Less(x, y) # x_neg THEN "less" ELSE "greater"
    <3>5. /\ x_neg /\ ~y_neg => call' = "less"
          /\ ~x_neg /\ y_neg => call' = "greater"
          /\ x_neg = y_neg => call' = IF x = y THEN "equal" ELSE other
      <4>1. call' = CASE ~x_neg /\ y_neg -> "greater"
                      [] x_neg /\ ~y_neg -> "less"
                      [] x_neg = y_neg /\ x = y -> "equal"
                      [] OTHER           -> other
        BY <3>1
      <4> HIDE DEF other
      <4> QED
        BY <2>2, <4>1
    <3>2. call' \in IF X = 0 /\ Y = 0 THEN {"less", "equal", "greater"}
                   ELSE CASE X < Y -> {"less"} [] X = Y -> {"equal"} [] X > Y -> {"greater"}
      <4> HIDE DEF v, w
      <4>1. CASE x_neg /\ ~y_neg
        <5>1. call' = "less"
          BY <3>5, <4>1
        <5>2. X <= 0 /\ 0 <= Y /\ X \in Int /\ Y \in Int
          BY <2>3, <4>1 DEF Signed
        <5> HIDE DEF X, Y
        <5> QED
          BY <5>1, <5>2
      <4>2. CASE ~x_neg /\ y_neg
        <5>1. call' = "greater"
          BY <3>5, <4>2
        <5>2. Y <= 0 /\ 0 <= X /\ X \in Int /\ Y \in Int
          BY <2>3, <4>2 DEF Signed
        <5> HIDE DEF X, Y
        <5> QED
          BY <5>1, <5>2
      <4>4. CASE x_neg = y_neg /\ v = w
        <5>1. X = Y /\ call' = "equal"
          BY <2>2, <2>6, <3>1, <4>4 DEF Signed
        <5> HIDE DEF X, Y
        <5> QED
          BY <2>5, <5>1
      <4>3. CASE x_neg = y_neg /\ v # w
        <5>1. Less(x, y) \in BOOLEAN
          BY DEF Less
        <5> DEFINE l == Less(x, y)
        <5>2. call' = IF l # x_neg THEN "less" ELSE "greater"
          BY <2>2, <2>6, <3>1, <4>3
        <5>3. l \in BOOLEAN /\ (l <=> v < w)
          BY <2>6, <5>1
        <5> HIDE DEF l
        <5> QED
          BY <2>2, <2>3, <4>3, <5>2, <5>3 DEF Signed
      <4> QED
        BY <2>2, <4>1, <4>2, <4>3, <4>4
    <3>3. SignedValue(x', x_neg') = X /\ SignedValue(y', y_neg') = Y
      BY <2>4, <3>1
    <3> HIDE DEF X, Y
    <3>4. SignedNumbers!Compare
      BY <2>1, <2>4, <3>2, <3>3 DEF SignedNumbers!Compare
    <3> QED
      BY <3>4 DEF SignedNumbers!Next
  <2>14. CASE FromText
    <3>1. PICK n \in 0..(Base - 1), text \in {"+", "-", "unsigned"} :
            /\ x' = (IF text = "unsigned" THEN Zero ELSE FromNumber(n, SizeOctets))
            /\ y' = y /\ y_neg' = y_neg /\ x_neg' = FALSE /\ call' = "text"
      BY <2>14 DEF FromText, AssignSigned, Assign
    <3>2. Value(x') \in Nat
      BY <3>1, FromNumberResults, ZeroNormal
    <3>3. SignedValue(x', x_neg') \in Nat
      BY <3>1, <3>2 DEF SignedValue
    <3> QED
      BY <2>1, <3>1, <3>3 DEF SignedNumbers!FromText, SignedNumbers!Next
  <2>15. CASE FromSigned
    <3> DEFINE Half == Base^SizeOctets \div 2
    <3>1. PICK n \in (-Half)..(Half - 1) :
            /\ x' = FromNumber(IF n < 0 THEN n + Half ELSE n, SizeOctets)
            /\ y' = y /\ y_neg' = y_neg /\ x_neg' = (n < 0)
            /\ call' = IF n < 0 THEN "wrapped" ELSE "number"
      BY <2>15 DEF FromSigned, AssignSigned, Assign
    <3> DEFINE m == IF n < 0 THEN n + Half ELSE n
    <3>2. Value(FromNumber(m, SizeOctets)) = m /\ m \in Nat
      BY FromNumberResults
    <3>3. Value(x') \in Nat
      BY <3>1, <3>2
    <3> HIDE DEF Half, m
    <3>4. CASE n < 0
      <4> DEFINE u == Value(x')
      <4>2. SignedValue(x', x_neg') = -u
        BY <3>1, <3>4 DEF SignedValue
      <4>3. u \in Nat
        BY <3>3
      <4> HIDE DEF u
      <4>1. SignedValue(x', x_neg') = -u /\ -(-u) \in Nat
        BY <4>2, <4>3
      <4> QED
        BY <2>1, <3>1, <3>3, <3>4, <4>1 DEF SignedNumbers!FromNumber, SignedNumbers!Next
    <3>5. CASE ~(n < 0)
      <4>1. SignedValue(x', x_neg') = Value(x')
        BY <3>1, <3>5 DEF SignedValue
      <4> QED
        BY <2>1, <3>1, <3>3, <3>5, <4>1 DEF SignedNumbers!FromNumber, SignedNumbers!Next
    <3> QED
      BY <3>4, <3>5
  <2> QED
    BY <1>3, <2>8, <2>9, <2>10, <2>11, <2>12, <2>13, <2>14, <2>15 DEF SignedNext
<1> QED
  BY <1>1, <1>2, <1>3

\* nu_big_int.cpp computes with a sign and an absolute value what IntRegisters says
\* of the integers, negative zeros included, for every size of octet.
THEOREM RefinesIntegers == SignedSpec => ComputesIntegers
<1>1. SignedInit => SignedNumbers!Init
  BY IntegersInit
<1>2. Inv /\ Inv' /\ [SignedNext]_allVars => [SignedNumbers!Next]_(SignedNumbers!vars)
  BY IntegersStep
<1> QED
  BY <1>1, <1>2, InvAlways, PTL DEF SignedSpec, ComputesIntegers, SignedNumbers!Spec
=============================================================================
