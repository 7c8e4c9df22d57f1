-------------------------- MODULE SignedRegisters --------------------------
(***************************************************************************)
(* The two objects of BigIntRegisters, or two BigInt objects: an           *)
(* UnsignedBigInt each, m_uint, and a sign.                                *)
(***************************************************************************)
EXTENDS BigIntRegisters

CONSTANTS
  SignedOctets,  \* bound: octets of a number to begin with
  SizeOctets     \* sizeof(ssize_t)

ASSUME SizeAssumption ==
  SignedOctets \in Nat /\ SizeOctets \in Nat \ {0} /\ PowersUpTo(Base, SizeOctets)

VARIABLES
  signed,        \* whether the objects are BigInts
  x_neg, y_neg   \* m_is_negative

allVars == <<vars, signed, x_neg, y_neg>>

\* BigInt(std::vector<uint8_t>, bool); an UnsignedBigInt has no sign.
SignedInit ==
  /\ Init
  /\ signed \in BOOLEAN
  /\ IF signed
     THEN /\ Len(x) <= SignedOctets /\ Len(y) <= SignedOctets
          /\ x_neg \in BOOLEAN /\ y_neg \in BOOLEAN
     ELSE x_neg = FALSE /\ y_neg = FALSE

\* x = the number with this sign and this absolute value, which fits.
AssignSigned(name, negative, result) ==
  /\ Assign(name, result)
  /\ x_neg' = negative
  /\ UNCHANGED y_neg

SwapSigned == Swap /\ x_neg' = y_neg /\ y_neg' = x_neg

\* operator+ and operator- both add the absolute values.
SignedPlus ==
  AssignSigned("+", x # y /\ (IF Less(y, x) THEN x_neg ELSE y_neg), Add(x, y))

SignedMinus ==
  AssignSigned("-", x # y /\ (IF Less(y, x) THEN x_neg ELSE ~y_neg), Add(x, y))

SignedTimes == AssignSigned("*", x_neg # y_neg, Multiply(x, y))

SignedDivideSlip ==   \* the sign of the divisor for the remainder
  Divide /\ x_neg' = (x_neg # y_neg) /\ y_neg' = y_neg

SignedDivide == Divide /\ x_neg' = (x_neg # y_neg) /\ y_neg' = x_neg

\* The signs first; the absolute values the other way round if both are negative.
SignedCompare ==
  /\ call' = CASE ~x_neg /\ y_neg          -> "greater"
               [] x_neg /\ ~y_neg          -> "less"
               [] x_neg = y_neg /\ x = y   -> "equal"
               [] OTHER -> IF Less(x, y) # x_neg THEN "less" ELSE "greater"
  /\ UNCHANGED <<x, y, x_neg, y_neg>>

\* BigInt(std::string_view): without a sign in the text the number is zero, and
\* it is never negative.
FromText ==
  \E n \in 0..(Base - 1), text \in {"+", "-", "unsigned"} :
    AssignSigned("text", FALSE, IF text = "unsigned" THEN Zero ELSE FromNumber(n, SizeOctets))

\* BigInt(ssize_t): of a negative number the sign bit is cleared and the rest
\* taken for the absolute value.
FromSigned ==
  LET Half == Base^SizeOctets \div 2 IN
    \E n \in (-Half)..(Half - 1) :
      AssignSigned(IF n < 0 THEN "wrapped" ELSE "number", n < 0,
                   FromNumber(IF n < 0 THEN n + Half ELSE n, SizeOctets))

SignedNext ==
  /\ \/ ~signed /\ Next /\ UNCHANGED <<x_neg, y_neg>>
     \/ /\ signed
        /\ \/ SwapSigned \/ SignedPlus \/ SignedMinus \/ SignedTimes
           \/ SignedDivide \/ SignedCompare \/ FromText \/ FromSigned
  /\ UNCHANGED signed

SignedSpec == SignedInit /\ [][SignedNext]_allVars
-----------------------------------------------------------------------------
\* UnsignedBigInt objects are the naturals they stand for: every operator computes
\* what the arithmetic of NatRegisters does, comparisons included
\* (nu_unsigned_big_int.cpp:17-330).
Registers == INSTANCE NatRegisters WITH
  x <- IF signed THEN 0 ELSE Value(x), y <- IF signed THEN 0 ELSE Value(y),
  call <- IF signed THEN "none" ELSE call, Amounts <- Amounts
ComputesNaturals == Registers!Spec

\* BigInt objects are the integers of IntRegisters, negative zeros included
\* (nu_big_int.cpp:3-77, nu_big_int.h:14-37).
SignedValue(d, negative) == IF negative THEN -Value(d) ELSE Value(d)
SignedNumbers == INSTANCE IntRegisters WITH
  x <- IF signed THEN SignedValue(x, x_neg) ELSE 0,
  y <- IF signed THEN SignedValue(y, y_neg) ELSE 0,
  call <- IF signed THEN call ELSE "none"
ComputesIntegers == SignedNumbers!Spec
=============================================================================
