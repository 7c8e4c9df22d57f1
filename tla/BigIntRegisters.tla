-------------------------- MODULE BigIntRegisters --------------------------
(***************************************************************************)
(* Two UnsignedBigInt objects, and any sequence of the operators the       *)
(* program calls on them.  The representation must stay canonical, for the *)
(* comparison looks at the sizes first, and the objects must behave as the *)
(* natural numbers they stand for.                                         *)
(***************************************************************************)
EXTENDS UnsignedBigInt

CONSTANT MaxOctets   \* bound: longer results are not explored

ASSUME BoundAssumption == MaxOctets \in Nat /\ PowersUpTo(2, MaxOctets * OctetBits)

VARIABLES
  x, y,  \* m_data of the two objects
  call   \* the operator called last, or what it said

vars == <<x, y, call>>

\* UnsignedBigInt(std::vector<uint8_t>), of any octets.
Init ==
  /\ \E d, e \in UNION {Data(n) : n \in 0..MaxOctets} :
       x = Minimum(d) /\ y = Minimum(e)
  /\ call = "none"

Amounts == 0..(MaxOctets * OctetBits)

\* x = the result, which fits.
Assign(name, result) ==
  /\ Len(result) <= MaxOctets
  /\ x' = result
  /\ call' = name
  /\ UNCHANGED y

Swap  == call' = "swap" /\ x' = y /\ y' = x
Plus  == Assign("+", Add(x, y))
Times == Assign("*", Multiply(x, y))
Shift == \E n \in Amounts : Assign("<<", ShiftLeft(x, n))

Minus ==
  /\ ~Less(x, y)
  /\ Assign("-", Subtract(x, y))

MinusAborts ==
  /\ Less(x, y)
  /\ call' = "abort"
  /\ UNCHANGED <<x, y>>

PutBit ==
  \E p \in Amounts, value \in BOOLEAN :
    Assign("set_bit", SetBit(x, p, value))

Divide ==
  /\ x' = Div(x, y)
  /\ y' = Mod(x, y)
  /\ call' = "divmod"

Compare ==
  /\ call' = CASE Less(x, y) -> "less"
               [] Less(y, x) -> "greater"
               [] OTHER      -> "equal"
  /\ UNCHANGED <<x, y>>

Next ==
  \/ /\ call # "abort"
     /\ \/ Swap \/ Plus \/ Times \/ Shift \/ Minus \/ MinusAborts \/ PutBit
        \/ Divide \/ Compare
  \/ call = "abort" /\ UNCHANGED vars

Spec == Init /\ [][Next]_vars
-----------------------------------------------------------------------------
Canonical(d) == d # <<>> => Last(d) # 0

\* ensure_minimum_data_size (nu_unsigned_big_int.cpp:176-183, "this is an
\* invariant"): after any sequence of operators the octets are octets, and the
\* most significant one is not zero.
AlwaysCanonical ==
  \A d \in {x, y} : d \in Seq(Digit) /\ Canonical(d)
=============================================================================
