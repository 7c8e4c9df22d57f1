---------------------------- MODULE NatRegisters ----------------------------
(***************************************************************************)
(* What UnsignedBigInt promises: two natural numbers and the arithmetic of *)
(* the naturals, whatever octets they are kept in.                         *)
(***************************************************************************)
EXTENDS Naturals

CONSTANT Amounts  \* by how many bits to shift, which bit to set

VARIABLES
  x, y,  \* the numbers
  call   \* the operator called last, or what it said

vars == <<x, y, call>>

Init == x \in Nat /\ y \in Nat /\ call = "none"

Swap  == call' = "swap" /\ x' = y /\ y' = x
Plus  == call' = "+" /\ x' = x + y /\ y' = y
Minus == call' = "-" /\ y <= x /\ x' = x - y /\ y' = y
Times == call' = "*" /\ x' = x * y /\ y' = y
Shift == call' = "<<" /\ (\E n \in Amounts : x' = x * 2^n) /\ y' = y

\* One bit of x becomes 1 or 0.
SetBit ==
  /\ call' = "set_bit"
  /\ \E p \in Amounts : LET bit == (x \div 2^p) % 2 IN
       x' \in {x + (1 - bit) * 2^p, x - bit * 2^p}
  /\ y' = y

\* Division by zero leaves the dividend as the remainder; nothing is said
\* about the quotient.
Divide ==
  /\ call' = "divmod"
  /\ IF y = 0 THEN x' \in Nat /\ y' = x ELSE x' = x \div y /\ y' = x % y

Compare ==
  /\ call' = CASE x < y -> "less" [] x = y -> "equal" [] x > y -> "greater"
  /\ UNCHANGED <<x, y>>

\* The difference would be negative: the program ends.
Abort == y > x /\ call' = "abort" /\ UNCHANGED <<x, y>>

Next ==
  /\ call # "abort"
  /\ \/ Swap \/ Plus \/ Minus \/ Times \/ Shift \/ SetBit \/ Divide \/ Compare
     \/ Abort

Spec == Init /\ [][Next]_vars
=============================================================================
