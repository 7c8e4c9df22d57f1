---------------------------- MODULE IntRegisters ----------------------------
(***************************************************************************)
(* What BigInt keeps of the arithmetic of the integers: two of them, with  *)
(* products, quotients that round towards zero, and the order of all but   *)
(* the two zeros.  Sums and differences are only promised where they add   *)
(* the absolute values, and are not a negative number doubled.             *)
(***************************************************************************)
EXTENDS Integers

VARIABLES
  x, y,  \* the numbers
  call   \* the operator called last, or what it said

vars == <<x, y, call>>

Init == x \in Int /\ y \in Int /\ call = "none"

Abs(n)  == IF n < 0 THEN -n ELSE n
Sign(n) == IF n < 0 THEN -1 ELSE 1

Swap  == call' = "swap" /\ x' = y /\ y' = x
Times == call' = "*" /\ x' = x * y /\ y' = y

Plus ==
  /\ call' = "+"
  /\ IF x * y >= 0 /\ ~(x < 0 /\ x = y) THEN x' = x + y ELSE x' \in Int
  /\ y' = y

Minus ==
  /\ call' = "-"
  /\ IF x * y <= 0 /\ ~(x < 0 /\ x = -y) THEN x' = x - y ELSE x' \in Int
  /\ y' = y

Divide ==
  /\ call' = "divmod"
  /\ IF y = 0 THEN x' \in Int /\ y' = x
     ELSE /\ x' = Sign(x) * Sign(y) * (Abs(x) \div Abs(y))
          /\ y' = x - y * x'

Compare ==
  /\ call' \in IF x = 0 /\ y = 0 THEN {"less", "equal", "greater"}
               ELSE CASE x < y -> {"less"} [] x = y -> {"equal"} [] x > y -> {"greater"}
  /\ UNCHANGED <<x, y>>

\* A text never gives a negative number, a number only if it was one.
FromText   == call' = "text" /\ x' \in Nat /\ y' = y
FromNumber ==
  /\ \/ call' = "number" /\ x' \in Nat
     \/ call' = "wrapped" /\ -x' \in Nat
  /\ y' = y

Next ==
  Swap \/ Times \/ Plus \/ Minus \/ Divide \/ Compare \/ FromText \/ FromNumber

Spec == Init /\ [][Next]_vars
=============================================================================
