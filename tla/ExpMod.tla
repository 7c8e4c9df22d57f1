------------------------------- MODULE ExpMod -------------------------------
(***************************************************************************)
(* expmod(): fast exponentiation, with the operators of UnsignedBigInt.    *)
(* Its two nested loops: the inner one squares as long as the exponent is  *)
(* even, the outer one multiplies in.                                      *)
(***************************************************************************)
EXTENDS MachineWords

CONSTANT Arguments   \* triples <<a, z, n>> of numbers: a.expmod(z, n)

\* No operator leaves a most significant zero, see AlwaysCanonical.
ASSUME ArgumentsAssumption ==
  \A arg \in Arguments : \A k \in 1..3 :
    arg[k] \in Seq(Digit) /\ (arg[k] # Zero => Last(arg[k]) # 0)

VARIABLES
  pc,
  a, z, n,    \* this and the arguments
  a1, z1, x   \* the locals

vars == <<pc, a, z, n, a1, z1, x>>

Two == FromWord(2)
One == FromWord(1)

Init ==
  /\ pc = "outer"
  /\ \E arg \in Arguments : a = arg[1] /\ z = arg[2] /\ n = arg[3]
  /\ a1 = a
  /\ z1 = z
  /\ x = One

EnterSlip ==   \* do, and then while
  /\ pc = "outer"
  /\ pc' = "inner"
  /\ UNCHANGED <<a, z, n, a1, z1, x>>

\* while (z1 != zero)
Enter ==
  /\ pc = "outer"
  /\ z1 # Zero
  /\ pc' = "inner"
  /\ UNCHANGED <<a, z, n, a1, z1, x>>

SquareSlip ==  \* halves an odd exponent, too
  /\ pc = "inner"
  /\ z1 # Zero
  /\ z1' = Div(z1, Two)
  /\ a1' = Mod(Multiply(a1, a1), n)
  /\ UNCHANGED <<pc, a, z, n, x>>

\* while ((z1 % two) == zero): with z1 zero this would have no end.
Square ==
  /\ pc = "inner"
  /\ Mod(z1, Two) = Zero
  /\ z1' = Div(z1, Two)
  /\ a1' = Mod(Multiply(a1, a1), n)
  /\ UNCHANGED <<pc, a, z, n, x>>

MultiplyInSlip ==  \* forgets to reduce
  /\ pc = "inner"
  /\ Mod(z1, Two) # Zero
  /\ pc' = "outer"
  /\ z1' = Subtract(z1, One)
  /\ x' = Multiply(x, a1)
  /\ UNCHANGED <<a, z, n, a1>>

MultiplyIn ==
  /\ pc = "inner"
  /\ Mod(z1, Two) # Zero
  /\ pc' = "outer"
  /\ z1' = Subtract(z1, One)
  /\ x' = Mod(Multiply(x, a1), n)
  /\ UNCHANGED <<a, z, n, a1>>

ReturnSlip ==   \* while (z1 > one)
  /\ pc = "outer"
  /\ z1 \in {Zero, One}
  /\ pc' = "done"
  /\ UNCHANGED <<a, z, n, a1, z1, x>>

Return ==
  /\ pc = "outer"
  /\ z1 = Zero
  /\ pc' = "done"
  /\ UNCHANGED <<a, z, n, a1, z1, x>>

Terminated == pc = "done" /\ UNCHANGED vars

Next == Enter \/ Square \/ MultiplyIn \/ Return \/ Terminated

Spec == Init /\ [][Next]_vars
-----------------------------------------------------------------------------
\* b to the e-th power modulo m, by repeated multiplication.
PowerModulo(b, e, m) ==
  LET power[k \in Nat] == IF k = 0 THEN 1 % m ELSE (power[k - 1] * b) % m
  IN power[e]

\* In every turn of the loops, x times a1 to the z1-th is still what is asked
\* for (nu_unsigned_big_int.cpp:85-92).
PowerPreserved ==
  n # Zero =>
    (Value(x) * PowerModulo(Value(a1), Value(z1), Value(n))) % Value(n)
      = PowerModulo(Value(a), Value(z), Value(n))

\* The locals stay below the modulus, however large the exponent: no number
\* has more octets than the modulus or the first argument.
LocalsStaySmall ==
  n # Zero /\ n # One =>
    /\ Less(x, n)
    /\ a1 # a => Less(a1, n)

\* The loops end, for every exponent and even for the modulus zero: each turn
\* makes z1 smaller, and the inner loop never sees the z1 zero, on which it would
\* go on forever (nu_unsigned_big_int.cpp:85-92).
EveryTurnShrinks == [][pc = "inner" => Less(z1', z1)]_vars

\* "calculates this = (this^z) % n" (nu_unsigned_big_int.cpp:73).  Not so for
\* the modulus one with z zero: x starts at one and is never reduced.
CalculatesPower ==
  pc = "done" /\ n \notin {Zero, One} =>
    Value(x) = PowerModulo(Value(a), Value(z), Value(n))
=============================================================================
