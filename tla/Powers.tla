------------------------------- MODULE Powers -------------------------------
(***************************************************************************)
(* What the provers are told about powers.                                 *)
(***************************************************************************)
EXTENDS Integers

\* How ^ is defined, up to the m-th power of b.
PowersUpTo(b, m) == b^0 = 1 /\ \A k \in 0..(m - 1) : b^(k + 1) = b * b^k
=============================================================================
