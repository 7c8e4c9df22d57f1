-------------------------------- MODULE MCRsa --------------------------------
(* Small key pairs for Rsa. *)
EXTENDS Rsa

Pair(n, e, d) == [n |-> n, e |-> e, d |-> d]

\* Over octets of two bits, moduli that hold one, two and three octets, two of
\* them just above the boundary.
SmallKeys == {Pair(6, 3, 3), Pair(15, 3, 3), Pair(21, 5, 5), Pair(33, 3, 7),
              Pair(65, 5, 29)}

\* The same keys over octets of three bits: the first holds none.
TinyKeys == {Pair(6, 3, 3), Pair(15, 3, 3)}
=============================================================================
