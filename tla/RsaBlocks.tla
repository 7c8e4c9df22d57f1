----------------------------- MODULE RsaBlocks -----------------------------
(***************************************************************************)
(* How rsa.cpp turns octets into numbers below the modulus and back.       *)
(* Numbers are naturals here, as BigIntRegisters and ExpMod justify.       *)
(* OctetBits is 8 in the code.  A key is a record of its modulus n and its *)
(* exponents e and d.                                                      *)
(***************************************************************************)
EXTENDS Integers, Sequences, SequencesExt, Powers

CONSTANTS
  OctetBits,
  MaxAmount   \* bound: no modulus has more octets

Levels == 2^OctetBits
Octet  == 0..(Levels - 1)

ASSUME RsaAssumption ==
  /\ OctetBits \in Nat \ {0}
  /\ MaxAmount \in Nat
  /\ PowersUpTo(2, OctetBits)
  /\ PowersUpTo(Levels, MaxAmount)

\* base.expmod(exponent, modulus), see ExpMod.
Power(base, exponent, modulus) ==
  LET power[k \in 0..exponent] ==
        IF k = 0 THEN 1
        ELSE IF k % 2 = 0
        THEN LET half == power[k \div 2] IN (half * half) % modulus
        ELSE (power[k - 1] * base) % modulus
  IN power[exponent]

\* One octet too many, so that a block may exceed the modulus.
BlockAmountSlip(modulus) ==
  Cardinality({i \in 1..MaxAmount : Levels^(i - 1) < modulus})

\* One octet too few.
BlockAmountShortSlip(modulus) ==
  Cardinality({i \in 1..MaxAmount : Levels^(i + 1) < modulus})

\* block_amount: how many octets are sure to be below the modulus.
BlockAmount(modulus) ==
  Cardinality({i \in 1..MaxAmount : Levels^i < modulus})

\* The number that octets stand for, the first one least significant: msg[i] is
\* what the loop has after i turns, from the last octet on.
Number(octets) ==
  LET msg[i \in 0..Len(octets)] ==
        IF i = 0 THEN 0 ELSE msg[i - 1] * Levels + octets[Len(octets) - i + 1]
  IN msg[Len(octets)]

\* The least significant octets of a number, the least significant one first.
Octets(n, amount) == [i \in 1..amount |-> (n \div Levels^(i - 1)) % Levels]

\* decrypt() of one block: as many octets as are sure to be below the modulus,
\* so that what is above them is dropped.
DecryptedOctets(encrypted, exponent, modulus) ==
  Octets(Power(encrypted, exponent, modulus), BlockAmount(modulus))
=============================================================================
