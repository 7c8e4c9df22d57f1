--------------------------- MODULE UnsignedBigInt ---------------------------
(***************************************************************************)
(* The arithmetic of nu_unsigned_big_int: numbers as sequences of octets,  *)
(* least significant first, and the operations as the code computes them,  *)
(* octet by octet and bit by bit.  OctetBits is 8 in the code; with fewer  *)
(* bits the same algorithms run over fewer values.                         *)
(***************************************************************************)
EXTENDS Integers, Sequences, SequencesExt, Powers

CONSTANT OctetBits

ASSUME OctetBitsAssumption == OctetBits \in Nat \ {0}

ASSUME PowersAssumption == PowersUpTo(2, OctetBits)

Base  == 2^OctetBits
Digit == 0..(Base - 1)

Data(n) == [1..n -> Digit]   \* m_data of n octets
Zero    == <<>>

\* The octet at zero-based position i; behind the end there are only zeros.
At(d, i) == IF i \in 0..(Len(d) - 1) THEN d[i + 1] ELSE 0

Zeros(n)       == [i \in 1..n |-> 0]
Ascending(n)   == [i \in 1..n |-> i - 1]        \* 0, 1, ..., n - 1
Descending(n)  == [i \in 1..n |-> n - i]        \* n - 1, ..., 1, 0
Longer(a, b)   == IF Len(a) > Len(b) THEN Len(a) ELSE Len(b)

\* The number that m_data stands for.
Value(d) == FoldLeft(LAMBDA v, i : v * Base + At(d, i), 0, Descending(Len(d)))
-----------------------------------------------------------------------------
MinimumSlip(d) == IF d # <<>> /\ Last(d) = 0 THEN Front(d) ELSE d  \* if for while

\* ensure_minimum_data_size(): no most significant zeros.
Minimum(d) == SubSeq(d, 1, Max({0} \cup {i \in DOMAIN d : d[i] # 0}))

\* UnsignedBigInt(size_t), with w octets in a size_t.
FromNumber(n, w) == Minimum([i \in 1..w |-> (n \div Base^(i - 1)) % Base])

IsBitSet(d, p) == (At(d, p \div OctetBits) \div 2^(p % OctetBits)) % 2 = 1

\* set_bit(p, value)
SetBit(d, p, value) ==
  LET whole == p \div OctetBits
      bit   == 2^(p % OctetBits)
      wide  == d \o Zeros(whole + 1 - Len(d))
      old   == wide[whole + 1]
  IN Minimum([wide EXCEPT ![whole + 1] =
       CASE value /\ ~IsBitSet(d, p) -> old + bit
         [] ~value /\ IsBitSet(d, p) -> old - bit
         [] OTHER                    -> old])

LessSlip(a, b) ==  \* compares from the least significant octet
  \/ Len(a) < Len(b)
  \/ /\ Len(a) = Len(b)
     /\ \E i \in DOMAIN a : a[i] < b[i] /\ \A j \in 1..(i - 1) : a[j] = b[j]

\* operator<=>: the sizes first, then octets from the most significant one.
Less(a, b) ==
  \/ Len(a) < Len(b)
  \/ /\ Len(a) = Len(b)
     /\ \E i \in DOMAIN a :
          a[i] < b[i] /\ \A j \in (i + 1)..Len(a) : a[j] = b[j]

Widened(d, amount) ==
  d \o Zeros((amount \div OctetBits) + (IF amount % OctetBits > 0 THEN 1 ELSE 0))

\* The octets overwritten one by one, in the given order of positions.
Shifted(wide, amount, order) ==
  LET whole == amount \div OctetBits
      sub   == amount % OctetBits
      Here(m, i) ==
        IF i < whole THEN 0
        ELSE ((At(m, i - whole) * 2^sub) % Base)
               + (At(m, i - whole - 1) \div 2^(OctetBits - sub))
  IN Minimum(FoldLeft(LAMBDA m, i : [m EXCEPT ![i + 1] = Here(m, i)], wide, order))

\* Goes up, and overwrites octets it has still to read.
ShiftLeftSlip(d, amount) ==
  LET wide == Widened(d, amount) IN Shifted(wide, amount, Ascending(Len(wide)))

\* operator<<=: in place, from the most significant octet down.
ShiftLeft(d, amount) ==
  LET wide == Widened(d, amount) IN Shifted(wide, amount, Descending(Len(wide)))

\* a plus sign times b, one column after the other: of each result the octet is
\* kept and the rest carried on.  A result below zero borrows, for its quotient
\* by Base is -1.
Columns(a, b, sign) ==
  LET Res(i, carry) == At(a, i) + sign * At(b, i) + carry
  IN FoldLeft(LAMBDA s, i : [cache |-> Append(s.cache, Res(i, s.carry) % Base),
                             carry |-> Res(i, s.carry) \div Base],
              [cache |-> <<>>, carry |-> 0], Ascending(Longer(a, b)))

\* operator+: what is carried out of the last column is an octet of its own.
Add(a, b) ==
  LET sum == Columns(a, b, 1)
  IN Minimum(IF sum.carry > 0 THEN Append(sum.cache, 1) ELSE sum.cache)

\* operator-, which aborts when b is larger, see MinusAborts.  The aborts further on
\* (an octet of b or a carry left over) are never reached then.
Subtract(a, b) == Minimum(Columns(a, b, -1).cache)

\* operator*: one shifted addend for every bit of a.
Multiply(a, b) ==
  FoldLeft(LAMBDA ret, p : IF IsBitSet(a, p) THEN Add(ret, ShiftLeft(b, p)) ELSE ret,
           Zero, Ascending(Len(a) * OctetBits))

\* divmod(): tries the divisor at every shift, the largest first.  Division by
\* zero is not refused: every shift fits.  It aborts unless its two results are zero
\* before; operator/ and operator%, its only callers, pass new ones.
DivMod(a, divisor) ==
  LET Step(s, p) ==
        LET shifted == ShiftLeft(divisor, p) IN
          IF Less(s.mod, shifted) THEN s
          ELSE [div |-> SetBit(s.div, p, TRUE), mod |-> Subtract(s.mod, shifted)]
  IN FoldLeft(Step, [div |-> Zero, mod |-> a], Descending(Len(a) * OctetBits))

Div(a, b) == DivMod(a, b).div
Mod(a, b) == DivMod(a, b).mod
=============================================================================
