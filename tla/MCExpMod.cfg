\* Bases, exponents and moduli of up to two octets of two bits, zero included.
SPECIFICATION Spec
CONSTANTS
  OctetBits  = 2
  WordOctets = 4
  Arguments <- SmallArguments
INVARIANTS
  PowerPreserved
  LocalsStaySmall
  CalculatesPower
PROPERTY
  EveryTurnShrinks
