\* Octets of four bits, the least that hold a ten: all numbers of up to two
\* octets, and all texts of up to two characters.
SPECIFICATION DecimalSpec
CONSTANTS
  OctetBits  = 4
  MaxOctets  = 2
  MaxText    = 2
  WordOctets = 4
INVARIANTS
  ReadsBack
  NothingLost
  DivGetsSmaller
