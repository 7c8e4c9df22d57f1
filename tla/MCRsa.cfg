\* Octets of two bits, messages of up to four octets, up to two given numbers.
SPECIFICATION RsaSpec
CONSTANTS
  OctetBits  = 2
  MaxAmount  = 4
  MaxMessage = 4
  MaxBlocks  = 5
  MaxGiven   = 2
  Keys <- SmallKeys
INVARIANTS
  BlocksFromTheEnd
  BlocksFitModulus
PROPERTY
  EveryBlockConsumes
