\* A modulus of less than one octet.  The loop has no end; the bound ends it.
SPECIFICATION RsaSpec
CONSTANTS
  OctetBits  = 3
  MaxAmount  = 4
  MaxMessage = 2
  MaxBlocks  = 3
  MaxGiven   = 0
  Keys <- TinyKeys
INVARIANT
  SmallModulusIsAnError
CHECK_DEADLOCK FALSE
