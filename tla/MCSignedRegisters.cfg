\* Octets of two bits, numbers of up to three octets; BigInts of two to begin with.
SPECIFICATION SignedSpec
CONSTANTS
  OctetBits = 2
  MaxOctets = 3
  SignedOctets = 2
  SizeOctets = 2
INVARIANT
  AlwaysCanonical
PROPERTIES
  ComputesNaturals
  ComputesIntegers
