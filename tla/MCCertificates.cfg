\* Certificates and chains of them, other encodings up to three levels deep, and
\* short strings of octets.  A size has three octets.
SPECIFICATION CertificatesSpec
CONSTANTS
  OctetBits  = 8
  SizeOctets = 3
  OidRadix   = 40
  SignatureBits = 2
  MaxAmount  = 8
  ConstructedIds <- IdsWithBit6
  OidIds     <- IdsOfOids
  Spelling   <- SpellingOf
  Hash       <- HashOf
  DigestInfo <- Info
  Inputs     <- AllInputs
  Objects    <- AllObjects
  Messages   <- AllMessages
INVARIANTS
  ParsesEncodings
  RawOctetsTile
  ReadsCertificate
  RefusesOthers
  AcceptsMeantChain
PROPERTIES
  ParsesOn
  VerifiesMeantChain
