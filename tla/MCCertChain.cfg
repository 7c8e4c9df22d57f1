\* Three keys, two contents, chains of up to three certificates; signatures over a
\* part of a hash and other odd ones in chains of up to two.
SPECIFICATION Spec
CONSTANTS
  OctetBits = 2
  MaxAmount = 8
  MaxChain  = 3
  tbs1 = tbs1
  tbs2 = tbs2
  Hash <- HashOf
  DigestInfo <- Info
  Certs  <- AllCerts
  Chains <- AllChains
INVARIANTS
  SignaturesBind
  AcceptedIffSigned
  VerifiedSuffix
