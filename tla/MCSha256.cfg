\* The sizes of the code, and messages of up to 120 octets: one to three blocks.
SPECIFICATION HashSpec
CONSTANTS
  WordBits   = 32
  BlockWords = 16
  CountBits  = 64
  Messages  <- TestMessages
  Vectors   <- TestVectors
INVARIANTS
  TypeOK
  NeverAborts
  Recoverable
  KnownAnswers
