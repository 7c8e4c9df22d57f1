\* A preamble whose length octets lie in two nodes of the deque.
SPECIFICATION Spec
CONSTANTS
  Flights     <- CrossingFlights
  BufferSize  = 48
  NodeSize    = 64
  ParseCert   <- MCParseCert
  VerifyChain <- MCVerifyChain
INVARIANT
  PreambleReadInPlace
