\* A ServerHello and a ServerHelloDone in one record.
SPECIFICATION Spec
CONSTANTS
  Flights     <- CoalescedFlights
  BufferSize  = 48
  NodeSize    = 64
  ParseCert   <- MCParseCert
  VerifyChain <- MCVerifyChain
INVARIANT
  CoalescedFlightUnderstood
