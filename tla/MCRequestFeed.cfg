\* Well-framed flights: refinement of MessageFeed, and progress.
SPECIFICATION DeliverySpec
CONSTANTS
  Flights     <- WellFramedFlights
  BufferSize  = 16
  NodeSize    = 64
  ParseCert   <- MCParseCert
  VerifyChain <- MCVerifyChain
PROPERTIES
  HandsOutMessages
  DecodeReturns
  HandshakeCompletes
