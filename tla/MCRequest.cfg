\* Every flight, every segmentation: the safety of the deque and of the framing.
SPECIFICATION Spec
CONSTANTS
  Flights     <- AllFlights
  BufferSize  = 40
  NodeSize    = 64
  ParseCert   <- MCParseCert
  VerifyChain <- MCVerifyChain
INVARIANTS
  TypeOK
  BufferIsUnread
  RecordAligned
  NeverOverruns
  WholeRecordsTaken
  SupportedFlightAccepted
  HelloUnderstood
